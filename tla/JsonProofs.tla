----------------------------- MODULE JsonProofs -----------------------------
(***************************************************************************)
(* Proofs about JsonCodec, for every value, text, layout and depth, and    *)
(* about JsonString, for every set of byte sequences and of texts.         *)
(***************************************************************************)
EXTENDS JsonCodec, JsonString, SequenceTheorems, WellFoundedInduction, TLAPS

(* A set of numbers has a least one, and what holds of 0 and of the next   *)
(* number holds of all.                                                    *)
LEMMA LessWF == IsWellFoundedOn({p \in Nat \X Nat : p[1] < p[2]}, Nat)
<1>1. OpToRel(<, Nat) = {p \in Nat \X Nat : p[1] < p[2]}
  BY DEF OpToRel
<1> QED BY <1>1, NatLessThanWellFounded

(* A set of numbers that is not empty has a least one. *)
LEMMA Least == ASSUME NEW T, T \subseteq Nat, T # {} PROVE \E n \in T : \A m \in T : n <= m
<1>1. \E x \in T : \A y \in T : <<y, x>> \notin {p \in Nat \X Nat : p[1] < p[2]}
  BY LessWF, WFMin
<1>2. PICK x \in T : \A y \in T : <<y, x>> \notin {p \in Nat \X Nat : p[1] < p[2]}
  BY <1>1
<1>3. ASSUME NEW y \in T PROVE x <= y
  <2>1. x \in Nat /\ y \in Nat
    OBVIOUS
  <2>2. <<y, x>> \notin {p \in Nat \X Nat : p[1] < p[2]}
    BY <1>2
  <2>3. <<y, x>> \in Nat \X Nat /\ <<y, x>>[1] = y /\ <<y, x>>[2] = x
    BY <2>1
  <2>4. ~(y < x)
    BY <2>2, <2>3
  <2> QED BY <2>1, <2>4
<1> QED BY <1>3

(* What holds of 0, and of the number behind each it holds of, holds of    *)
(* all.                                                                    *)
LEMMA NatInd == ASSUME NEW S, 0 \in S, \A n \in Nat : n \in S => n + 1 \in S PROVE Nat \subseteq S
<1> SUFFICES ASSUME Nat \ S # {} PROVE FALSE
  OBVIOUS
<1>1. Nat \ S \subseteq Nat
  OBVIOUS
<1>2. PICK n \in Nat \ S : \A m \in Nat \ S : n <= m
  BY <1>1, Least
<1>3. n # 0 /\ n - 1 \in Nat /\ n - 1 + 1 = n
  BY <1>2
<1> QED BY <1>2, <1>3

-----------------------------------------------------------------------------
(* What the recursive functions are.  Each is the one that its definition  *)
(* says, as there is one: by induction on how far it goes.                 *)

(* decode_one(), *)
LEMMA DecodeIs ==
  ASSUME NEW t
  PROVE  decode_one(t) = [n \in 0 .. Guard + 1 |-> [p \in Places(t) |->
                       IF n = 0 THEN fails ELSE decode_token(decode_one(t)[n - 1], t, skipwhite(t, p))]]
<1> DEFINE E(n, d) == [p \in Places(t) |->
                       IF n = 0 THEN fails ELSE decode_token(d, t, skipwhite(t, p))]
           fix == CHOOSE f : f = [n \in 0 .. Guard + 1 |-> E(n, f[n - 1])]
<1>1. decode_one(t) = fix
  BY DEF decode_one
<1>2. ASSUME NEW d, NEW d2 PROVE E(0, d) = E(0, d2)
  OBVIOUS
<1> SUFFICES fix = [n \in 0 .. Guard + 1 |-> E(n, fix[n - 1])]
  BY <1>1
<1> HIDE DEF E
<1> DEFINE P == {m \in Nat : \E f : f = [n \in 0 .. m |-> E(n, f[n - 1])]}
<1>3. 0 \in P
  <2> DEFINE f == [n \in 0 .. 0 |-> E(0, 0)]
  <2>1. ASSUME NEW n \in 0 .. 0 PROVE f[n] = E(n, f[n - 1])
    <3>1. n = 0 /\ f[n] = E(0, 0)
      OBVIOUS
    <3> QED BY <3>1, <1>2
  <2>2. f = [n \in 0 .. 0 |-> E(n, f[n - 1])]
    BY <2>1
  <2> QED BY <2>2
<1>4. ASSUME NEW m \in Nat, m \in P PROVE m + 1 \in P
  <2>1. PICK f : f = [n \in 0 .. m |-> E(n, f[n - 1])]
    BY <1>4
  <2> DEFINE g == [n \in 0 .. m + 1 |-> IF n = m + 1 THEN E(n, f[m]) ELSE f[n]]
  <2>2. ASSUME NEW n \in 0 .. m + 1 PROVE g[n] = E(n, g[n - 1])
    <3>1. CASE n = 0
      <4>1. g[n] = f[n] /\ f[n] = E(n, f[n - 1])
        BY <2>1, <3>1
      <4> QED BY <4>1, <1>2, <3>1
    <3>2. CASE n # 0 /\ n # m + 1
      <4>1. n - 1 \in 0 .. m + 1 /\ n - 1 # m + 1 /\ n \in 0 .. m
        BY <3>2
      <4>2. g[n] = f[n] /\ g[n - 1] = f[n - 1]
        BY <4>1, <3>2
      <4>3. f[n] = E(n, f[n - 1])
        BY <2>1, <4>1
      <4> QED BY <4>2, <4>3
    <3>3. CASE n = m + 1
      <4>1. m \in 0 .. m + 1 /\ m # m + 1 /\ n - 1 = m
        BY <3>3
      <4>2. g[n] = E(n, f[m]) /\ g[m] = f[m]
        BY <4>1, <3>3
      <4> QED BY <4>1, <4>2
    <3> QED BY <3>1, <3>2, <3>3
  <2>3. g = [n \in 0 .. m + 1 |-> E(n, g[n - 1])]
    BY <2>2
  <2> HIDE DEF g, fix
  <2> QED BY <2>3
<1>5. Guard + 1 \in P
  <2> HIDE DEF P
  <2> QED BY <1>3, <1>4, NatInd, JsonAssumption DEF JsonAssumption
<1>6. PICK f : f = [n \in 0 .. Guard + 1 |-> E(n, f[n - 1])]
  BY <1>5
<1> QED BY <1>6

(* its loop, *)
DecodeTurns(deeper, t, p, empty, turn) ==
  /\ turn[0] = more(skipwhite(t, p), empty)
  /\ \A i \in 1 .. Len(t) + 1 : turn[i] = decode_part(deeper, t, turn[i - 1])

(* There is such a loop, and decode_parts() is where it ends. *)
LEMMA PartsIs ==
  ASSUME NEW deeper, NEW t, Len(t) \in Nat, NEW p, NEW empty
  PROVE  \E turn : DecodeTurns(deeper, t, p, empty, turn) /\ decode_parts(deeper, t, p, empty) = turn[Len(t) + 1]
<1> DEFINE E(n, d) == IF n = 0 THEN more(skipwhite(t, p), empty) ELSE decode_part(deeper, t, d)
           fix == CHOOSE f : f = [n \in 0 .. Len(t) + 1 |-> E(n, f[n - 1])]
<1>1. decode_parts(deeper, t, p, empty) = fix[Len(t) + 1]
  BY DEF decode_parts
<1>2. ASSUME NEW d, NEW d2 PROVE E(0, d) = E(0, d2)
  OBVIOUS
<1> HIDE DEF E
<1> DEFINE P == {m \in Nat : \E f : f = [n \in 0 .. m |-> E(n, f[n - 1])]}
<1>3. 0 \in P
  <2> DEFINE f == [n \in 0 .. 0 |-> E(0, 0)]
  <2>1. ASSUME NEW n \in 0 .. 0 PROVE f[n] = E(n, f[n - 1])
    <3>1. n = 0 /\ f[n] = E(0, 0)
      OBVIOUS
    <3> QED BY <3>1, <1>2
  <2>2. f = [n \in 0 .. 0 |-> E(n, f[n - 1])]
    BY <2>1
  <2> QED BY <2>2
<1>4. ASSUME NEW m \in Nat, m \in P PROVE m + 1 \in P
  <2>1. PICK f : f = [n \in 0 .. m |-> E(n, f[n - 1])]
    BY <1>4
  <2> DEFINE g == [n \in 0 .. m + 1 |-> IF n = m + 1 THEN E(n, f[m]) ELSE f[n]]
  <2>2. ASSUME NEW n \in 0 .. m + 1 PROVE g[n] = E(n, g[n - 1])
    <3>1. CASE n = 0
      <4>1. g[n] = f[n] /\ f[n] = E(n, f[n - 1])
        BY <2>1, <3>1
      <4> QED BY <4>1, <1>2, <3>1
    <3>2. CASE n # 0 /\ n # m + 1
      <4>1. n - 1 \in 0 .. m + 1 /\ n - 1 # m + 1 /\ n \in 0 .. m
        BY <3>2
      <4>2. g[n] = f[n] /\ g[n - 1] = f[n - 1]
        BY <4>1, <3>2
      <4>3. f[n] = E(n, f[n - 1])
        BY <2>1, <4>1
      <4> QED BY <4>2, <4>3
    <3>3. CASE n = m + 1
      <4>1. m \in 0 .. m + 1 /\ m # m + 1 /\ n - 1 = m
        BY <3>3
      <4>2. g[n] = E(n, f[m]) /\ g[m] = f[m]
        BY <4>1, <3>3
      <4> QED BY <4>1, <4>2
    <3> QED BY <3>1, <3>2, <3>3
  <2>3. g = [n \in 0 .. m + 1 |-> E(n, g[n - 1])]
    BY <2>2
  <2> HIDE DEF g, fix
  <2> QED BY <2>3
<1>5. Len(t) + 1 \in P
  <2> HIDE DEF P
  <2> QED BY <1>3, <1>4, NatInd
<1>6. PICK f : f = [n \in 0 .. Len(t) + 1 |-> E(n, f[n - 1])]
  BY <1>5
<1>7. fix = [n \in 0 .. Len(t) + 1 |-> E(n, fix[n - 1])]
  BY <1>6
<1> HIDE DEF fix, P
<1>8. ASSUME NEW i \in 0 .. Len(t) + 1 PROVE fix[i] = E(i, fix[i - 1])
  BY <1>7
<1>9. 0 \in 0 .. Len(t) + 1 /\ \A i \in 1 .. Len(t) + 1 : i \in 0 .. Len(t) + 1 /\ i # 0
  OBVIOUS
<1>10. DecodeTurns(deeper, t, p, empty, fix)
  BY <1>8, <1>9 DEF E, DecodeTurns
<1> QED BY <1>1, <1>10

(* encode_one(), *)
LEMMA EncodeIs ==
  ASSUME NEW lay
  PROVE  encode_one(lay) = [n \in 0 .. Deep |-> [x \in Value(n) |-> [e \in Encoder |->
                       encode_type(lay, IF n = 0 THEN <<>> ELSE encode_one(lay)[n - 1], e, x)]]]
<1> DEFINE E(n, d) == [x \in Value(n) |-> [e \in Encoder |->
                       encode_type(lay, IF n = 0 THEN <<>> ELSE d, e, x)]]
           fix == CHOOSE f : f = [n \in 0 .. Deep |-> E(n, f[n - 1])]
<1>1. encode_one(lay) = fix
  BY DEF encode_one
<1>2. ASSUME NEW d, NEW d2 PROVE E(0, d) = E(0, d2)
  OBVIOUS
<1> SUFFICES fix = [n \in 0 .. Deep |-> E(n, fix[n - 1])]
  BY <1>1, ZenonT(60)
<1> HIDE DEF E
<1> DEFINE P == {m \in Nat : \E f : f = [n \in 0 .. m |-> E(n, f[n - 1])]}
<1>3. 0 \in P
  <2> DEFINE f == [n \in 0 .. 0 |-> E(0, 0)]
  <2>1. ASSUME NEW n \in 0 .. 0 PROVE f[n] = E(n, f[n - 1])
    <3>1. n = 0 /\ f[n] = E(0, 0)
      OBVIOUS
    <3> QED BY <3>1, <1>2
  <2>2. f = [n \in 0 .. 0 |-> E(n, f[n - 1])]
    BY <2>1
  <2> QED BY <2>2
<1>4. ASSUME NEW m \in Nat, m \in P PROVE m + 1 \in P
  <2>1. PICK f : f = [n \in 0 .. m |-> E(n, f[n - 1])]
    BY <1>4
  <2> DEFINE g == [n \in 0 .. m + 1 |-> IF n = m + 1 THEN E(n, f[m]) ELSE f[n]]
  <2>2. ASSUME NEW n \in 0 .. m + 1 PROVE g[n] = E(n, g[n - 1])
    <3>1. CASE n = 0
      <4>1. g[n] = f[n] /\ f[n] = E(n, f[n - 1])
        BY <2>1, <3>1
      <4> QED BY <4>1, <1>2, <3>1
    <3>2. CASE n # 0 /\ n # m + 1
      <4>1. n - 1 \in 0 .. m + 1 /\ n - 1 # m + 1 /\ n \in 0 .. m
        BY <3>2
      <4>2. g[n] = f[n] /\ g[n - 1] = f[n - 1]
        BY <4>1, <3>2
      <4>3. f[n] = E(n, f[n - 1])
        BY <2>1, <4>1
      <4> QED BY <4>2, <4>3
    <3>3. CASE n = m + 1
      <4>1. m \in 0 .. m + 1 /\ m # m + 1 /\ n - 1 = m
        BY <3>3
      <4>2. g[n] = E(n, f[m]) /\ g[m] = f[m]
        BY <4>1, <3>3
      <4> QED BY <4>1, <4>2
    <3> QED BY <3>1, <3>2, <3>3
  <2>3. g = [n \in 0 .. m + 1 |-> E(n, g[n - 1])]
    BY <2>2
  <2> HIDE DEF g, fix
  <2> QED BY <2>3
<1>5. Deep \in P
  <2> HIDE DEF P
  <2> QED BY <1>3, <1>4, NatInd, JsonAssumption DEF JsonAssumption
<1>6. PICK f : f = [n \in 0 .. Deep |-> E(n, f[n - 1])]
  BY <1>5
<1> QED BY <1>6

(* its loop, *)
WriteTurns(lay, deeper, e, x, turn) ==
  /\ turn[0] = indented(e, 1)
  /\ \A i \in 1 .. Len(Parts(x)) : turn[i] = encode_part(lay, deeper, turn[i - 1], x, Parts(x)[i])

(* There is such a loop, and encode_parts() is what it makes. *)
LEMMA WritesIs ==
  ASSUME NEW lay, NEW deeper, NEW e, NEW x, Len(Parts(x)) \in Nat
  PROVE  \E turn : WriteTurns(lay, deeper, e, x, turn) /\ encode_parts(lay, deeper, e, x) = turn[Len(Parts(x))]
<1> DEFINE E(n, d) == IF n = 0 THEN indented(e, 1)
                        ELSE encode_part(lay, deeper, d, x, Parts(x)[n])
           fix == CHOOSE f : f = [n \in 0 .. Len(Parts(x)) |-> E(n, f[n - 1])]
<1>1. encode_parts(lay, deeper, e, x) = fix[Len(Parts(x))]
  BY DEF encode_parts
<1>2. ASSUME NEW d, NEW d2 PROVE E(0, d) = E(0, d2)
  OBVIOUS
<1> HIDE DEF E
<1> DEFINE P == {m \in Nat : \E f : f = [n \in 0 .. m |-> E(n, f[n - 1])]}
<1>3. 0 \in P
  <2> DEFINE f == [n \in 0 .. 0 |-> E(0, 0)]
  <2>1. ASSUME NEW n \in 0 .. 0 PROVE f[n] = E(n, f[n - 1])
    <3>1. n = 0 /\ f[n] = E(0, 0)
      OBVIOUS
    <3> QED BY <3>1, <1>2
  <2>2. f = [n \in 0 .. 0 |-> E(n, f[n - 1])]
    BY <2>1
  <2> QED BY <2>2
<1>4. ASSUME NEW m \in Nat, m \in P PROVE m + 1 \in P
  <2>1. PICK f : f = [n \in 0 .. m |-> E(n, f[n - 1])]
    BY <1>4
  <2> DEFINE g == [n \in 0 .. m + 1 |-> IF n = m + 1 THEN E(n, f[m]) ELSE f[n]]
  <2>2. ASSUME NEW n \in 0 .. m + 1 PROVE g[n] = E(n, g[n - 1])
    <3>1. CASE n = 0
      <4>1. g[n] = f[n] /\ f[n] = E(n, f[n - 1])
        BY <2>1, <3>1
      <4> QED BY <4>1, <1>2, <3>1
    <3>2. CASE n # 0 /\ n # m + 1
      <4>1. n - 1 \in 0 .. m + 1 /\ n - 1 # m + 1 /\ n \in 0 .. m
        BY <3>2
      <4>2. g[n] = f[n] /\ g[n - 1] = f[n - 1]
        BY <4>1, <3>2
      <4>3. f[n] = E(n, f[n - 1])
        BY <2>1, <4>1
      <4> QED BY <4>2, <4>3
    <3>3. CASE n = m + 1
      <4>1. m \in 0 .. m + 1 /\ m # m + 1 /\ n - 1 = m
        BY <3>3
      <4>2. g[n] = E(n, f[m]) /\ g[m] = f[m]
        BY <4>1, <3>3
      <4> QED BY <4>1, <4>2
    <3> QED BY <3>1, <3>2, <3>3
  <2>3. g = [n \in 0 .. m + 1 |-> E(n, g[n - 1])]
    BY <2>2
  <2> HIDE DEF g, fix
  <2> QED BY <2>3
<1>5. Len(Parts(x)) \in P
  <2> HIDE DEF P
  <2> QED BY <1>3, <1>4, NatInd
<1>6. PICK f : f = [n \in 0 .. Len(Parts(x)) |-> E(n, f[n - 1])]
  BY <1>5
<1>7. fix = [n \in 0 .. Len(Parts(x)) |-> E(n, fix[n - 1])]
  BY <1>6
<1> HIDE DEF fix, P
<1>8. ASSUME NEW i \in 0 .. Len(Parts(x)) PROVE fix[i] = E(i, fix[i - 1])
  BY <1>7
<1>9. 0 \in 0 .. Len(Parts(x)) /\ \A i \in 1 .. Len(Parts(x)) : i \in 0 .. Len(Parts(x)) /\ i # 0
  OBVIOUS
<1>10. WriteTurns(lay, deeper, e, x, fix)
  BY <1>8, <1>9 DEF E, WriteTurns
<1> QED BY <1>1, <1>10

(* the values, *)
LEMMA NestedIs ==
  ASSUME NEW atoms, NEW keys
  PROVE  Nested(atoms, keys) = [n \in 0 .. Deep |-> Built(atoms, keys, IF n = 0 THEN {} ELSE Nested(atoms, keys)[n - 1])]
<1> DEFINE E(n, d) == Built(atoms, keys, IF n = 0 THEN {} ELSE d)
           fix == CHOOSE f : f = [n \in 0 .. Deep |-> E(n, f[n - 1])]
<1>1. Nested(atoms, keys) = fix
  BY DEF Nested
<1>2. ASSUME NEW d, NEW d2 PROVE E(0, d) = E(0, d2)
  OBVIOUS
<1> SUFFICES fix = [n \in 0 .. Deep |-> E(n, fix[n - 1])]
  BY <1>1
<1> HIDE DEF E
<1> DEFINE P == {m \in Nat : \E f : f = [n \in 0 .. m |-> E(n, f[n - 1])]}
<1>3. 0 \in P
  <2> DEFINE f == [n \in 0 .. 0 |-> E(0, 0)]
  <2>1. ASSUME NEW n \in 0 .. 0 PROVE f[n] = E(n, f[n - 1])
    <3>1. n = 0 /\ f[n] = E(0, 0)
      OBVIOUS
    <3> QED BY <3>1, <1>2
  <2>2. f = [n \in 0 .. 0 |-> E(n, f[n - 1])]
    BY <2>1
  <2> QED BY <2>2
<1>4. ASSUME NEW m \in Nat, m \in P PROVE m + 1 \in P
  <2>1. PICK f : f = [n \in 0 .. m |-> E(n, f[n - 1])]
    BY <1>4
  <2> DEFINE g == [n \in 0 .. m + 1 |-> IF n = m + 1 THEN E(n, f[m]) ELSE f[n]]
  <2>2. ASSUME NEW n \in 0 .. m + 1 PROVE g[n] = E(n, g[n - 1])
    <3>1. CASE n = 0
      <4>1. g[n] = f[n] /\ f[n] = E(n, f[n - 1])
        BY <2>1, <3>1
      <4> QED BY <4>1, <1>2, <3>1
    <3>2. CASE n # 0 /\ n # m + 1
      <4>1. n - 1 \in 0 .. m + 1 /\ n - 1 # m + 1 /\ n \in 0 .. m
        BY <3>2
      <4>2. g[n] = f[n] /\ g[n - 1] = f[n - 1]
        BY <4>1, <3>2
      <4>3. f[n] = E(n, f[n - 1])
        BY <2>1, <4>1
      <4> QED BY <4>2, <4>3
    <3>3. CASE n = m + 1
      <4>1. m \in 0 .. m + 1 /\ m # m + 1 /\ n - 1 = m
        BY <3>3
      <4>2. g[n] = E(n, f[m]) /\ g[m] = f[m]
        BY <4>1, <3>3
      <4> QED BY <4>1, <4>2
    <3> QED BY <3>1, <3>2, <3>3
  <2>3. g = [n \in 0 .. m + 1 |-> E(n, g[n - 1])]
    BY <2>2
  <2> HIDE DEF g, fix
  <2> QED BY <2>3
<1>5. Deep \in P
  <2> HIDE DEF P
  <2> QED BY <1>3, <1>4, NatInd, JsonAssumption DEF JsonAssumption
<1>6. PICK f : f = [n \in 0 .. Deep |-> E(n, f[n - 1])]
  BY <1>5
<1> QED BY <1>6

(* and the grammar: with a comma more, and without. *)
LaxJson(t)       == Json(t, TRUE)
StrictJson(t)    == Json(t, FALSE)
LaxOver(t, S)    == JsonOver(t, S, TRUE)
StrictOver(t, S) == JsonOver(t, S, FALSE)

(* The recursive function the grammar is, with commas too many, *)
LEMMA LaxJsonIs ==
  ASSUME NEW t
  PROVE  LaxJson(t) = [n \in 0 .. Deep |-> LaxOver(t, IF n = 0 THEN {} ELSE LaxJson(t)[n - 1])]
<1> DEFINE E(n, d) == LaxOver(t, IF n = 0 THEN {} ELSE d)
           fix == CHOOSE f : f = [n \in 0 .. Deep |-> E(n, f[n - 1])]
<1>1. LaxJson(t) = fix
  BY DEF LaxJson, Json, LaxOver
<1>2. ASSUME NEW d, NEW d2 PROVE E(0, d) = E(0, d2)
  OBVIOUS
<1> SUFFICES fix = [n \in 0 .. Deep |-> E(n, fix[n - 1])]
  BY <1>1
<1> HIDE DEF E
<1> DEFINE P == {m \in Nat : \E f : f = [n \in 0 .. m |-> E(n, f[n - 1])]}
<1>3. 0 \in P
  <2> DEFINE f == [n \in 0 .. 0 |-> E(0, 0)]
  <2>1. ASSUME NEW n \in 0 .. 0 PROVE f[n] = E(n, f[n - 1])
    <3>1. n = 0 /\ f[n] = E(0, 0)
      OBVIOUS
    <3> QED BY <3>1, <1>2
  <2>2. f = [n \in 0 .. 0 |-> E(n, f[n - 1])]
    BY <2>1
  <2> QED BY <2>2
<1>4. ASSUME NEW m \in Nat, m \in P PROVE m + 1 \in P
  <2>1. PICK f : f = [n \in 0 .. m |-> E(n, f[n - 1])]
    BY <1>4
  <2> DEFINE g == [n \in 0 .. m + 1 |-> IF n = m + 1 THEN E(n, f[m]) ELSE f[n]]
  <2>2. ASSUME NEW n \in 0 .. m + 1 PROVE g[n] = E(n, g[n - 1])
    <3>1. CASE n = 0
      <4>1. g[n] = f[n] /\ f[n] = E(n, f[n - 1])
        BY <2>1, <3>1
      <4> QED BY <4>1, <1>2, <3>1
    <3>2. CASE n # 0 /\ n # m + 1
      <4>1. n - 1 \in 0 .. m + 1 /\ n - 1 # m + 1 /\ n \in 0 .. m
        BY <3>2
      <4>2. g[n] = f[n] /\ g[n - 1] = f[n - 1]
        BY <4>1, <3>2
      <4>3. f[n] = E(n, f[n - 1])
        BY <2>1, <4>1
      <4> QED BY <4>2, <4>3
    <3>3. CASE n = m + 1
      <4>1. m \in 0 .. m + 1 /\ m # m + 1 /\ n - 1 = m
        BY <3>3
      <4>2. g[n] = E(n, f[m]) /\ g[m] = f[m]
        BY <4>1, <3>3
      <4> QED BY <4>1, <4>2
    <3> QED BY <3>1, <3>2, <3>3
  <2>3. g = [n \in 0 .. m + 1 |-> E(n, g[n - 1])]
    BY <2>2
  <2> HIDE DEF g, fix
  <2> QED BY <2>3
<1>5. Deep \in P
  <2> HIDE DEF P
  <2> QED BY <1>3, <1>4, NatInd, JsonAssumption DEF JsonAssumption
<1>6. PICK f : f = [n \in 0 .. Deep |-> E(n, f[n - 1])]
  BY <1>5
<1> QED BY <1>6


(* and without. *)
LEMMA StrictJsonIs ==
  ASSUME NEW t
  PROVE  StrictJson(t) = [n \in 0 .. Deep |-> StrictOver(t, IF n = 0 THEN {} ELSE StrictJson(t)[n - 1])]
<1> DEFINE E(n, d) == StrictOver(t, IF n = 0 THEN {} ELSE d)
           fix == CHOOSE f : f = [n \in 0 .. Deep |-> E(n, f[n - 1])]
<1>1. StrictJson(t) = fix
  BY DEF StrictJson, Json, StrictOver
<1>2. ASSUME NEW d, NEW d2 PROVE E(0, d) = E(0, d2)
  OBVIOUS
<1> SUFFICES fix = [n \in 0 .. Deep |-> E(n, fix[n - 1])]
  BY <1>1
<1> HIDE DEF E
<1> DEFINE P == {m \in Nat : \E f : f = [n \in 0 .. m |-> E(n, f[n - 1])]}
<1>3. 0 \in P
  <2> DEFINE f == [n \in 0 .. 0 |-> E(0, 0)]
  <2>1. ASSUME NEW n \in 0 .. 0 PROVE f[n] = E(n, f[n - 1])
    <3>1. n = 0 /\ f[n] = E(0, 0)
      OBVIOUS
    <3> QED BY <3>1, <1>2
  <2>2. f = [n \in 0 .. 0 |-> E(n, f[n - 1])]
    BY <2>1
  <2> QED BY <2>2
<1>4. ASSUME NEW m \in Nat, m \in P PROVE m + 1 \in P
  <2>1. PICK f : f = [n \in 0 .. m |-> E(n, f[n - 1])]
    BY <1>4
  <2> DEFINE g == [n \in 0 .. m + 1 |-> IF n = m + 1 THEN E(n, f[m]) ELSE f[n]]
  <2>2. ASSUME NEW n \in 0 .. m + 1 PROVE g[n] = E(n, g[n - 1])
    <3>1. CASE n = 0
      <4>1. g[n] = f[n] /\ f[n] = E(n, f[n - 1])
        BY <2>1, <3>1
      <4> QED BY <4>1, <1>2, <3>1
    <3>2. CASE n # 0 /\ n # m + 1
      <4>1. n - 1 \in 0 .. m + 1 /\ n - 1 # m + 1 /\ n \in 0 .. m
        BY <3>2
      <4>2. g[n] = f[n] /\ g[n - 1] = f[n - 1]
        BY <4>1, <3>2
      <4>3. f[n] = E(n, f[n - 1])
        BY <2>1, <4>1
      <4> QED BY <4>2, <4>3
    <3>3. CASE n = m + 1
      <4>1. m \in 0 .. m + 1 /\ m # m + 1 /\ n - 1 = m
        BY <3>3
      <4>2. g[n] = E(n, f[m]) /\ g[m] = f[m]
        BY <4>1, <3>3
      <4> QED BY <4>1, <4>2
    <3> QED BY <3>1, <3>2, <3>3
  <2>3. g = [n \in 0 .. m + 1 |-> E(n, g[n - 1])]
    BY <2>2
  <2> HIDE DEF g, fix
  <2> QED BY <2>3
<1>5. Deep \in P
  <2> HIDE DEF P
  <2> QED BY <1>3, <1>4, NatInd, JsonAssumption DEF JsonAssumption
<1>6. PICK f : f = [n \in 0 .. Deep |-> E(n, f[n - 1])]
  BY <1>5
<1> QED BY <1>6

-----------------------------------------------------------------------------
(* Places, tokens and white space. *)

(* The tokens of a text. *)
LEMMA Lengths ==
  ASSUME NEW t \in Seq(Token)
  PROVE  Len(t) \in Nat /\ \A k \in 1 .. Len(t) : t[k] \in Token
BY LenProperties, ElementOfSeq

(* A token that has only a kind is told by it. *)
LEMMA Toks == \A s, u : Tok(s)[1] = s /\ (Tok(s) = Tok(u) => s = u)
BY DEF Tok

(* No two of the tokens are the same, *)
LEMMA Differ ==
  /\ BeginArray \notin {EndArray, BeginObject, EndObject, Comma, Colon, White, Null, Eos}
  /\ EndArray \notin {BeginObject, EndObject, Comma, Colon, White, Null, Eos}
  /\ BeginObject \notin {EndObject, Comma, Colon, White, Null, Eos}
  /\ EndObject \notin {Comma, Colon, White, Null, Eos}
  /\ Comma \notin {Colon, White, Null, Eos}
  /\ Colon \notin {White, Null, Eos}
  /\ White \notin {Null, Eos}
  /\ Null \notin {Eos}
BY Toks DEF BeginArray, EndArray, BeginObject, EndObject, Comma, Colon, White, Null, Eos

(* and a token is one of these, or an atom. *)
LEMMA TokenIs ==
  ASSUME NEW x \in Token
  PROVE  /\ x[1] \in Atoms
              \/ x \in {BeginArray, EndArray, BeginObject, EndObject, Comma, Colon, White, Eos}
         /\ x[1] \in Atoms =>
              x \notin {BeginArray, EndArray, BeginObject, EndObject, Comma, Colon, White, Eos}
<1> DEFINE Marks == {BeginArray, EndArray, BeginObject, EndObject, Comma, Colon, White, Eos}
<1>1. \A y \in Marks : y[1] \notin Atoms
  BY Toks DEF Atoms, BeginArray, EndArray, BeginObject, EndObject, Comma, Colon, White, Eos
<1>2. \A y \in {Null, Tok("number"), Tok("true"), Tok("false")} : y[1] \in Atoms
  BY Toks DEF Atoms, Null
<1>3. \A y \in Named({"string"}) : y[1] \in Atoms
  BY DEF Named, Atoms
<1>4. x \in Marks \/ x \in {Null, Tok("number"), Tok("true"), Tok("false")} \/ x \in Named({"string"})
  BY DEF Token
<1> HIDE DEF Marks
<1>5. x[1] \in Atoms => x \notin Marks
  BY <1>1
<1>6. x[1] \in Atoms \/ x \in Marks
  BY <1>2, <1>3, <1>4
<1> QED BY <1>5, <1>6 DEF Marks

(* Behind the last token there is a zero byte, whatever is before. *)
LEMMA AtIs ==
  ASSUME NEW t \in Seq(Token), NEW p \in Places(t)
  PROVE  /\ p \in Nat
         /\ p <= Len(t) => At(t, p) = t[p] /\ At(t, p) \in Token
         /\ p > Len(t) => p = Len(t) + 1 /\ At(t, p) = Eos
         /\ At(t, p) # Eos => p <= Len(t)
<1>1. p \in 1 .. Len(t) + 1 /\ Len(t) \in Nat
  BY Lengths DEF Places
<1>2. CASE p <= Len(t)
  <2>1. ~(p > Len(t)) /\ p \in 1 .. Len(t)
    BY <1>1, <1>2
  <2> QED BY <2>1, <1>1, <1>2, Lengths DEF At
<1>3. CASE p > Len(t)
  <2>1. ~(p <= Len(t)) /\ p = Len(t) + 1
    BY <1>1, <1>3
  <2> QED BY <2>1, <1>3, <1>1 DEF At
<1> QED BY <1>1, <1>2, <1>3

(* skipwhite() stops at the first token that is no white space. *)
LEMMA SkipIs ==
  ASSUME NEW t \in Seq(Token), NEW p \in Places(t)
  PROVE  /\ skipwhite(t, p) \in p .. Len(t) + 1 /\ skipwhite(t, p) \in Places(t)
         /\ Blank(t, p, skipwhite(t, p)) /\ At(t, skipwhite(t, p)) # White
<1> DEFINE T == {q \in p .. Len(t) + 1 : At(t, q) # White}
<1>1. p \in Nat /\ Len(t) \in Nat /\ p <= Len(t) + 1 /\ 1 <= p
  BY Lengths DEF Places
<1>2. Len(t) + 1 \in T
  <2>1. At(t, Len(t) + 1) = Eos
    BY <1>1 DEF At
  <2>2. Eos # White
    BY Differ
  <2> QED BY <1>1, <2>1, <2>2
<1>3. T \subseteq Nat
  BY <1>1
<1>4. PICK q \in T : \A m \in T : q <= m
  <2> HIDE DEF T
  <2> QED BY <1>2, <1>3, Least
<1>5. Blank(t, p, q)
  <2> SUFFICES ASSUME NEW k \in p .. q - 1 PROVE t[k] = White
    BY DEF Blank
  <2>1. k \in p .. Len(t) + 1 /\ k < q /\ k <= Len(t)
    BY <1>1, <1>3
  <2>2. k \notin T
    BY <1>3, <1>4, <2>1
  <2> QED BY <1>1, <2>1, <2>2 DEF At
<1>6. \E r \in p .. Len(t) + 1 : Blank(t, p, r) /\ At(t, r) # White
  BY <1>4, <1>5
<1>7. skipwhite(t, p) \in p .. Len(t) + 1 /\ Blank(t, p, skipwhite(t, p)) /\ At(t, skipwhite(t, p)) # White
  BY <1>6 DEF skipwhite
<1> QED BY <1>1, <1>7 DEF Places

(* skipwhite() stops at the first token that is not white. *)
LEMMA SkipTo ==
  ASSUME NEW t \in Seq(Token), NEW p \in Places(t), NEW q \in p .. Len(t) + 1,
         Blank(t, p, q), At(t, q) # White
  PROVE  skipwhite(t, p) = q
<1>1. p \in Nat /\ Len(t) \in Nat /\ 1 <= p
  BY Lengths DEF Places
<1>2. PICK r \in p .. Len(t) + 1 : r = skipwhite(t, p) /\ Blank(t, p, r) /\ At(t, r) # White
  BY SkipIs
<1>3. ~(r < q)
  BY <1>1, <1>2 DEF Blank, At
<1>4. ~(q < r)
  BY <1>1, <1>2 DEF Blank, At
<1> QED BY <1>1, <1>2, <1>3, <1>4

(* From anywhere in the white space it stops at the same place. *)
LEMMA SkipFrom ==
  ASSUME NEW t \in Seq(Token), NEW p \in Places(t), NEW i \in p .. skipwhite(t, p)
  PROVE  i \in Places(t) /\ skipwhite(t, i) = skipwhite(t, p)
<1>1. p \in Nat /\ Len(t) \in Nat /\ 1 <= p
  BY Lengths DEF Places
<1>2. PICK q \in p .. Len(t) + 1 : q = skipwhite(t, p) /\ Blank(t, p, q) /\ At(t, q) # White
  BY SkipIs
<1>3. i \in Places(t) /\ q \in i .. Len(t) + 1 /\ Blank(t, i, q)
  BY <1>1, <1>2 DEF Places, Blank
<1> QED BY <1>2, <1>3, SkipTo

-----------------------------------------------------------------------------
(* The grammar: stretches that begin with what a value may begin with, and *)
(* lists of them.                                                          *)

Stretches(t, S) ==
  \A k, l : <<k, l>> \in S =>
    /\ k \in 1 .. Len(t) /\ l \in k + 1 .. Len(t) + 1
    /\ t[k][1] \in Atoms \/ t[k] \in {BeginArray, BeginObject}

(* No white space, comma or closing bracket. *)
LEMMA StretchBegins ==
  ASSUME NEW t \in Seq(Token), NEW S, Stretches(t, S), NEW k, NEW l, <<k, l>> \in S
  PROVE  /\ k \in 1 .. Len(t) /\ l \in k + 1 .. Len(t) + 1 /\ k \in Places(t) /\ l \in Places(t)
         /\ At(t, k) = t[k] /\ t[k] \notin {White, Comma, EndArray, EndObject}
         /\ skipwhite(t, k) = k
<1>1. k \in 1 .. Len(t) /\ l \in k + 1 .. Len(t) + 1 /\ Len(t) \in Nat
  BY Lengths DEF Stretches
<1>2. k \in Places(t) /\ l \in Places(t) /\ k <= Len(t) /\ k \in k .. Len(t) + 1
  BY <1>1 DEF Places
<1>3. At(t, k) = t[k] /\ t[k] \in Token
  BY <1>2, AtIs
<1>4. t[k] \notin {White, Comma, EndArray, EndObject}
  <2>1. CASE t[k][1] \in Atoms
    BY <1>3, <2>1, TokenIs
  <2>2. CASE t[k] \in {BeginArray, BeginObject}
    BY <2>2, Differ
  <2> QED BY <2>1, <2>2 DEF Stretches
<1>5. Blank(t, k, k)
  BY <1>1 DEF Blank
<1>6. skipwhite(t, k) = k
  BY <1>2, <1>3, <1>4, <1>5, SkipTo
<1> QED BY <1>1, <1>2, <1>3, <1>4, <1>6

(* One value is a list, *)
LEMMA ListedOne ==
  ASSUME NEW t, NEW S, NEW p \in Nat, NEW q \in Nat, p <= q, Spaced(t, p, q, S)
  PROVE  Listed(t, p, q, S)
<1> DEFINE C == {}
<1>1. C \in SUBSET {k \in p .. q - 1 : t[k] = Comma}
  OBVIOUS
<1>2. ASSUME NEW a \in C \cup {p - 1}, NEW b \in C \cup {q},
             a < b /\ \A k \in C : k <= a \/ b <= k
      PROVE  Spaced(t, a + 1, b, S)
  <2>1. a + 1 = p /\ b = q
    OBVIOUS
  <2> QED BY <2>1
<1> HIDE DEF C
<1> QED BY <1>1, <1>2 DEF Listed

(* and a list, a comma and one value more are. *)
LEMMA ListedMore ==
  ASSUME NEW t, NEW S, NEW p \in Nat, NEW m \in Nat, NEW q \in Nat, p <= m, m < q,
         Listed(t, p, m, S), t[m] = Comma, Spaced(t, m + 1, q, S)
  PROVE  Listed(t, p, q, S)
<1>1. PICK C \in SUBSET {k \in p .. m - 1 : t[k] = Comma} :
        \A a \in C \cup {p - 1}, b \in C \cup {m} :
          a < b /\ (\A k \in C : k <= a \/ b <= k) => Spaced(t, a + 1, b, S)
  BY DEF Listed
<1> DEFINE D == C \cup {m}
<1>2. \A k \in C : k \in Nat /\ p <= k /\ k < m /\ t[k] = Comma
  OBVIOUS
<1>3. D \in SUBSET {k \in p .. q - 1 : t[k] = Comma}
  <2>1. \A k \in D : k \in p .. q - 1 /\ t[k] = Comma
    BY <1>2
  <2> HIDE DEF D
  <2> QED BY <2>1
<1>4. ASSUME NEW a \in D \cup {p - 1}, NEW b \in D \cup {q},
             a < b /\ \A k \in D : k <= a \/ b <= k
      PROVE  Spaced(t, a + 1, b, S)
  <2>1. m \in D /\ a \in Int /\ (a \in C \cup {p - 1} \/ a = m) /\ a <= m
    BY <1>2
  <2>2. CASE b = q
    <3>1. m <= a
      BY <1>4, <2>1, <2>2
    <3>2. a = m
      BY <2>1, <3>1
    <3> QED BY <2>2, <3>2
  <2>3. CASE b \in C \cup {m}
    <3>1. b <= m /\ b \in Int
      BY <1>2, <2>3
    <3>2. a \in C \cup {p - 1}
      BY <1>4, <2>1, <3>1
    <3>3. \A k \in C : k <= a \/ b <= k
      BY <1>4
    <3> QED BY <1>1, <1>4, <2>3, <3>2, <3>3
  <2> QED BY <2>2, <2>3
<1> HIDE DEF D
<1> QED BY <1>3, <1>4 DEF Listed

(* Behind each comma of a list, and at its start, is a value up to the     *)
(* next comma or the end.                                                  *)
LEMMA ListedNext ==
  ASSUME NEW t, NEW S, NEW p \in Nat \ {0}, NEW e \in Nat, p <= e,
         NEW C \in SUBSET {k \in p .. e - 1 : t[k] = Comma},
         \A a \in C \cup {p - 1}, b \in C \cup {e} :
           a < b /\ (\A k \in C : k <= a \/ b <= k) => Spaced(t, a + 1, b, S),
         NEW a \in C \cup {p - 1}
  PROVE  \E b \in C \cup {e} : a < b /\ Spaced(t, a + 1, b, S)
<1>1. \A k \in C : k \in Nat /\ p <= k /\ k < e
  OBVIOUS
<1>2. a \in Nat /\ a < e
  BY <1>1
<1> DEFINE T == {k \in C \cup {e} : a < k}
<1>3. T \subseteq Nat /\ e \in T
  BY <1>1, <1>2
<1>4. PICK b \in T : \A m \in T : b <= m
  <2> HIDE DEF T
  <2> QED BY <1>3, Least
<1>5. \A k \in C : k <= a \/ b <= k
  BY <1>1, <1>2, <1>4
<1> QED BY <1>4, <1>5

-----------------------------------------------------------------------------
(* The loop over the parts of an array or an object reads what may stand   *)
(* between the brackets, and nothing else.  M has the stretches of the     *)
(* parts, and r is what a turn at p comes to.                              *)

TurnOf(t, M, closing, p, r) ==
  /\ At(t, p) = closing => r.is = "done" /\ r.p = p + 1
  /\ At(t, p) # closing =>
       /\ \A l : <<skipwhite(t, p), l>> \in M =>
            /\ At(t, skipwhite(t, l)) = closing => r.is = "done" /\ r.p = skipwhite(t, l) + 1
            /\ At(t, skipwhite(t, l)) = Comma => r.is = "more" /\ r.p = skipwhite(t, l) + 1
       /\ (\A l : <<skipwhite(t, p), l>> \in M => At(t, skipwhite(t, l)) \notin {closing, Comma})
            => r.is = "error"

LoopOf(t, M, closing, p, turn) ==
  /\ turn[0].is = "more" /\ turn[0].p = skipwhite(t, p)
  /\ \A i \in 1 .. Len(t) + 1 :
       /\ turn[i - 1].is # "more" => turn[i] = turn[i - 1]
       /\ (turn[i - 1].is = "more" /\ turn[i - 1].p \in Places(t)) =>
            TurnOf(t, M, closing, turn[i - 1].p, turn[i])

LaxBody(t, i, j, S) == Body(t, i, j, S, TRUE)

(* Where the loop may be: behind a list and a comma. *)
Between(t, M, closing, p, i, s) ==
  /\ s.is \in {"error", "done", "more"}
  /\ s.is = "more" =>
       /\ s.p \in Places(t) /\ s.p >= p + i
       /\ s.p = skipwhite(t, p) \/ (p < s.p /\ t[s.p - 1] = Comma /\ Listed(t, p, s.p - 1, M))
  /\ s.is = "done" =>
       /\ s.p \in Places(t) /\ p < s.p /\ t[s.p - 1] = closing
       /\ LaxBody(t, p, s.p - 1, M)

(* A stretch of S with white space around it is Spaced. *)
LEMMA SpacedBy ==
  ASSUME NEW t, NEW S, NEW p \in Nat, NEW q \in Nat, NEW k \in Nat, NEW l \in Nat,
         p <= k, k < l, l <= q, Blank(t, p, k), <<k, l>> \in S, Blank(t, l, q)
  PROVE  Spaced(t, p, q, S)
<1>1. k \in p .. q /\ l \in p .. q
  OBVIOUS
<1> QED BY <1>1 DEF Spaced

(* A turn that finds the bracket leaves a body behind, *)
LEMMA BetweenDone ==
  ASSUME NEW t, NEW M, NEW closing, NEW p, NEW i, NEW r, NEW q \in Nat,
         r.is = "done", r.p = q + 1, q + 1 \in Places(t), p < q + 1, t[q] = closing, LaxBody(t, p, q, M)
  PROVE  Between(t, M, closing, p, i, r)
<1>1. r.p - 1 = q
  OBVIOUS
<1>2. t[r.p - 1] = closing /\ LaxBody(t, p, r.p - 1, M)
  BY <1>1
<1> QED BY <1>2 DEF Between

(* one that finds a comma a list, *)
LEMMA BetweenMore ==
  ASSUME NEW t, NEW M, NEW closing, NEW p, NEW i, NEW r, NEW q \in Nat,
         r.is = "more", r.p = q + 1, q + 1 \in Places(t), p < q + 1, q + 1 >= p + i,
         t[q] = Comma, Listed(t, p, q, M)
  PROVE  Between(t, M, closing, p, i, r)
<1>1. r.p - 1 = q
  OBVIOUS
<1>2. t[r.p - 1] = Comma /\ Listed(t, p, r.p - 1, M)
  BY <1>1
<1> QED BY <1>2 DEF Between

(* and so does every turn. *)
LEMMA TurnBetween ==
  ASSUME NEW t \in Seq(Token), NEW M, Stretches(t, M), NEW closing \in {EndArray, EndObject},
         NEW p \in Places(t), NEW i \in Nat, NEW s, NEW r,
         Between(t, M, closing, p, i, s),
         s.is = "more" => TurnOf(t, M, closing, s.p, r),
         s.is # "more" => r = s
  PROVE  Between(t, M, closing, p, i + 1, r)
<1>1. CASE s.is # "more"
  <2>1. r = s /\ s.is \in {"error", "done"}
    BY <1>1 DEF Between
  <2> QED BY <2>1 DEF Between
<1>2. CASE s.is = "more"
  <2>1. PICK x \in Nat : x = s.p /\ x \in Places(t) /\ x >= p + i
    BY <1>2, AtIs DEF Between
  <2>2. p \in Nat /\ 1 <= p /\ p <= x /\ x <= Len(t) + 1 /\ Len(t) \in Nat
    BY <2>1, Lengths DEF Places
  <2>3. PICK k \in x .. Len(t) + 1 : k = skipwhite(t, x) /\ Blank(t, x, k) /\ k \in Places(t)
    BY <2>1, SkipIs
  <2>4. TurnOf(t, M, closing, x, r)
    BY <1>2, <2>1
  <2>5. x = skipwhite(t, p) \/ (p < x /\ t[x - 1] = Comma /\ Listed(t, p, x - 1, M))
    BY <1>2, <2>1 DEF Between
  <2>6. closing # Comma /\ closing # White /\ closing # Eos /\ Comma # Eos
    BY Differ
  <2>7. CASE At(t, x) = closing
    <3>1. r.is = "done" /\ r.p = x + 1
      BY <2>4, <2>7 DEF TurnOf
    <3>2. x <= Len(t) /\ t[x] = closing
      BY <2>1, <2>6, <2>7, AtIs
    <3>3. x + 1 \in Places(t) /\ p < x + 1 /\ x + 1 - 1 = x
      BY <2>2, <3>2 DEF Places
    <3>4. CASE x = skipwhite(t, p)
      <4>1. Blank(t, p, x)
        BY <3>4, SkipIs
      <4>2. LaxBody(t, p, x, M)
        BY <4>1 DEF LaxBody, Body
      <4> QED BY <3>1, <3>2, <3>3, <4>2, BetweenDone
    <3>5. CASE p < x /\ t[x - 1] = Comma /\ Listed(t, p, x - 1, M)
      <4>1. LaxBody(t, p, x, M)
        BY <3>5 DEF LaxBody, Body
      <4> QED BY <3>1, <3>2, <3>3, <4>1, BetweenDone
    <3> QED BY <2>5, <3>4, <3>5
  <2>8. ASSUME At(t, x) # closing, NEW l, <<k, l>> \in M, NEW q, q = skipwhite(t, l),
               At(t, q) \in {closing, Comma}
        PROVE  Between(t, M, closing, p, i + 1, r)
    <3>1. l \in Places(t) /\ l \in k + 1 .. Len(t) + 1
      BY <2>8, StretchBegins
    <3>2. q \in l .. Len(t) + 1 /\ Blank(t, l, q) /\ q \in Places(t)
      BY <2>8, <3>1, SkipIs
    <3>3. q <= Len(t) /\ t[q] = At(t, q)
      BY <2>6, <2>8, <3>2, AtIs
    <3>4. q \in Nat /\ k \in Nat /\ l \in Nat /\ x <= k /\ k < l /\ l <= q
      BY <2>2, <3>1, <3>2
    <3>5. Spaced(t, x, q, M)
        BY <2>3, <2>8, <3>2, <3>4, SpacedBy
    <3>6. Listed(t, p, q, M)
      <4>1. CASE x = skipwhite(t, p)
        <5>1. Blank(t, p, x) /\ skipwhite(t, p) \in p .. skipwhite(t, p)
          BY <4>1, SkipIs, <2>2
        <5>2. skipwhite(t, x) = skipwhite(t, p)
          BY <4>1, <5>1, SkipFrom
        <5>3. k = x
          BY <2>3, <4>1, <5>2
        <5>4. Spaced(t, p, q, M)
          BY <2>2, <2>8, <3>2, <3>4, <5>1, <5>3, SpacedBy
        <5> QED BY <2>2, <3>4, <5>4, ListedOne
      <4>2. CASE p < x /\ t[x - 1] = Comma /\ Listed(t, p, x - 1, M)
        <5>1. x - 1 \in Nat /\ p <= x - 1 /\ x - 1 < q /\ x - 1 + 1 = x
          BY <2>2, <3>4, <4>2
        <5>2. Spaced(t, x - 1 + 1, q, M)
          BY <3>5, <5>1
        <5> QED BY <2>2, <3>4, <4>2, <5>1, <5>2, ListedMore
      <4> QED BY <2>5, <4>1, <4>2
    <3>7. q + 1 \in Places(t) /\ p < q + 1 /\ q + 1 >= p + (i + 1) /\ q + 1 - 1 = q
      BY <2>1, <2>2, <3>3, <3>4 DEF Places
    <3>8. CASE At(t, q) = closing
      <4>1. r.is = "done" /\ r.p = q + 1
        BY <2>3, <2>4, <2>8, <3>8 DEF TurnOf
      <4>2. LaxBody(t, p, q, M)
        BY <3>6 DEF LaxBody, Body
      <4> QED BY <3>3, <3>4, <3>7, <3>8, <4>1, <4>2, BetweenDone
    <3>9. CASE At(t, q) = Comma
      <4>1. r.is = "more" /\ r.p = q + 1
        BY <2>3, <2>4, <2>8, <3>9 DEF TurnOf
      <4> QED BY <3>3, <3>4, <3>6, <3>7, <3>9, <4>1, BetweenMore
    <3> QED BY <2>8, <3>8, <3>9
  <2>9. CASE At(t, x) # closing /\ \A l : <<k, l>> \in M => At(t, skipwhite(t, l)) \notin {closing, Comma}
    <3>1. r.is = "error"
      BY <2>3, <2>4, <2>9 DEF TurnOf
    <3> QED BY <3>1 DEF Between
  <2> QED BY <2>7, <2>8, <2>9
<1> QED BY <1>1, <1>2

(* So what it gives may stand between brackets, *)
LEMMA LoopGives ==
  ASSUME NEW t \in Seq(Token), NEW M, Stretches(t, M), NEW closing \in {EndArray, EndObject},
         NEW p \in Places(t), NEW turn, LoopOf(t, M, closing, p, turn)
  PROVE  /\ turn[Len(t) + 1].is \in {"error", "done"}
         /\ Between(t, M, closing, p, Len(t) + 1, turn[Len(t) + 1])
<1>1. Len(t) \in Nat /\ p \in Nat /\ 1 <= p
  BY Lengths DEF Places
<1> DEFINE P == {i \in Nat : i <= Len(t) + 1 => Between(t, M, closing, p, i, turn[i])}
<1>2. 0 \in P
  <2>1. turn[0].is = "more" /\ turn[0].p = skipwhite(t, p)
    BY DEF LoopOf
  <2>2. skipwhite(t, p) \in Places(t) /\ skipwhite(t, p) >= p + 0
    BY <1>1, SkipIs
  <2> QED BY <2>1, <2>2 DEF Between
<1>3. ASSUME NEW i \in Nat, i \in P PROVE i + 1 \in P
  <2> SUFFICES ASSUME i + 1 <= Len(t) + 1 PROVE Between(t, M, closing, p, i + 1, turn[i + 1])
    OBVIOUS
  <2>1. Between(t, M, closing, p, i, turn[i])
    BY <1>1, <1>3
  <2>2. i + 1 \in 1 .. Len(t) + 1 /\ i + 1 - 1 = i
    BY <1>1
  <2>3. turn[i].is # "more" => turn[i + 1] = turn[i]
    BY <2>2 DEF LoopOf
  <2>4. turn[i].is = "more" => TurnOf(t, M, closing, turn[i].p, turn[i + 1])
    <3>1. turn[i].is = "more" => turn[i].p \in Places(t)
      BY <2>1 DEF Between
    <3> QED BY <2>2, <3>1 DEF LoopOf
  <2> QED BY <2>1, <2>3, <2>4, TurnBetween
<1>4. Between(t, M, closing, p, Len(t) + 1, turn[Len(t) + 1])
  <2>1. Len(t) + 1 \in Nat
    BY <1>1
  <2> HIDE DEF P
  <2>2. Len(t) + 1 \in P
    BY <1>2, <1>3, <2>1, NatInd
  <2> QED BY <1>1, <2>2 DEF P
<1>5. turn[Len(t) + 1].is # "more"
  <2> SUFFICES ASSUME turn[Len(t) + 1].is = "more" PROVE FALSE
    OBVIOUS
  <2>1. PICK x \in Nat : x \in Places(t) /\ x >= p + (Len(t) + 1)
    BY <1>4, AtIs DEF Between
  <2> QED BY <1>1, <2>1 DEF Places
<1> QED BY <1>4, <1>5 DEF Between

(* and it reads all that may: from each place of some, the first one among *)
(* them, a turn comes to another of them or to the end at b.               *)
Keeps(t, M, closing, X, b) ==
  \A x \in X : \A r : TurnOf(t, M, closing, x, r) =>
    (r.is = "done" /\ r.p = b) \/ (r.is = "more" /\ r.p \in X)

(* A loop that comes to some place of X whenever it was at one before ends *)
(* at b.                                                                   *)
LEMMA LoopWithin ==
  ASSUME NEW t \in Seq(Token), NEW M, Stretches(t, M), NEW closing \in {EndArray, EndObject},
         NEW p \in Places(t), NEW turn, LoopOf(t, M, closing, p, turn),
         NEW b, NEW X, X \subseteq Places(t), skipwhite(t, p) \in X,
         Keeps(t, M, closing, X, b)
  PROVE  turn[Len(t) + 1].is = "done" /\ turn[Len(t) + 1].p = b
<1>1. Len(t) \in Nat
  BY Lengths
<1> DEFINE P == {i \in Nat : i <= Len(t) + 1 =>
                   (turn[i].is = "done" /\ turn[i].p = b) \/ (turn[i].is = "more" /\ turn[i].p \in X)}
<1>2. 0 \in P
  BY DEF LoopOf
<1>3. ASSUME NEW i \in Nat, i \in P PROVE i + 1 \in P
  <2> SUFFICES ASSUME i + 1 <= Len(t) + 1
               PROVE  \/ turn[i + 1].is = "done" /\ turn[i + 1].p = b
                      \/ turn[i + 1].is = "more" /\ turn[i + 1].p \in X
    OBVIOUS
  <2>1. (turn[i].is = "done" /\ turn[i].p = b) \/ (turn[i].is = "more" /\ turn[i].p \in X)
    BY <1>1, <1>3
  <2>2. i + 1 \in 1 .. Len(t) + 1 /\ i + 1 - 1 = i
    BY <1>1
  <2>3. CASE turn[i].is = "done" /\ turn[i].p = b
    <3>1. turn[i + 1] = turn[i]
      BY <2>2, <2>3 DEF LoopOf
    <3> QED BY <2>3, <3>1
  <2>4. CASE turn[i].is = "more" /\ turn[i].p \in X
    <3>1. TurnOf(t, M, closing, turn[i].p, turn[i + 1])
      BY <2>2, <2>4 DEF LoopOf
    <3> QED BY <2>4, <3>1 DEF Keeps
  <2> QED BY <2>1, <2>3, <2>4
<1>4. \/ turn[Len(t) + 1].is = "done" /\ turn[Len(t) + 1].p = b
      \/ turn[Len(t) + 1].is = "more" /\ turn[Len(t) + 1].p \in X
  <2>1. Len(t) + 1 \in Nat
    BY <1>1
  <2> HIDE DEF P
  <2>2. Len(t) + 1 \in P
    BY <1>2, <1>3, <2>1, NatInd
  <2> QED BY <1>1, <2>2 DEF P
<1>5. turn[Len(t) + 1].is # "more"
  BY LoopGives
<1> QED BY <1>4, <1>5

(* The loop comes to the end of every body there is. *)
LEMMA LoopReads ==
  ASSUME NEW t \in Seq(Token), NEW M, Stretches(t, M), NEW closing \in {EndArray, EndObject},
         NEW p \in Places(t), NEW turn, LoopOf(t, M, closing, p, turn),
         NEW b \in 1 .. Len(t), p <= b, t[b] = closing, LaxBody(t, p, b, M)
  PROVE  turn[Len(t) + 1].is = "done" /\ turn[Len(t) + 1].p = b + 1
<1>1. Len(t) \in Nat /\ p \in Nat /\ 1 <= p /\ b \in Nat /\ b \in Places(t)
  BY Lengths DEF Places
<1>2. At(t, b) = closing
  BY <1>1 DEF At
<1>3. closing # Comma /\ closing # White /\ Comma # White
  BY Differ
<1>4. ASSUME NEW r, TurnOf(t, M, closing, b, r) PROVE r.is = "done" /\ r.p = b + 1
  BY <1>2, <1>4 DEF TurnOf
<1>5. CASE Blank(t, p, b)
  <2> DEFINE X == {b}
  <2>1. skipwhite(t, p) = b
    BY <1>1, <1>2, <1>3, <1>5, SkipTo
  <2>2. X \subseteq Places(t) /\ skipwhite(t, p) \in X
    BY <1>1, <2>1
  <2>3. ASSUME NEW x \in X, NEW r, TurnOf(t, M, closing, x, r)
        PROVE  (r.is = "done" /\ r.p = b + 1) \/ (r.is = "more" /\ r.p \in X)
    BY <1>4, <2>3
  <2> HIDE DEF X
  <2>4. Keeps(t, M, closing, X, b + 1)
    BY <2>3 DEF Keeps
  <2> QED BY <2>2, <2>4, LoopWithin
<1>6. ASSUME NEW e \in Nat, p <= e, Listed(t, p, e, M),
             e = b \/ (e = b - 1 /\ t[e] = Comma)
      PROVE  turn[Len(t) + 1].is = "done" /\ turn[Len(t) + 1].p = b + 1
  <2>1. PICK C \in SUBSET {k \in p .. e - 1 : t[k] = Comma} :
          \A a \in C \cup {p - 1}, f \in C \cup {e} :
            a < f /\ (\A k \in C : k <= a \/ f <= k) => Spaced(t, a + 1, f, M)
    BY <1>6 DEF Listed
  <2>2. \A k \in C : k \in Nat /\ p <= k /\ k < e /\ t[k] = Comma
    BY <1>1, <1>6
  <2> DEFINE X == {x \in Places(t) :
                     \/ x = b /\ e = b - 1
                     \/ x = skipwhite(t, p)
                     \/ x - 1 \in C}
  <2>3. X \subseteq Places(t) /\ skipwhite(t, p) \in X
    BY SkipIs
  <2>4. ASSUME NEW a \in C \cup {p - 1}, NEW x \in Places(t), x = a + 1 \/ (a = p - 1 /\ x = skipwhite(t, p)),
               NEW r, TurnOf(t, M, closing, x, r)
        PROVE  (r.is = "done" /\ r.p = b + 1) \/ (r.is = "more" /\ r.p \in X)
    <3>1. PICK f \in C \cup {e} : a < f /\ Spaced(t, a + 1, f, M)
      <4>1. p \in Nat \ {0}
        BY <1>1
      <4> QED BY <1>6, <2>1, <4>1, ListedNext
    <3>2. a \in Nat /\ f \in Nat /\ f <= e /\ e <= b /\ p <= a + 1 /\ e <= Len(t)
      BY <1>1, <1>6, <2>2
    <3>3. PICK k \in a + 1 .. f, l \in a + 1 .. f : Blank(t, a + 1, k) /\ <<k, l>> \in M /\ Blank(t, l, f)
      BY <3>1 DEF Spaced
    <3>4. /\ k \in Places(t) /\ l \in Places(t) /\ At(t, k) = t[k] /\ skipwhite(t, k) = k
          /\ t[k] \notin {White, Comma, EndArray, EndObject}
      BY <3>3, StretchBegins, SMTT(60)
    <3>5. a + 1 \in Places(t) /\ f \in Places(t) /\ f \in l .. Len(t) + 1 /\ k \in a + 1 .. Len(t) + 1
      BY <3>2, <3>3, <3>4, <1>1, SMTT(60) DEF Places
    <3>6. skipwhite(t, a + 1) = k
      BY <3>3, <3>4, <3>5, SkipTo
    <3>7. skipwhite(t, x) = k /\ At(t, x) # closing
      <4>1. CASE x = a + 1
        <5>1. CASE k = a + 1
          BY <3>4, <4>1, <5>1
        <5>2. CASE k # a + 1
          <6>1. a + 1 \in a + 1 .. k - 1 /\ a + 1 <= Len(t)
            BY <3>2, <3>3, <5>2
          <6>2. t[a + 1] = White
            BY <3>3, <6>1 DEF Blank
          <6>3. At(t, x) = White
            BY <1>1, <3>2, <4>1, <6>1, <6>2 DEF At
          <6> QED BY <1>3, <3>6, <4>1, <6>3
        <5> QED BY <5>1, <5>2
      <4>2. CASE a = p - 1 /\ x = skipwhite(t, p)
        <5>1. x = k
          BY <1>1, <3>6, <4>2
        <5> QED BY <3>4, <5>1
      <4> QED BY <2>4, <4>1, <4>2
    <3>8. f \in 1 .. Len(t) /\ At(t, f) = t[f]
      BY <1>1, <3>2, <3>3 DEF At
    <3>9. CASE f \in C \/ (f = e /\ e = b - 1)
      <4>1. t[f] = Comma
        BY <1>1, <1>6, <2>2, <3>9
      <4>2. skipwhite(t, l) = f
        BY <1>3, <3>3, <3>4, <3>5, <3>8, <4>1, SkipTo
      <4>3. r.is = "more" /\ r.p = f + 1
        BY <2>4, <3>3, <3>7, <3>8, <4>1, <4>2 DEF TurnOf
      <4>4. f + 1 \in Places(t) /\ f + 1 - 1 = f
        BY <3>8, <1>1 DEF Places
      <4>5. f + 1 \in X
        BY <1>1, <3>9, <4>4
      <4> HIDE DEF X
      <4> QED BY <4>3, <4>5
    <3>10. CASE f = e /\ e = b
      <4>1. skipwhite(t, l) = f
        BY <1>2, <1>3, <3>3, <3>4, <3>5, <3>10, SkipTo
      <4> QED BY <1>2, <2>4, <3>3, <3>7, <3>10, <4>1 DEF TurnOf
    <3> QED BY <1>6, <3>1, <3>9, <3>10
  <2>5. ASSUME NEW x \in X, NEW r, TurnOf(t, M, closing, x, r)
        PROVE  (r.is = "done" /\ r.p = b + 1) \/ (r.is = "more" /\ r.p \in X)
    <3>1. CASE x = b /\ e = b - 1
      BY <1>4, <2>5, <3>1
    <3>2. CASE x = skipwhite(t, p)
      BY <2>4, <2>5, <3>2
    <3>3. CASE x - 1 \in C
      <4>1. x - 1 + 1 = x
        BY <1>1 DEF Places
      <4> HIDE DEF X
      <4>2. x \in Places(t)
        BY <2>3
      <4> QED BY <2>4, <2>5, <3>3, <4>1, <4>2
    <3> QED BY <3>1, <3>2, <3>3
  <2> HIDE DEF X
  <2>6. Keeps(t, M, closing, X, b + 1)
    BY <2>5 DEF Keeps
  <2> QED BY <2>3, <2>6, LoopWithin
<1>7. CASE Listed(t, p, b, M)
  BY <1>1, <1>6, <1>7
<1>8. CASE p < b /\ t[b - 1] = Comma /\ Listed(t, p, b - 1, M)
  <2>1. b - 1 \in Nat /\ p <= b - 1
    BY <1>1, <1>8
  <2> QED BY <1>6, <1>8, <2>1
<1> QED BY <1>5, <1>7, <1>8 DEF LaxBody, Body

-----------------------------------------------------------------------------
(* What decode_one() gives at a place a level deeper: one of the stretches *)
(* of S, and there is one at most.                                         *)

Reads(t, deeper, S) ==
  \A p \in Places(t) :
    /\ deeper[p].is \in {"error", "done"}
    /\ \A j : deeper[p].is = "done" /\ deeper[p].p = j <=> <<skipwhite(t, p), j>> \in S

HasAtoms(t, S) ==
  \A k, l : <<k, l>> \in S => \A i \in 1 .. Len(t) : t[i][1] \in Atoms => <<i, i + 1>> \in S

(* A turn over an array reads an item. *)
LEMMA ItemTurn ==
  ASSUME NEW t \in Seq(Token), NEW S, NEW deeper, Reads(t, deeper, S),
         NEW s, s.p \in Places(t)
  PROVE  TurnOf(t, S, EndArray, s.p, decode_item(deeper, t, s))
<1> DEFINE r == decode_item(deeper, t, s)
           x == deeper[s.p]
           q == skipwhite(t, x.p)
           out == <<"array", Append(s.out[2], x.out)>>
<1>1. At(t, s.p) = EndArray => r = gives(s.p + 1, s.out)
  BY DEF decode_item
<1>2. At(t, s.p) # EndArray =>
        r = IF x.is = "error" THEN fails
            ELSE IF At(t, q) = EndArray THEN gives(q + 1, out)
            ELSE IF At(t, q) = Comma THEN more(q + 1, out)
            ELSE fails
  BY DEF decode_item
<1> SUFFICES TurnOf(t, S, EndArray, s.p, r)
  OBVIOUS
<1> HIDE DEF r, out
<1>3. EndArray # Comma
  BY Differ
<1>4. x.is \in {"error", "done"} /\ \A j : x.is = "done" /\ x.p = j <=> <<skipwhite(t, s.p), j>> \in S
  BY DEF Reads
<1>5. CASE At(t, s.p) = EndArray
  BY <1>1, <1>5 DEF TurnOf, gives
<1>6. ASSUME At(t, s.p) # EndArray, NEW l, <<skipwhite(t, s.p), l>> \in S
      PROVE  /\ At(t, skipwhite(t, l)) = EndArray => r.is = "done" /\ r.p = skipwhite(t, l) + 1
             /\ At(t, skipwhite(t, l)) = Comma => r.is = "more" /\ r.p = skipwhite(t, l) + 1
  <2>1. x.is = "done" /\ x.p = l
    BY <1>4, <1>6
  <2>2. q = skipwhite(t, l)
    BY <2>1
  <2>3. r = IF At(t, q) = EndArray THEN gives(q + 1, out)
            ELSE IF At(t, q) = Comma THEN more(q + 1, out)
            ELSE fails
    BY <1>2, <1>6, <2>1
  <2> HIDE DEF x, q
  <2> QED BY <1>3, <2>2, <2>3 DEF gives, more
<1>7. ASSUME At(t, s.p) # EndArray,
             \A l : <<skipwhite(t, s.p), l>> \in S => At(t, skipwhite(t, l)) \notin {EndArray, Comma}
      PROVE  r.is = "error"
  <2>1. CASE x.is = "error"
    BY <1>2, <1>7, <2>1 DEF fails
  <2>2. CASE x.is = "done"
    <3>1. <<skipwhite(t, s.p), x.p>> \in S
      BY <1>4, <2>2
    <3>2. At(t, q) \notin {EndArray, Comma}
      BY <1>7, <3>1
    <3> HIDE DEF x, q
    <3> QED BY <1>2, <1>7, <2>2, <3>2 DEF fails
  <2> QED BY <1>4, <2>1, <2>2
<1> HIDE DEF x, q
<1> QED BY <1>5, <1>6, <1>7 DEF TurnOf

(* The members that the grammar has, by their parts. *)
LEMMA MembersAre ==
  ASSUME NEW t, NEW S, NEW k, NEW l
  PROVE  <<k, l>> \in Members(t, S) <=>
           /\ k \in Places(t) /\ l \in Places(t)
           /\ \E m \in k + 1 .. l - 1 : \E v \in m + 1 .. l :
                /\ t[k][1] = "string" /\ Blank(t, k + 1, m) /\ t[m] = Colon
                /\ Blank(t, m + 1, v) /\ <<v, l>> \in S
BY DEF Members

(* A member begins with a token that is neither white, a comma nor a       *)
(* bracket that closes.                                                    *)
LEMMA MembersStretch ==
  ASSUME NEW t \in Seq(Token), NEW S
  PROVE  Stretches(t, Members(t, S))
<1> SUFFICES ASSUME NEW k, NEW l, <<k, l>> \in Members(t, S)
             PROVE  k \in 1 .. Len(t) /\ l \in k + 1 .. Len(t) + 1 /\ t[k][1] \in Atoms
  BY DEF Stretches
<1>1. /\ k \in Places(t) /\ l \in Places(t)
      /\ \E m \in k + 1 .. l - 1 : \E v \in m + 1 .. l :
           /\ t[k][1] = "string" /\ Blank(t, k + 1, m) /\ t[m] = Colon
           /\ Blank(t, m + 1, v) /\ <<v, l>> \in S
  BY MembersAre
<1>2. PICK m \in k + 1 .. l - 1 : t[k][1] = "string"
  BY <1>1
<1>3. k \in Nat /\ l \in Nat /\ 1 <= k /\ l <= Len(t) + 1 /\ k < l /\ Len(t) \in Nat
  BY <1>1, <1>2, Lengths DEF Places
<1> QED BY <1>2, <1>3 DEF Atoms

(* A turn over an object reads a member. *)
LEMMA MemberTurn ==
  ASSUME NEW t \in Seq(Token), NEW S, Stretches(t, S), NEW deeper, Reads(t, deeper, S), HasAtoms(t, S),
         NEW s, s.p \in Places(t)
  PROVE  TurnOf(t, Members(t, S), EndObject, s.p, decode_member(deeper, t, s))
<1> DEFINE r     == decode_member(deeper, t, s)
           name  == skipwhite(t, s.p)
           key   == deeper[name]
           colon == skipwhite(t, key.p)
           x     == deeper[colon + 1]
           q     == skipwhite(t, x.p)
           out   == <<"table", janet_table_put(s.out[2], keyed(key.out), x.out)>>
           M     == Members(t, S)
<1>1. At(t, s.p) = EndObject => r = gives(s.p + 1, s.out)
  BY DEF decode_member
<1>2. At(t, s.p) # EndObject =>
        r = IF At(t, name)[1] # "string" \/ key.is = "error" THEN fails
            ELSE IF At(t, colon) # Colon \/ x.is = "error" THEN fails
            ELSE IF At(t, q) = EndObject THEN gives(q + 1, out)
            ELSE IF At(t, q) = Comma THEN more(q + 1, out)
            ELSE fails
  BY DEF decode_member
<1> SUFFICES TurnOf(t, M, EndObject, s.p, r)
  OBVIOUS
<1> HIDE DEF r, out
<1>3. EndObject # Comma /\ Colon # White /\ Colon # Eos
  BY Differ
<1>4. name \in Places(t) /\ Len(t) \in Nat /\ name \in Nat /\ At(t, name) # White
  BY SkipIs, Lengths DEF Places
<1>5. skipwhite(t, name) = name
  <2>1. name \in s.p .. name
    BY <1>4, SkipIs DEF Places
  <2> QED BY <2>1, SkipFrom
<1>6. key.is \in {"error", "done"} /\ \A j : key.is = "done" /\ key.p = j <=> <<name, j>> \in S
  BY <1>4, <1>5 DEF Reads
(* With a string at name, key ends behind it. *)
<1>7. ASSUME At(t, name)[1] = "string", \E k, l : <<k, l>> \in S
      PROVE  name \in 1 .. Len(t) /\ t[name] = At(t, name) /\ key.is = "done" /\ key.p = name + 1
  <2>1. Eos[1] # "string"
    BY Toks DEF Eos
  <2>2. name <= Len(t) /\ At(t, name) = t[name]
    BY <1>4, <1>7, <2>1, AtIs
  <2>3. name \in 1 .. Len(t) /\ t[name][1] \in Atoms
    BY <1>4, <1>7, <2>2 DEF Places, Atoms
  <2>4. <<name, name + 1>> \in S
    BY <1>7, <2>3 DEF HasAtoms
  <2> QED BY <1>6, <2>2, <2>3, <2>4
(* Behind a colon at m is x. *)
<1>8. ASSUME NEW m, m = colon, m \in Places(t), At(t, m) = Colon
      PROVE  /\ m \in 1 .. Len(t) /\ t[m] = Colon /\ m + 1 \in Places(t)
             /\ x.is \in {"error", "done"}
             /\ \A j : x.is = "done" /\ x.p = j <=> <<skipwhite(t, m + 1), j>> \in S
  <2>1. m <= Len(t) /\ t[m] = Colon
    BY <1>3, <1>8, AtIs
  <2>2. m \in 1 .. Len(t) /\ m + 1 \in Places(t)
    BY <1>4, <1>8, <2>1 DEF Places
  <2>3. x = deeper[m + 1]
    BY <1>8
  <2> QED BY <2>1, <2>2, <2>3 DEF Reads
<1>9. CASE At(t, s.p) = EndObject
  BY <1>1, <1>9 DEF TurnOf, gives
<1>10. ASSUME At(t, s.p) # EndObject, NEW l, <<name, l>> \in M
       PROVE  /\ At(t, skipwhite(t, l)) = EndObject => r.is = "done" /\ r.p = skipwhite(t, l) + 1
              /\ At(t, skipwhite(t, l)) = Comma => r.is = "more" /\ r.p = skipwhite(t, l) + 1
  <2>1. /\ l \in Places(t)
        /\ \E m \in name + 1 .. l - 1 : \E v \in m + 1 .. l :
             /\ t[name][1] = "string" /\ Blank(t, name + 1, m) /\ t[m] = Colon
             /\ Blank(t, m + 1, v) /\ <<v, l>> \in S
    BY <1>10, MembersAre
  <2>2. PICK m \in name + 1 .. l - 1 : \E v \in m + 1 .. l :
             /\ t[name][1] = "string" /\ Blank(t, name + 1, m) /\ t[m] = Colon
             /\ Blank(t, m + 1, v) /\ <<v, l>> \in S
    BY <2>1
  <2>3. PICK v \in m + 1 .. l :
             /\ t[name][1] = "string" /\ Blank(t, name + 1, m) /\ t[m] = Colon
             /\ Blank(t, m + 1, v) /\ <<v, l>> \in S
    BY <2>2
  <2>4. l \in Nat /\ m \in Nat /\ v \in Nat /\ name < m /\ m < v /\ v <= l /\ l <= Len(t) + 1
    BY <1>4, <2>1, <2>3 DEF Places
  <2>5. At(t, name) = t[name] /\ At(t, m) = Colon
    BY <1>4, <2>3, <2>4 DEF At
  <2>6. key.is = "done" /\ key.p = name + 1
    BY <1>7, <2>3, <2>5
  <2>7. name + 1 \in Places(t) /\ m \in name + 1 .. Len(t) + 1 /\ m \in Places(t) /\ m + 1 \in Places(t)
    BY <1>4, <2>4 DEF Places
  <2>8. colon = m
    BY <1>3, <2>3, <2>5, <2>6, <2>7, SkipTo
  <2>9. At(t, v) # White /\ v \in m + 1 .. Len(t) + 1
    BY <2>3, <2>4, StretchBegins, SMTT(60)
  <2>10. skipwhite(t, m + 1) = v
    BY <2>3, <2>7, <2>9, SkipTo
  <2>11. x.is = "done" /\ x.p = l
    BY <1>8, <2>3, <2>5, <2>7, <2>8, <2>10
  <2>12. q = skipwhite(t, l)
    BY <2>11
  <2>13. r = IF At(t, q) = EndObject THEN gives(q + 1, out)
             ELSE IF At(t, q) = Comma THEN more(q + 1, out)
             ELSE fails
    <3> HIDE DEF name, key, colon, x, q
    <3> QED BY <1>2, <1>10, <2>3, <2>5, <2>6, <2>8, <2>11
  <2> HIDE DEF name, key, colon, x, q
  <2> QED BY <1>3, <2>12, <2>13 DEF gives, more
<1>11. ASSUME At(t, s.p) # EndObject,
              \A l : <<name, l>> \in M => At(t, skipwhite(t, l)) \notin {EndObject, Comma}
       PROVE  r.is = "error"
  <2>1. CASE At(t, name)[1] # "string" \/ key.is = "error"
    <3> HIDE DEF name, key, colon, x, q
    <3> QED BY <1>2, <1>11, <2>1 DEF fails
  <2>2. CASE At(t, name)[1] = "string" /\ key.is = "done"
    <3>1. <<name, key.p>> \in S
      BY <1>6, <2>2
    <3>2. name \in 1 .. Len(t) /\ t[name] = At(t, name) /\ key.p = name + 1
      BY <1>7, <2>2, <3>1
    <3>3. name + 1 \in Places(t)
      BY <1>4, <3>2 DEF Places
    <3>4. PICK m \in name + 1 .. Len(t) + 1 : m = colon /\ m \in Places(t) /\ Blank(t, name + 1, m)
      BY <3>2, <3>3, SkipIs
    <3>5. CASE At(t, m) # Colon \/ x.is = "error"
      <4> HIDE DEF name, key, colon, x, q
      <4> QED BY <1>2, <1>11, <2>2, <3>4, <3>5 DEF fails
    <3>6. CASE At(t, m) = Colon /\ x.is = "done"
      <4>1. m \in 1 .. Len(t) /\ t[m] = Colon /\ m + 1 \in Places(t) /\ <<skipwhite(t, m + 1), x.p>> \in S
        <5>1. /\ m \in 1 .. Len(t) /\ t[m] = Colon /\ m + 1 \in Places(t)
              /\ \A j : x.is = "done" /\ x.p = j <=> <<skipwhite(t, m + 1), j>> \in S
          BY <1>8, <3>4, <3>6
        <5> HIDE DEF x
        <5> QED BY <3>6, <5>1
      <4>2. PICK l : l = x.p
        OBVIOUS
      <4>3. PICK v \in m + 1 .. Len(t) + 1 : v = skipwhite(t, m + 1) /\ Blank(t, m + 1, v)
        BY <4>1, SkipIs
      <4>4. <<v, l>> \in S /\ l \in Places(t) /\ l \in v + 1 .. Len(t) + 1
        BY <4>1, <4>2, <4>3, StretchBegins
      <4>5. m \in name + 1 .. l - 1 /\ v \in m + 1 .. l
        BY <1>4, <3>4, <4>3, <4>4
      <4>6. <<name, l>> \in M
        <5>1. \E mm \in name + 1 .. l - 1 : \E vv \in mm + 1 .. l :
                /\ t[name][1] = "string" /\ Blank(t, name + 1, mm) /\ t[mm] = Colon
                /\ Blank(t, mm + 1, vv) /\ <<vv, l>> \in S
          BY <2>2, <3>2, <3>4, <4>1, <4>3, <4>4, <4>5
        <5> QED BY <1>4, <4>4, <5>1, MembersAre
      <4>7. At(t, q) \notin {EndObject, Comma}
        BY <1>11, <4>2, <4>6
      <4> HIDE DEF name, key, colon, x, q, M
      <4> QED BY <1>2, <1>11, <2>2, <3>4, <3>6, <4>7 DEF fails
    <3>7. x.is \in {"error", "done"} \/ At(t, m) # Colon
      BY <1>8, <3>4
    <3> QED BY <3>5, <3>6, <3>7
  <2> QED BY <1>6, <2>1, <2>2
<1> HIDE DEF key, colon, x, q, M
<1> QED BY <1>9, <1>10, <1>11 DEF TurnOf

(* The loop over an array, or an object, from its start at p. *)
Ends(kind)          == IF kind = "array" THEN EndArray ELSE EndObject
PartsOf(t, S, kind) == IF kind = "array" THEN S ELSE Members(t, S)

(* The loop reads the bodies of the grammar, and no others. *)
LEMMA PartsRead ==
  ASSUME NEW t \in Seq(Token), NEW S, Stretches(t, S), NEW deeper, Reads(t, deeper, S), HasAtoms(t, S),
         NEW p \in Places(t), NEW kind \in {"array", "table"}, NEW empty, empty[1] = kind,
         NEW r, r = decode_parts(deeper, t, p, empty)
  PROVE  /\ r.is \in {"error", "done"}
         /\ \A j : r.is = "done" /\ r.p = j <=>
              /\ j \in Places(t) /\ p < j /\ t[j - 1] = Ends(kind)
              /\ LaxBody(t, p, j - 1, PartsOf(t, S, kind))
<1>1. Len(t) \in Nat
  BY Lengths
<1>2. PICK turn : DecodeTurns(deeper, t, p, empty, turn) /\ r = turn[Len(t) + 1]
  BY <1>1, PartsIs
<1>3. turn[0] = more(skipwhite(t, p), empty)
  BY <1>2 DEF DecodeTurns
<1>4. ASSUME NEW i \in 1 .. Len(t) + 1 PROVE turn[i] = decode_part(deeper, t, turn[i - 1])
  BY <1>2 DEF DecodeTurns
(* It stays with what it began. *)
<1> DEFINE P == {i \in Nat : i <= Len(t) + 1 => (turn[i].is = "more" => turn[i].out[1] = kind)}
<1>5. 0 \in P
  BY <1>3 DEF more
<1>6. ASSUME NEW i \in Nat, i \in P PROVE i + 1 \in P
  <2> SUFFICES ASSUME i + 1 <= Len(t) + 1, turn[i + 1].is = "more" PROVE turn[i + 1].out[1] = kind
    OBVIOUS
  <2>1. i + 1 \in 1 .. Len(t) + 1 /\ i + 1 - 1 = i /\ i <= Len(t) + 1
    BY <1>1
  <2>2. turn[i + 1] = decode_part(deeper, t, turn[i])
    BY <1>4, <2>1
  <2>3. turn[i].is = "more" => turn[i].out[1] = kind
    BY <1>6, <2>1
  <2> DEFINE s == turn[i]
             u == turn[i + 1]
  <2> HIDE DEF s, u
  <2>4. u = decode_part(deeper, t, s) /\ (s.is = "more" => s.out[1] = kind) /\ u.is = "more"
    BY <2>2, <2>3 DEF s, u
  <2>5. CASE s.is # "more"
    BY <2>4, <2>5 DEF decode_part
  <2>6. CASE s.is = "more" /\ s.out[1] = "array"
    <3>1. u = decode_item(deeper, t, s)
      BY <2>4, <2>6 DEF decode_part
    <3>2. u.out[1] = "array"
      BY <2>4, <3>1 DEF decode_item, gives, more, fails
    <3> QED BY <2>4, <2>6, <3>2 DEF u
  <2>7. CASE s.is = "more" /\ s.out[1] # "array"
    <3>1. u = decode_member(deeper, t, s)
      BY <2>4, <2>7, SMTT(60) DEF decode_part
    <3>2. u.out[1] = "table"
      BY <2>4, <3>1 DEF decode_member, gives, more, fails
    <3> QED BY <2>4, <2>7, <3>2 DEF u
  <2> QED BY <2>5, <2>6, <2>7
<1>7. ASSUME NEW i \in 0 .. Len(t) + 1, turn[i].is = "more" PROVE turn[i].out[1] = kind
  <2> HIDE DEF P
  <2>1. i \in P
    BY <1>1, <1>5, <1>6, NatInd
  <2> QED BY <1>1, <1>7, <2>1 DEF P
<1> DEFINE M == PartsOf(t, S, kind)
<1>8. Stretches(t, M)
  BY MembersStretch DEF PartsOf
<1>9. Ends(kind) \in {EndArray, EndObject}
  BY DEF Ends
<1>10. LoopOf(t, M, Ends(kind), p, turn)
  <2>1. turn[0].is = "more" /\ turn[0].p = skipwhite(t, p)
    BY <1>3 DEF more
  <2>2. ASSUME NEW i \in 1 .. Len(t) + 1
        PROVE  /\ turn[i - 1].is # "more" => turn[i] = turn[i - 1]
               /\ (turn[i - 1].is = "more" /\ turn[i - 1].p \in Places(t)) =>
                    TurnOf(t, M, Ends(kind), turn[i - 1].p, turn[i])
    <3>1. turn[i] = decode_part(deeper, t, turn[i - 1]) /\ i - 1 \in 0 .. Len(t) + 1
      BY <1>1, <1>4
    <3>2. CASE turn[i - 1].is # "more"
      BY <3>1, <3>2 DEF decode_part
    <3>3. ASSUME turn[i - 1].is = "more", turn[i - 1].p \in Places(t)
          PROVE  TurnOf(t, M, Ends(kind), turn[i - 1].p, turn[i])
      <4>1. turn[i - 1].out[1] = kind
        BY <1>7, <3>1, <3>3
      <4>2. CASE kind = "array"
        <5>1. turn[i] = decode_item(deeper, t, turn[i - 1])
          BY <3>1, <3>3, <4>1, <4>2 DEF decode_part
        <5>2. M = S /\ Ends(kind) = EndArray
          BY <4>2 DEF PartsOf, Ends
        <5> QED BY <3>3, <5>1, <5>2, ItemTurn
      <4>3. CASE kind = "table"
        <5>1. turn[i] = decode_member(deeper, t, turn[i - 1])
          BY <3>1, <3>3, <4>1, <4>3 DEF decode_part
        <5>2. M = Members(t, S) /\ Ends(kind) = EndObject
          BY <4>3 DEF PartsOf, Ends
        <5> QED BY <3>3, <5>1, <5>2, MemberTurn
      <4> QED BY <4>2, <4>3
    <3> QED BY <3>2, <3>3
  <2> HIDE DEF M
  <2> QED BY <2>1, <2>2 DEF LoopOf
<1> HIDE DEF M
<1>11. r.is \in {"error", "done"} /\ Between(t, M, Ends(kind), p, Len(t) + 1, r)
  BY <1>2, <1>8, <1>9, <1>10, LoopGives
<1>12. ASSUME NEW j, j \in Places(t), p < j, t[j - 1] = Ends(kind), LaxBody(t, p, j - 1, M)
       PROVE  r.is = "done" /\ r.p = j
  <2>1. PICK b \in 1 .. Len(t) : b = j - 1 /\ p <= b /\ b + 1 = j
    BY <1>1, <1>12 DEF Places
  <2>2. t[b] = Ends(kind) /\ LaxBody(t, p, b, M)
    BY <1>12, <2>1
  <2>3. turn[Len(t) + 1].is = "done" /\ turn[Len(t) + 1].p = b + 1
    BY <1>8, <1>9, <1>10, <2>1, <2>2, LoopReads
  <2> QED BY <1>2, <2>1, <2>3
<1> QED BY <1>11, <1>12 DEF Between, M

(* The values that the grammar has, with commas too many, by their parts. *)
LEMMA NearAre ==
  ASSUME NEW t, NEW S, NEW k, NEW l
  PROVE  <<k, l>> \in LaxOver(t, S) <=>
           /\ k \in Places(t) /\ l \in Places(t)
           /\ \/ l = k + 1 /\ t[k][1] \in Atoms
              \/ l > k + 1 /\ t[k] = BeginArray /\ t[l - 1] = EndArray /\ LaxBody(t, k + 1, l - 1, S)
              \/ /\ l > k + 1 /\ t[k] = BeginObject /\ t[l - 1] = EndObject
                 /\ LaxBody(t, k + 1, l - 1, Members(t, S))
BY DEF LaxOver, JsonOver, LaxBody

(* A value begins with a token that may begin one, and every atom is one. *)
LEMMA NearStretch ==
  ASSUME NEW t \in Seq(Token), NEW S
  PROVE  Stretches(t, LaxOver(t, S)) /\ HasAtoms(t, LaxOver(t, S))
<1> DEFINE J == LaxOver(t, S)
<1>1. Len(t) \in Nat
  BY Lengths
<1>2. ASSUME NEW k, NEW l, <<k, l>> \in J
      PROVE  /\ k \in 1 .. Len(t) /\ l \in k + 1 .. Len(t) + 1
             /\ t[k][1] \in Atoms \/ t[k] \in {BeginArray, BeginObject}
  <2>1. /\ k \in Places(t) /\ l \in Places(t) /\ (l = k + 1 \/ l > k + 1)
        /\ t[k][1] \in Atoms \/ t[k] = BeginArray \/ t[k] = BeginObject
    BY <1>2, NearAre
  <2> QED BY <1>1, <2>1 DEF Places
<1>3. ASSUME NEW i \in 1 .. Len(t), t[i][1] \in Atoms PROVE <<i, i + 1>> \in J
  <2>1. i \in Places(t) /\ i + 1 \in Places(t)
    BY <1>1 DEF Places
  <2> QED BY <1>3, <2>1, NearAre
<1> HIDE DEF J
<1>4. Stretches(t, J)
  BY <1>2 DEF Stretches
<1>5. HasAtoms(t, J)
  BY <1>3 DEF HasAtoms
<1> QED BY <1>4, <1>5 DEF J

(* Brackets and the zero byte are no atoms. *)
LEMMA BracketIs ==
  Eos[1] \notin Atoms /\ BeginArray[1] \notin Atoms /\ BeginObject[1] \notin Atoms /\ Null[1] \in Atoms
<1>1. Eos[1] \notin Atoms
  BY Toks DEF Eos, Atoms
<1>2. BeginArray[1] \notin Atoms /\ BeginObject[1] \notin Atoms
  <2>1. BeginArray \in Token /\ BeginObject \in Token
    BY DEF Token
  <2> QED BY <2>1, TokenIs
<1>3. Null[1] \in Atoms
  BY Toks DEF Null, Atoms
<1> QED BY <1>1, <1>2, <1>3

(* The switch reads a value whose parts are those read a level deeper. *)
LEMMA TokenReads ==
  ASSUME NEW t \in Seq(Token), NEW S, Stretches(t, S), NEW deeper, Reads(t, deeper, S), HasAtoms(t, S),
         NEW q \in Places(t), NEW r, r = decode_token(deeper, t, q)
  PROVE  /\ r.is \in {"error", "done"}
         /\ \A j : r.is = "done" /\ r.p = j <=> <<q, j>> \in LaxOver(t, S)
<1>1. Len(t) \in Nat /\ q \in Nat /\ 1 <= q
  BY Lengths DEF Places
<1>2. BeginArray # BeginObject /\ Null # BeginArray /\ Null # BeginObject
  BY Differ
<1>3. Eos[1] \notin Atoms /\ BeginArray[1] \notin Atoms /\ BeginObject[1] \notin Atoms /\ Null[1] \in Atoms
  BY BracketIs
<1>4. CASE At(t, q)[1] \in Atoms
  <2>1. q <= Len(t) /\ t[q] = At(t, q)
    BY <1>3, <1>4, AtIs
  <2>2. t[q] # BeginArray /\ t[q] # BeginObject
    BY <1>3, <1>4, <2>1
  <2>3. r.is = "done" /\ r.p = q + 1
    BY <1>4 DEF decode_token, gives
  <2>4. q + 1 \in Places(t)
    BY <1>1, <2>1 DEF Places
  <2>5. \A j : <<q, j>> \in LaxOver(t, S) <=> j = q + 1
    BY <1>4, <2>1, <2>2, <2>4, NearAre
  <2> QED BY <2>3, <2>5
<1>5. ASSUME NEW kind \in {"array", "table"}, NEW empty, empty[1] = kind,
             At(t, q) = IF kind = "array" THEN BeginArray ELSE BeginObject,
             r = decode_parts(deeper, t, q + 1, empty)
      PROVE  /\ r.is \in {"error", "done"}
             /\ \A j : r.is = "done" /\ r.p = j <=> <<q, j>> \in LaxOver(t, S)
  <2>1. At(t, q) # Eos
    BY <1>5, Differ
  <2>2. q <= Len(t) /\ t[q] = At(t, q)
    BY <2>1, AtIs
  <2>3. q + 1 \in Places(t)
    BY <1>1, <2>2 DEF Places
  <2>4. /\ r.is \in {"error", "done"}
        /\ \A j : r.is = "done" /\ r.p = j <=>
             /\ j \in Places(t) /\ q + 1 < j /\ t[j - 1] = Ends(kind)
             /\ LaxBody(t, q + 1, j - 1, PartsOf(t, S, kind))
    BY <1>5, <2>3, PartsRead
  <2>5. ASSUME NEW j
        PROVE  <<q, j>> \in LaxOver(t, S) <=>
                 /\ j \in Places(t) /\ q + 1 < j /\ t[j - 1] = Ends(kind)
                 /\ LaxBody(t, q + 1, j - 1, PartsOf(t, S, kind))
    <3>1. t[q][1] \notin Atoms
      BY <1>3, <1>5, <2>2
    <3>2. j \in Places(t) => (j > q + 1 <=> q + 1 < j)
      BY <1>1 DEF Places
    <3>3. <<q, j>> \in LaxOver(t, S) <=>
            /\ q \in Places(t) /\ j \in Places(t)
            /\ \/ j = q + 1 /\ t[q][1] \in Atoms
               \/ j > q + 1 /\ t[q] = BeginArray /\ t[j - 1] = EndArray /\ LaxBody(t, q + 1, j - 1, S)
               \/ /\ j > q + 1 /\ t[q] = BeginObject /\ t[j - 1] = EndObject
                  /\ LaxBody(t, q + 1, j - 1, Members(t, S))
      BY NearAre
    <3>4. CASE kind = "array"
      <4>1. Ends(kind) = EndArray /\ PartsOf(t, S, kind) = S
        BY <3>4 DEF Ends, PartsOf
      <4>2. t[q] = BeginArray
        BY <1>5, <2>2, <3>4
      <4> QED BY <1>2, <3>1, <3>2, <3>3, <4>1, <4>2
    <3>5. CASE kind = "table"
      <4>1. Ends(kind) = EndObject /\ PartsOf(t, S, kind) = Members(t, S)
        BY <3>5 DEF Ends, PartsOf
      <4>2. t[q] = BeginObject
        BY <1>5, <2>2, <3>5
      <4> QED BY <1>2, <3>1, <3>2, <3>3, <4>1, <4>2
    <3> QED BY <3>4, <3>5
  <2> QED BY <2>4, <2>5
<1>6. CASE At(t, q) = BeginArray
  <2>1. r = decode_parts(deeper, t, q + 1, <<"array", <<>>>>)
    BY <1>2, <1>3, <1>6 DEF decode_token
  <2> DEFINE empty == <<"array", <<>>>>
  <2>2. empty[1] = "array"
    OBVIOUS
  <2>3. r = decode_parts(deeper, t, q + 1, empty)
    BY <2>1
  <2> HIDE DEF empty
  <2> QED BY <1>5, <1>6, <2>2, <2>3
<1>7. CASE At(t, q) = BeginObject
  <2>1. r = decode_parts(deeper, t, q + 1, <<"table", [k \in Key |-> Nil]>>)
    BY <1>2, <1>3, <1>7 DEF decode_token
  <2> DEFINE empty == <<"table", [k \in Key |-> Nil]>>
  <2>2. empty[1] = "table"
    OBVIOUS
  <2>3. r = decode_parts(deeper, t, q + 1, empty)
    BY <2>1
  <2> HIDE DEF empty
  <2>4. At(t, q) = IF "table" = "array" THEN BeginArray ELSE BeginObject
    BY <1>7
  <2> QED BY <1>5, <2>2, <2>3, <2>4
<1>8. CASE At(t, q)[1] \notin Atoms /\ At(t, q) \notin {BeginArray, BeginObject}
  <2>1. r = fails
    BY <1>3, <1>8 DEF decode_token
  <2>2. \A j : <<q, j>> \notin LaxOver(t, S)
    <3> SUFFICES ASSUME NEW j, <<q, j>> \in LaxOver(t, S) PROVE FALSE
      OBVIOUS
    <3>1. q \in 1 .. Len(t) /\ (t[q][1] \in Atoms \/ t[q] \in {BeginArray, BeginObject})
      BY NearStretch DEF Stretches
    <3>2. At(t, q) = t[q]
      BY <1>1, <3>1 DEF At
    <3> QED BY <1>8, <3>1, <3>2
  <2>3. r.is = "error"
    BY <2>1 DEF fails
  <2> QED BY <2>2, <2>3
<1> QED BY <1>4, <1>6, <1>7, <1>8

(* So n deep decode_one() reads the values nested less deep, and only them. *)
Near(t, n) == IF n = 0 THEN {} ELSE LaxJson(t)[n - 1]

(* What may be read one level deeper. *)
LEMMA NearIs ==
  ASSUME NEW t, NEW n \in Nat, n + 1 <= Deep + 1
  PROVE  Near(t, n + 1) = LaxOver(t, Near(t, n))
<1>1. n \in 0 .. Deep /\ n + 1 # 0 /\ n + 1 - 1 = n
  BY JsonAssumption DEF JsonAssumption
<1>2. LaxJson(t)[n] = LaxOver(t, IF n = 0 THEN {} ELSE LaxJson(t)[n - 1])
  BY <1>1, LaxJsonIs
<1>3. Near(t, n + 1) = LaxJson(t)[n]
  BY <1>1 DEF Near
<1> QED BY <1>2, <1>3 DEF Near

(* decode_one() fails below the limit; above it, it skips white space and  *)
(* goes by the token.                                                      *)
LEMMA DecodeAt ==
  ASSUME NEW t
  PROVE  /\ \A p \in Places(t) : decode_one(t)[0][p] = fails
         /\ \A n \in 0 .. Guard : \A p \in Places(t) :
              decode_one(t)[n + 1][p] = decode_token(decode_one(t)[n], t, skipwhite(t, p))
<1> DEFINE one == decode_one(t)
<1>1. Guard \in Nat
  BY JsonAssumption DEF JsonAssumption
<1>2. one = [n \in 0 .. Guard + 1 |-> [p \in Places(t) |->
                       IF n = 0 THEN fails ELSE decode_token(one[n - 1], t, skipwhite(t, p))]]
  BY DecodeIs
<1> HIDE DEF one
<1>3. \A p \in Places(t) : one[0][p] = fails
  BY <1>1, <1>2
<1>4. ASSUME NEW n \in 0 .. Guard, NEW p \in Places(t)
      PROVE  one[n + 1][p] = decode_token(one[n], t, skipwhite(t, p))
  <2>1. PICK m : m = n + 1 /\ m \in 0 .. Guard + 1 /\ m # 0 /\ m - 1 = n
    BY <1>1
  <2>2. one[m] = [u \in Places(t) |->
                    IF m = 0 THEN fails ELSE decode_token(one[m - 1], t, skipwhite(t, u))]
    BY <1>2, <2>1
  <2>3. one[m][p] = decode_token(one[m - 1], t, skipwhite(t, p))
    BY <2>1, <2>2
  <2> QED BY <2>1, <2>3
<1> QED BY <1>3, <1>4 DEF one

(* By induction on the depth, decode_one() reads the values of the         *)
(* grammar.                                                                *)
LEMMA OneReads ==
  ASSUME NEW t \in Seq(Token), NEW n \in 0 .. Guard + 1
  PROVE  Reads(t, decode_one(t)[n], Near(t, n)) /\ Stretches(t, Near(t, n)) /\ HasAtoms(t, Near(t, n))
<1>1. Guard \in Nat /\ Deep \in Nat /\ Guard <= Deep
  BY JsonAssumption DEF JsonAssumption
<1> DEFINE Good(i) == /\ Reads(t, decode_one(t)[i], Near(t, i))
                      /\ Stretches(t, Near(t, i)) /\ HasAtoms(t, Near(t, i))
           P == {i \in Nat : i <= Guard + 1 => Good(i)}
<1>2. 0 \in P
  <2>1. Near(t, 0) = {}
    BY DEF Near
  <2>2. \A p \in Places(t) : decode_one(t)[0][p] = fails
    BY DecodeAt
  <2> QED BY <2>1, <2>2 DEF Reads, Stretches, HasAtoms, fails
<1>3. ASSUME NEW i \in Nat, i \in P PROVE i + 1 \in P
  <2> SUFFICES ASSUME i + 1 <= Guard + 1 PROVE Good(i + 1)
    OBVIOUS
  <2>1. Good(i)
    BY <1>1, <1>3
  <2>2. Near(t, i + 1) = LaxOver(t, Near(t, i))
    BY <1>1, NearIs
  <2>3. Stretches(t, Near(t, i + 1)) /\ HasAtoms(t, Near(t, i + 1))
    BY <2>2, NearStretch
  <2>4. ASSUME NEW p \in Places(t)
        PROVE  /\ decode_one(t)[i + 1][p].is \in {"error", "done"}
               /\ \A j : decode_one(t)[i + 1][p].is = "done" /\ decode_one(t)[i + 1][p].p = j
                           <=> <<skipwhite(t, p), j>> \in Near(t, i + 1)
    <3>1. decode_one(t)[i + 1][p] = decode_token(decode_one(t)[i], t, skipwhite(t, p))
      BY <1>1, DecodeAt
    <3>2. skipwhite(t, p) \in Places(t)
      BY SkipIs
    <3> QED BY <2>1, <2>2, <3>1, <3>2, TokenReads
  <2> QED BY <2>3, <2>4 DEF Reads
<1> HIDE DEF P
<1>4. n \in P
  BY <1>1, <1>2, <1>3, NatInd
<1> QED BY <1>1, <1>4 DEF P

(* json_decode() accepts what is JSON up to a zero byte, but for a comma   *)
(* before a bracket, and nothing else. *)
LEMMA DecodedIs ==
  ASSUME NEW t \in Seq(Token)
  PROVE  decoded(t).is \in {"error", "done"} /\ (decoded(t).is = "done" <=> IsNearJson(t, Guard))
<1> DEFINE r == decode_one(t)[Guard + 1][1]
           J == LaxJson(t)[Guard]
<1>1. Guard \in Nat /\ Guard + 1 \in 0 .. Guard + 1 /\ Guard + 1 # 0 /\ Guard + 1 - 1 = Guard
  BY JsonAssumption DEF JsonAssumption
<1>2. Near(t, Guard + 1) = J
  BY <1>1 DEF Near
<1>3. Len(t) \in Nat /\ 1 \in Places(t)
  BY Lengths DEF Places
<1>4. Reads(t, decode_one(t)[Guard + 1], J) /\ Stretches(t, J)
  BY <1>1, <1>2, OneReads
<1>5. r.is \in {"error", "done"} /\ \A j : r.is = "done" /\ r.p = j <=> <<skipwhite(t, 1), j>> \in J
  BY <1>3, <1>4 DEF Reads
<1>6. decoded(t) = IF r.is = "done" /\ At(t, skipwhite(t, r.p)) # Eos THEN fails ELSE r
  BY DEF decoded
<1> HIDE DEF r, J
<1>7. ASSUME r.is = "done", At(t, skipwhite(t, r.p)) = Eos
      PROVE  \E j \in Places(t) : At(t, j) = Eos /\ Spaced(t, 1, j, J)
  <2>1. PICK k, l : k = skipwhite(t, 1) /\ l = r.p
    OBVIOUS
  <2>2. <<k, l>> \in J
    BY <1>5, <1>7, <2>1
  <2>3. l \in Places(t) /\ k \in 1 .. Len(t) /\ l \in k + 1 .. Len(t) + 1
    BY <1>4, <2>2, StretchBegins
  <2>4. PICK q \in l .. Len(t) + 1 : q = skipwhite(t, l) /\ q \in Places(t) /\ Blank(t, l, q)
    BY <2>3, SkipIs
  <2>5. Blank(t, 1, k)
    BY <1>3, <2>1, SkipIs
  <2>6. k \in Nat /\ l \in Nat /\ q \in Nat /\ 1 <= k /\ k < l /\ l <= q
    BY <1>3, <2>3
  <2>7. Spaced(t, 1, q, J)
    BY <2>2, <2>4, <2>5, <2>6, SpacedBy
  <2>8. At(t, q) = Eos
    BY <1>7, <2>1, <2>4
  <2> QED BY <2>4, <2>7, <2>8
<1>8. ASSUME NEW j \in Places(t), At(t, j) = Eos, Spaced(t, 1, j, J)
      PROVE  r.is = "done" /\ At(t, skipwhite(t, r.p)) = Eos
  <2>1. PICK k \in 1 .. j, l \in 1 .. j : Blank(t, 1, k) /\ <<k, l>> \in J /\ Blank(t, l, j)
    BY <1>8 DEF Spaced
  <2>2. /\ k \in 1 .. Len(t) /\ l \in k + 1 .. Len(t) + 1 /\ l \in Places(t)
        /\ At(t, k) = t[k] /\ t[k] # White
    BY <1>4, <2>1, StretchBegins
  <2>3. k \in 1 .. Len(t) + 1 /\ j \in l .. Len(t) + 1
    BY <1>3, <2>1, <2>2 DEF Places
  <2>4. skipwhite(t, 1) = k
    BY <1>3, <2>1, <2>2, <2>3, SkipTo
  <2>5. r.is = "done" /\ r.p = l
    BY <1>5, <2>1, <2>4
  <2>6. At(t, j) # White
    BY <1>8, Differ
  <2>7. skipwhite(t, l) = j
    BY <2>1, <2>2, <2>3, <2>6, SkipTo
  <2> QED BY <1>8, <2>5, <2>7
<1>9. IsNearJson(t, Guard) <=> \E j \in Places(t) : At(t, j) = Eos /\ Spaced(t, 1, j, J)
  BY DEF IsNearJson, LaxJson, J
<1> QED BY <1>5, <1>6, <1>7, <1>8, <1>9 DEF fails

-----------------------------------------------------------------------------
(* What decode_one() gives is a value, and for a string the string.        *)

Gives(t, deeper, V) ==
  \A p \in Places(t) : deeper[p].is = "done" =>
    /\ deeper[p].p \in Places(t) /\ deeper[p].out \in V
    /\ At(t, skipwhite(t, p))[1] = "string" => deeper[p].out = At(t, skipwhite(t, p))

(* The arrays and tables of some values. *)
Table(V)      == [Key -> V \cup {Nil}]
Made(kind, V) == IF kind = "array" THEN {"array"} \X Seq(V) ELSE {"table"} \X Table(V)

(* What a turn of the loop may come to. *)
Stands(t, M, r) ==
  r.is = "error" \/ (r.is \in {"done", "more"} /\ r.p \in Places(t) /\ r.out \in M)

(* A token that is an atom is a value. *)
LEMMA TokenKind ==
  ASSUME NEW x \in Token
  PROVE  /\ x[1] = "string" => x \in Named({"string"})
         /\ x[1] \in Atoms /\ x # Null => x \in Key
<1>1. \A y \in Named({"string"}) : y[1] = "string" /\ y \in Key
  BY DEF Named, Key, Bytes
<1>2. \A y \in {Tok("number"), Tok("true"), Tok("false")} : y[1] # "string" /\ y \in Key
  BY Toks DEF Key
<1>3. Null[1] # "string"
  BY Toks DEF Null
<1> DEFINE Marks == {BeginArray, EndArray, BeginObject, EndObject, Comma, Colon, White, Eos}
<1>4. \A y \in Marks : y \in Token
  BY DEF Token
<1>5. \A y \in Marks : y[1] \notin Atoms
  BY <1>4, TokenIs
<1>6. x \in Marks \/ x = Null \/ x \in {Tok("number"), Tok("true"), Tok("false")} \/ x \in Named({"string"})
  BY DEF Token
<1>7. "string" \in Atoms
  BY DEF Atoms
<1> HIDE DEF Marks
<1> QED BY <1>1, <1>2, <1>3, <1>5, <1>6, <1>7

(* A comma or a bracket at q is in the text. *)
LEMMA NextPlace ==
  ASSUME NEW t \in Seq(Token), NEW q \in Places(t), At(t, q) # Eos
  PROVE  q + 1 \in Places(t)
<1>1. q <= Len(t) /\ Len(t) \in Nat /\ q \in 1 .. Len(t) + 1
  BY AtIs, Lengths DEF Places
<1> QED BY <1>1 DEF Places

(* A turn over an array keeps it an array, *)
LEMMA ItemGives ==
  ASSUME NEW t \in Seq(Token), NEW deeper, NEW V, Gives(t, deeper, V),
         \A p \in Places(t) : deeper[p].is \in {"error", "done"},
         NEW s, s.p \in Places(t), s.out \in Made("array", V)
  PROVE  Stands(t, Made("array", V), decode_item(deeper, t, s))
<1> DEFINE r == decode_item(deeper, t, s)
           x == deeper[s.p]
           q == skipwhite(t, x.p)
           out == <<"array", Append(s.out[2], x.out)>>
           M == Made("array", V)
<1>1. At(t, s.p) = EndArray => r = gives(s.p + 1, s.out)
  BY DEF decode_item
<1>2. At(t, s.p) # EndArray =>
        r = IF x.is = "error" THEN fails
            ELSE IF At(t, q) = EndArray THEN gives(q + 1, out)
            ELSE IF At(t, q) = Comma THEN more(q + 1, out)
            ELSE fails
  BY DEF decode_item
<1>3. EndArray # Eos /\ Comma # Eos
  BY Differ
<1>4. x.is = "done" => x.p \in Places(t) /\ x.out \in V
  BY DEF Gives
<1>5. x.is \in {"error", "done"}
  OBVIOUS
<1>6. x.is = "done" => q \in Places(t)
  BY <1>4, SkipIs
<1>7. x.is = "done" => out \in M
  <2> SUFFICES ASSUME x.is = "done" PROVE out \in M
    OBVIOUS
  <2>1. PICK y, u : y = x.out /\ u = s.out[2]
    OBVIOUS
  <2>2. M = {"array"} \X Seq(V)
    BY DEF Made
  <2>3. y \in V /\ u \in Seq(V)
    BY <1>4, <2>1, <2>2
  <2>4. <<"array", Append(u, y)>> \in {"array"} \X Seq(V)
    BY <2>3, AppendProperties
  <2> QED BY <2>1, <2>2, <2>4
<1>8. At(t, s.p) = EndArray => s.p + 1 \in Places(t)
  BY <1>3, NextPlace
<1>9. x.is = "done" /\ At(t, q) \in {EndArray, Comma} => q + 1 \in Places(t)
  BY <1>3, <1>6, NextPlace
<1> HIDE DEF r, x, q, out, M
<1>10. Stands(t, M, r)
  BY <1>1, <1>2, <1>5, <1>7, <1>8, <1>9 DEF Stands, gives, more, fails, M
<1> QED BY <1>10 DEF r, M

(* one over an object keeps it a table, *)
LEMMA MemberGives ==
  ASSUME NEW t \in Seq(Token), NEW deeper, NEW V, Gives(t, deeper, V),
         \A p \in Places(t) : deeper[p].is \in {"error", "done"},
         NEW s, s.p \in Places(t), s.out \in Made("table", V)
  PROVE  Stands(t, Made("table", V), decode_member(deeper, t, s))
<1> DEFINE r     == decode_member(deeper, t, s)
           name  == skipwhite(t, s.p)
           key   == deeper[name]
           colon == skipwhite(t, key.p)
           x     == deeper[colon + 1]
           q     == skipwhite(t, x.p)
           out   == <<"table", janet_table_put(s.out[2], keyed(key.out), x.out)>>
           M     == Made("table", V)
<1>1. At(t, s.p) = EndObject => r = gives(s.p + 1, s.out)
  BY DEF decode_member
<1>2. At(t, s.p) # EndObject =>
        r = IF At(t, name)[1] # "string" \/ key.is = "error" THEN fails
            ELSE IF At(t, colon) # Colon \/ x.is = "error" THEN fails
            ELSE IF At(t, q) = EndObject THEN gives(q + 1, out)
            ELSE IF At(t, q) = Comma THEN more(q + 1, out)
            ELSE fails
  BY DEF decode_member
<1>3. EndObject # Eos /\ Comma # Eos /\ Colon # Eos
  BY Differ
<1>4. name \in Places(t) /\ skipwhite(t, name) = name
  <2>1. name \in Places(t) /\ name \in s.p .. name
    BY SkipIs DEF Places
  <2> QED BY <2>1, SkipFrom
<1>5. key.is \in {"error", "done"}
  BY <1>4
<1>6. key.is = "done" => key.p \in Places(t) /\ (At(t, name)[1] = "string" => key.out = At(t, name))
  BY <1>4 DEF Gives
<1>7. key.is = "done" => colon \in Places(t)
  BY <1>6, SkipIs
<1>8. key.is = "done" /\ At(t, colon) = Colon => colon + 1 \in Places(t)
  BY <1>3, <1>7, NextPlace
<1>9. key.is = "done" /\ At(t, colon) = Colon =>
        x.is \in {"error", "done"} /\ (x.is = "done" => x.p \in Places(t) /\ x.out \in V)
  BY <1>8 DEF Gives
<1>10. key.is = "done" /\ At(t, colon) = Colon /\ x.is = "done" => q \in Places(t)
  BY <1>9, SkipIs
<1>11. key.is = "done" /\ At(t, colon) = Colon /\ x.is = "done" /\ At(t, q) \in {EndObject, Comma} => q + 1 \in Places(t)
  BY <1>3, <1>10, NextPlace
<1>12. At(t, s.p) = EndObject => s.p + 1 \in Places(t)
  BY <1>3, NextPlace
<1>13. key.is = "done" /\ At(t, name)[1] = "string" => keyed(key.out) \in Key
  <2> SUFFICES ASSUME key.is = "done", At(t, name)[1] = "string" PROVE keyed(key.out) \in Key
    OBVIOUS
  <2>1. Eos[1] # "string"
    BY Toks DEF Eos
  <2>2. At(t, name) \in Token
    BY <1>4, <2>1, AtIs
  <2>3. key.out \in Named({"string"})
    BY <1>6, <2>2, TokenKind
  <2> HIDE DEF key
  <2> QED BY <2>3 DEF keyed, Named, Key, Bytes
<1>14. key.is = "done" /\ At(t, name)[1] = "string" /\ At(t, colon) = Colon /\ x.is = "done" => out \in M
  <2> SUFFICES ASSUME key.is = "done", At(t, name)[1] = "string", At(t, colon) = Colon, x.is = "done"
               PROVE  out \in M
    OBVIOUS
  <2>1. PICK k, y, m : k = keyed(key.out) /\ y = x.out /\ m = s.out[2]
    OBVIOUS
  <2>2. k \in Key /\ y \in V /\ m \in Table(V)
    BY <1>9, <1>13, <2>1 DEF Made
  <2>3. janet_table_put(m, k, y) \in Table(V)
    BY <2>2 DEF janet_table_put, Table
  <2> QED BY <2>1, <2>3 DEF Made
<1> HIDE DEF r, name, key, colon, x, q, out, M
<1>15. s.out \in M
  BY DEF M
<1>16. Stands(t, M, r)
  <2>1. CASE At(t, s.p) = EndObject
    BY <1>1, <1>12, <1>15, <2>1 DEF Stands, gives
  <2>2. CASE At(t, s.p) # EndObject /\ (At(t, name)[1] # "string" \/ key.is = "error")
    BY <1>2, <2>2 DEF Stands, fails
  <2>3. CASE At(t, s.p) # EndObject /\ At(t, name)[1] = "string" /\ key.is = "done"
    BY <1>2, <1>9, <1>11, <1>14, <2>3 DEF Stands, gives, more, fails
  <2> QED BY <1>5, <2>1, <2>2, <2>3
<1> QED BY <1>16 DEF r, M

(* and so does the loop. *)
LEMMA PartsGive ==
  ASSUME NEW t \in Seq(Token), NEW deeper, NEW V, Gives(t, deeper, V),
         \A p \in Places(t) : deeper[p].is \in {"error", "done"},
         NEW p \in Places(t), NEW kind \in {"array", "table"}, NEW empty \in Made(kind, V)
  PROVE  Stands(t, Made(kind, V), decode_parts(deeper, t, p, empty))
<1>1. Len(t) \in Nat
  BY Lengths
<1>2. PICK turn : DecodeTurns(deeper, t, p, empty, turn) /\ decode_parts(deeper, t, p, empty) = turn[Len(t) + 1]
  BY <1>1, PartsIs
<1> DEFINE M == Made(kind, V)
           P == {i \in Nat : i <= Len(t) + 1 => Stands(t, M, turn[i])}
<1>3. 0 \in P
  <2>1. turn[0] = more(skipwhite(t, p), empty) /\ skipwhite(t, p) \in Places(t)
    BY <1>2, SkipIs DEF DecodeTurns
  <2> HIDE DEF M
  <2>2. empty \in M
    BY DEF M
  <2> QED BY <2>1, <2>2 DEF Stands, more
<1>4. ASSUME NEW i \in Nat, i \in P PROVE i + 1 \in P
  <2> SUFFICES ASSUME i + 1 <= Len(t) + 1 PROVE Stands(t, M, turn[i + 1])
    OBVIOUS
  <2>1. i + 1 \in 1 .. Len(t) + 1 /\ i + 1 - 1 = i /\ i <= Len(t) + 1
    BY <1>1
  <2>2. turn[i + 1] = decode_part(deeper, t, turn[i])
    BY <1>2, <2>1 DEF DecodeTurns
  <2> DEFINE s == turn[i]
  <2>3. Stands(t, M, s) /\ turn[i + 1] = decode_part(deeper, t, s)
    BY <1>4, <2>1, <2>2
  <2> HIDE DEF s
  <2>4. CASE s.is # "more"
    BY <2>3, <2>4 DEF decode_part
  <2>5. CASE s.is = "more"
    <3>1. s.p \in Places(t) /\ s.out \in M
      BY <2>3, <2>5 DEF Stands
    <3>2. CASE kind = "array"
      <4>1. s.out[1] = "array"
        BY <3>1, <3>2 DEF Made
      <4>2. turn[i + 1] = decode_item(deeper, t, s)
        BY <2>3, <2>5, <4>1 DEF decode_part
      <4> QED BY <3>1, <3>2, <4>2, ItemGives
    <3>3. CASE kind = "table"
      <4>1. s.out[1] = "table"
        BY <3>1, <3>3 DEF Made
      <4>2. turn[i + 1] = decode_member(deeper, t, s)
        BY <2>3, <2>5, <4>1 DEF decode_part
      <4> QED BY <3>1, <3>3, <4>2, MemberGives
    <3> QED BY <3>2, <3>3
  <2> QED BY <2>4, <2>5
<1> HIDE DEF P
<1>5. Len(t) + 1 \in P
  BY <1>1, <1>3, <1>4, NatInd
<1> QED BY <1>1, <1>2, <1>5 DEF P

(* The values that may be the parts of one in Value(n), and how the levels *)
(* are nested.                                                             *)
Parted(n) == IF n = 0 THEN {} ELSE Value(n - 1)

(* A value is an atom, an array or a table, of values one level less deep. *)
LEMMA ValueIs ==
  ASSUME NEW n \in 0 .. Deep
  PROVE  /\ Value(n) = Built(Key \cup {Nil}, Key, Parted(n))
         /\ \A x : x \in Value(n) <=> x \in Key \cup {Nil} \/ x \in Made("array", Parted(n))
                                        \/ x \in Made("table", Parted(n))
<1>1. Value(n) = Built(Key \cup {Nil}, Key, Parted(n))
  <2> DEFINE atoms == Key \cup {Nil}
             nested == Nested(atoms, Key)
  <2>1. nested = [i \in 0 .. Deep |-> Built(atoms, Key, IF i = 0 THEN {} ELSE nested[i - 1])]
    BY NestedIs, ZenonT(60)
  <2>2. \A i : Value(i) = nested[i]
    BY DEF Value
  <2> HIDE DEF atoms, nested
  <2>3. nested[n] = Built(atoms, Key, IF n = 0 THEN {} ELSE nested[n - 1])
    BY <2>1
  <2>4. Parted(n) = IF n = 0 THEN {} ELSE nested[n - 1]
    BY <2>2 DEF Parted
  <2> QED BY <2>2, <2>3, <2>4 DEF atoms
<1>2. \A V : {m \in [Key -> V \cup {Nil}] : \A k \in Key \ Key : m[k] = Nil} = Table(V)
  BY DEF Table
<1>3. Value(n) = Key \cup {Nil} \cup ({"array"} \X Seq(Parted(n))) \cup ({"table"} \X Table(Parted(n)))
  BY <1>1, <1>2 DEF Built
<1>4. Made("array", Parted(n)) = {"array"} \X Seq(Parted(n)) /\ Made("table", Parted(n)) = {"table"} \X Table(Parted(n))
  BY DEF Made
<1> QED BY <1>1, <1>3, <1>4

(* There are more values over more parts, *)
LEMMA MadeOfMore ==
  ASSUME NEW V, NEW W, V \subseteq W, NEW kind \in {"array", "table"}
  PROVE  Made(kind, V) \subseteq Made(kind, W)
<1>1. Seq(V) \subseteq Seq(W)
  BY SeqMonotonic
<1>2. Table(V) \subseteq Table(W)
  BY DEF Table
<1> QED BY <1>1, <1>2 DEF Made

(* and so at a greater depth. *)
LEMMA ValueMore ==
  ASSUME NEW m \in 0 .. Deep, NEW n \in 0 .. Deep, m <= n
  PROVE  Value(m) \subseteq Value(n)
<1>1. Deep \in Nat
  BY JsonAssumption DEF JsonAssumption
<1>2. ASSUME NEW i \in 0 .. Deep, NEW j \in 0 .. Deep, Parted(i) \subseteq Parted(j) PROVE Value(i) \subseteq Value(j)
  <2>1. Made("array", Parted(i)) \subseteq Made("array", Parted(j)) /\ Made("table", Parted(i)) \subseteq Made("table", Parted(j))
    BY <1>2, MadeOfMore
  <2> QED BY <2>1, ValueIs
<1> DEFINE P == {i \in Nat : i + 1 <= Deep => Value(i) \subseteq Value(i + 1)}
<1>3. 0 \in P
  <2> SUFFICES ASSUME 0 + 1 <= Deep PROVE Value(0) \subseteq Value(0 + 1)
    OBVIOUS
  <2>1. Parted(0) \subseteq Parted(0 + 1)
    BY DEF Parted
  <2> QED BY <1>1, <1>2, <2>1
<1>4. ASSUME NEW i \in Nat, i \in P PROVE i + 1 \in P
  <2> SUFFICES ASSUME i + 1 + 1 <= Deep PROVE Value(i + 1) \subseteq Value(i + 1 + 1)
    OBVIOUS
  <2>1. Value(i) \subseteq Value(i + 1)
    BY <1>1, <1>4
  <2>2. Parted(i + 1) = Value(i) /\ Parted(i + 1 + 1) = Value(i + 1)
    BY DEF Parted
  <2> QED BY <1>1, <1>2, <2>1, <2>2
<1>5. ASSUME NEW i \in Nat, i + 1 <= Deep PROVE Value(i) \subseteq Value(i + 1)
  <2> HIDE DEF P
  <2>1. i \in P
    BY <1>3, <1>4, NatInd
  <2> QED BY <1>5, <2>1 DEF P
<1> DEFINE Q == {j \in Nat : m + j <= Deep => Value(m) \subseteq Value(m + j)}
<1>6. 0 \in Q
  BY <1>1
<1>7. ASSUME NEW j \in Nat, j \in Q PROVE j + 1 \in Q
  <2> SUFFICES ASSUME m + (j + 1) <= Deep PROVE Value(m) \subseteq Value(m + (j + 1))
    OBVIOUS
  <2>1. PICK i \in Nat : i = m + j /\ m + (j + 1) = i + 1 /\ i + 1 <= Deep
    BY <1>1
  <2>2. Value(m) \subseteq Value(i) /\ Value(i) \subseteq Value(i + 1)
    BY <1>1, <1>5, <1>7, <2>1
  <2> QED BY <2>1, <2>2
<1> HIDE DEF P, Q
<1>8. PICK j \in Nat : n = m + j
  <2>1. n - m \in Nat /\ n = m + (n - m)
    BY <1>1
  <2> QED BY <2>1
<1>9. j \in Q
  BY <1>6, <1>7, NatInd
<1> QED BY <1>1, <1>8, <1>9 DEF Q

(* What is read at a token is a value, *)
LEMMA TokenGives ==
  ASSUME NEW t \in Seq(Token), NEW deeper, NEW n \in 0 .. Deep, Gives(t, deeper, Parted(n)),
         \A p \in Places(t) : deeper[p].is \in {"error", "done"},
         NEW q \in Places(t), NEW r, r = decode_token(deeper, t, q), r.is = "done"
  PROVE  r.p \in Places(t) /\ r.out \in Value(n) /\ (At(t, q)[1] = "string" => r.out = At(t, q))
<1>1. Null # Eos /\ Null # BeginArray /\ Null # BeginObject /\ BeginArray # Eos /\ BeginObject # Eos /\ BeginArray # BeginObject
  BY Differ
<1>2. Eos[1] \notin Atoms /\ BeginArray[1] \notin Atoms /\ BeginObject[1] \notin Atoms /\ Null[1] # "string"
  BY BracketIs, Toks DEF Null
<1>3. "string" \in Atoms
  BY DEF Atoms
<1>4. \A x : x \in Key \cup {Nil} => x \in Value(n)
  BY ValueIs
<1>5. Made("array", Parted(n)) \subseteq Value(n) /\ Made("table", Parted(n)) \subseteq Value(n)
  BY ValueIs
<1>6. CASE At(t, q) = Null
  <2>1. r = gives(q + 1, null) /\ q + 1 \in Places(t)
    BY <1>1, <1>6, NextPlace DEF decode_token
  <2>2. null \in Key \cup {Nil}
    BY JsonAssumption DEF JsonAssumption, null, Key, Named, Bytes
  <2>3. r.p = q + 1 /\ r.out = null
    BY <2>1 DEF gives
  <2> QED BY <1>2, <1>4, <1>6, <2>1, <2>2, <2>3
<1>7. CASE At(t, q) # Null /\ At(t, q)[1] \in Atoms
  <2>1. At(t, q) # Eos
    BY <1>2, <1>7
  <2>2. At(t, q) \in Token /\ q + 1 \in Places(t)
    BY <2>1, AtIs, NextPlace
  <2>3. r = gives(q + 1, At(t, q))
    BY <1>7 DEF decode_token
  <2>4. r.p = q + 1 /\ r.out = At(t, q)
    BY <2>3 DEF gives
  <2> QED BY <1>4, <1>7, <2>2, <2>4, TokenKind
<1>8. ASSUME NEW kind \in {"array", "table"}, NEW empty \in Made(kind, Parted(n)),
             r = decode_parts(deeper, t, q + 1, empty), At(t, q) # Eos
      PROVE  r.p \in Places(t) /\ r.out \in Value(n)
  <2>1. q + 1 \in Places(t)
    BY <1>8, NextPlace
  <2>2. Stands(t, Made(kind, Parted(n)), r)
    BY <1>8, <2>1, PartsGive
  <2> QED BY <1>5, <2>2 DEF Stands
<1>9. CASE At(t, q) = BeginArray
  <2> DEFINE empty == <<"array", <<>>>>
  <2>1. r = decode_parts(deeper, t, q + 1, empty)
    BY <1>1, <1>2, <1>9 DEF decode_token
  <2>2. empty \in Made("array", Parted(n))
    BY EmptySeq DEF Made
  <2> HIDE DEF empty
  <2> QED BY <1>1, <1>2, <1>3, <1>8, <1>9, <2>1, <2>2
<1>10. CASE At(t, q) = BeginObject
  <2> DEFINE empty == <<"table", [k \in Key |-> Nil]>>
  <2>1. r = decode_parts(deeper, t, q + 1, empty)
    BY <1>1, <1>2, <1>10 DEF decode_token
  <2>2. empty \in Made("table", Parted(n))
    BY DEF Made, Table
  <2> HIDE DEF empty
  <2> QED BY <1>1, <1>2, <1>3, <1>8, <1>10, <2>1, <2>2
<1>11. CASE At(t, q) \notin {Null, BeginArray, BeginObject} /\ At(t, q)[1] \notin Atoms
  <2>1. r = fails
    BY <1>11 DEF decode_token
  <2> QED BY <2>1 DEF fails
<1> QED BY <1>6, <1>7, <1>9, <1>10, <1>11

(* by induction on the depth, *)
LEMMA OneGives ==
  ASSUME NEW t \in Seq(Token), NEW n \in 0 .. Guard + 1
  PROVE  Gives(t, decode_one(t)[n], Parted(n))
<1>1. Guard \in Nat /\ Deep \in Nat /\ Guard <= Deep
  BY JsonAssumption DEF JsonAssumption
<1> DEFINE one == decode_one(t)
           P == {i \in Nat : i <= Guard + 1 => Gives(t, one[i], Parted(i))}
<1>2. 0 \in P
  <2>1. \A p \in Places(t) : one[0][p].is # "done"
    BY DecodeAt DEF fails
  <2> HIDE DEF one
  <2> QED BY <2>1 DEF Gives
<1>3. ASSUME NEW i \in Nat, i \in P PROVE i + 1 \in P
  <2> SUFFICES ASSUME i + 1 <= Guard + 1 PROVE Gives(t, one[i + 1], Parted(i + 1))
    OBVIOUS
  <2>1. i \in 0 .. Guard /\ i \in 0 .. Guard + 1 /\ i \in 0 .. Deep /\ Gives(t, one[i], Parted(i))
    BY <1>1, <1>3
  <2>2. \A p \in Places(t) : one[i][p].is \in {"error", "done"}
    BY <2>1, OneReads DEF Reads
  <2>3. Parted(i + 1) = Value(i)
    BY DEF Parted
  <2>4. ASSUME NEW p \in Places(t), one[i + 1][p].is = "done"
        PROVE  /\ one[i + 1][p].p \in Places(t) /\ one[i + 1][p].out \in Value(i)
               /\ At(t, skipwhite(t, p))[1] = "string" => one[i + 1][p].out = At(t, skipwhite(t, p))
    <3>1. one[i + 1][p] = decode_token(one[i], t, skipwhite(t, p))
      BY <2>1, DecodeAt
    <3>2. skipwhite(t, p) \in Places(t)
      BY SkipIs
    <3> QED BY <2>1, <2>2, <2>4, <3>1, <3>2, TokenGives
  <2> HIDE DEF one
  <2> QED BY <2>3, <2>4 DEF Gives
<1> HIDE DEF P
<1>4. n \in P
  BY <1>1, <1>2, <1>3, NatInd
<1> QED BY <1>1, <1>4 DEF P

(* and so is what json_decode() gives. *)
LEMMA DecodedGives ==
  ASSUME NEW t \in Seq(Token), decoded(t).is = "done"
  PROVE  decoded(t).out \in Value(Deep)
<1>1. /\ Guard \in Nat /\ Deep \in Nat /\ Guard <= Deep /\ Guard + 1 \in 0 .. Guard + 1
      /\ Guard \in 0 .. Deep /\ Deep \in 0 .. Deep
  BY JsonAssumption DEF JsonAssumption
<1>2. Parted(Guard + 1) = Value(Guard)
  BY <1>1 DEF Parted
<1> DEFINE one == decode_one(t)[Guard + 1]
<1>3. Gives(t, one, Value(Guard))
  BY <1>1, <1>2, OneGives
<1>4. decoded(t) = IF one[1].is = "done" /\ At(t, skipwhite(t, one[1].p)) # Eos THEN fails ELSE one[1]
  BY DEF decoded
<1>5. 1 \in Places(t)
  BY Lengths DEF Places
<1> HIDE DEF one
<1>6. decoded(t) = one[1]
  BY <1>4 DEF fails
<1> QED BY <1>1, <1>3, <1>5, <1>6, ValueMore DEF Gives

-----------------------------------------------------------------------------
(* Texts, and where in a text another one is.                              *)

Whites == {w \in Seq(Token) : \A k \in 1 .. Len(w) : w[k] = White}

Holds(t, i, w) ==
  i \in Places(t) /\ i + Len(w) \in Places(t) /\ \A k \in 1 .. Len(w) : t[i + k - 1] = w[k]

(* The text of one token. *)
LEMMA Singles ==
  ASSUME NEW x \in Token
  PROVE  <<x>> \in Seq(Token) /\ Len(<<x>>) = 1 /\ <<x>>[1] = x
OBVIOUS

(* The marks are tokens. *)
LEMMA MarkIs ==
  /\ BeginArray \in Token /\ EndArray \in Token /\ BeginObject \in Token /\ EndObject \in Token
  /\ Comma \in Token /\ Colon \in Token /\ White \in Token /\ Null \in Token
BY DEF Token

(* A text that holds two, one behind the other, holds each, *)
LEMMA HoldsJoin ==
  ASSUME NEW t \in Seq(Token), NEW u \in Seq(Token), NEW w \in Seq(Token), NEW i, Holds(t, i, u \o w)
  PROVE  Holds(t, i, u) /\ Holds(t, i + Len(u), w) /\ i + Len(u \o w) = i + Len(u) + Len(w) /\ i \in Nat
<1> DEFINE z == u \o w
<1>1. Len(t) \in Nat /\ Len(u) \in Nat /\ Len(w) \in Nat /\ i \in 1 .. Len(t) + 1
  BY Lengths DEF Holds, Places
<1>2. /\ Len(z) = Len(u) + Len(w)
      /\ \A k \in 1 .. Len(u) + Len(w) : z[k] = IF k <= Len(u) THEN u[k] ELSE w[k - Len(u)]
  BY ConcatProperties
<1>3. i + Len(z) \in Places(t) /\ \A k \in 1 .. Len(z) : t[i + k - 1] = z[k]
  BY DEF Holds
<1> HIDE DEF z
<1>4. i + Len(u) \in Places(t) /\ i + Len(u) + Len(w) \in Places(t) /\ i + Len(z) = i + Len(u) + Len(w)
  BY <1>1, <1>2, <1>3 DEF Places
<1>5. ASSUME NEW k \in 1 .. Len(u) PROVE t[i + k - 1] = u[k]
  <2>1. k \in 1 .. Len(z) /\ k \in 1 .. Len(u) + Len(w) /\ k <= Len(u)
    BY <1>1, <1>2
  <2>2. z[k] = u[k]
    BY <1>2, <2>1
  <2> QED BY <1>3, <2>1, <2>2
<1>6. ASSUME NEW k \in 1 .. Len(w) PROVE t[i + Len(u) + k - 1] = w[k]
  <2>1. PICK m \in 1 .. Len(z) : m = Len(u) + k
    BY <1>1, <1>2
  <2>2. ~(m <= Len(u)) /\ m - Len(u) = k /\ i + m - 1 = i + Len(u) + k - 1
    BY <1>1, <2>1
  <2> QED BY <1>2, <1>3, <2>1, <2>2
<1>7. Holds(t, i, u)
  BY <1>4, <1>5 DEF Holds
<1>8. Holds(t, i + Len(u), w)
  BY <1>4, <1>6 DEF Holds
<1> QED BY <1>1, <1>4, <1>7, <1>8 DEF z

(* one that holds a token has it there, *)
LEMMA HoldsOne ==
  ASSUME NEW t \in Seq(Token), NEW x \in Token, NEW i, Holds(t, i, <<x>>)
  PROVE  /\ i \in 1 .. Len(t) /\ i \in Places(t) /\ i + 1 \in Places(t)
         /\ Len(<<x>>) = 1 /\ t[i] = x /\ At(t, i) = x
<1>1. Len(<<x>>) = 1 /\ <<x>>[1] = x /\ Len(t) \in Nat
  BY Lengths
<1>2. i \in Places(t) /\ i + 1 \in Places(t) /\ t[i + 1 - 1] = x
  BY <1>1 DEF Holds
<1>3. i \in 1 .. Len(t) /\ i + 1 - 1 = i
  BY <1>1, <1>2 DEF Places
<1> QED BY <1>1, <1>2, <1>3 DEF At

(* and one that holds white space is blank there. *)
LEMMA HoldsWhite ==
  ASSUME NEW t \in Seq(Token), NEW b \in Whites, NEW i, Holds(t, i, b)
  PROVE  Blank(t, i, i + Len(b)) /\ Len(b) \in Nat /\ i \in Nat /\ i + Len(b) \in Places(t)
<1>1. Len(b) \in Nat /\ i \in Nat /\ i + Len(b) \in Places(t)
  BY Lengths DEF Whites, Holds, Places
<1>2. ASSUME NEW m \in i .. i + Len(b) - 1 PROVE t[m] = White
  <2>1. PICK k \in 1 .. Len(b) : m = i + k - 1
    <3>1. m - i + 1 \in 1 .. Len(b) /\ m = i + (m - i + 1) - 1
      BY <1>1
    <3> QED BY <3>1
  <2> QED BY <2>1 DEF Holds, Whites
<1> QED BY <1>1, <1>2 DEF Blank

(* White space, and something else behind it. *)
LEMMA HoldsSkip ==
  ASSUME NEW t \in Seq(Token), NEW b \in Whites, NEW i, Holds(t, i, b), At(t, i + Len(b)) # White
  PROVE  skipwhite(t, i) = i + Len(b) /\ i \in Places(t)
<1>1. Blank(t, i, i + Len(b)) /\ Len(b) \in Nat /\ i \in Nat /\ i + Len(b) \in Places(t)
  BY HoldsWhite
<1>2. i \in Places(t)
  BY DEF Holds
<1>3. i + Len(b) \in i .. Len(t) + 1
  BY <1>1 DEF Places
<1> QED BY <1>1, <1>2, <1>3, SkipTo

-----------------------------------------------------------------------------
(* What the encoder writes: T has the texts it may make of the values, and *)
(* V those of the first parts of an array or a table.                      *)

Writes(e, r, w) == r \in Encoder /\ w \in Seq(Token) /\ r.buffer = e.buffer \o w

Steady(e, r) == r.indent = e.indent /\ ~r.err

(* deeper[x][e] adds a text of x, or is an error and adds something. *)
Makes(deeper, P, T) ==
  \A x \in P : \A e \in Encoder : ~e.err =>
    \E w \in Seq(Token) :
      Writes(e, deeper[x][e], w) /\ (~deeper[x][e].err => Steady(e, deeper[x][e]) /\ <<x, w>> \in T)

KeyTexts(T) == \A x, w : <<x, w>> \in T /\ x[1] \in Bytes => w = <<<<"string", x[2]>>>>

ItemTexts(T, y) == {w \in Seq(Token) : <<y, w>> \in T}

MemberTexts(T, k, y) ==
  {w \in Seq(Token) :
     /\ k[1] \in Bytes
     /\ \E b \in Whites, u \in Seq(Token) :
          <<y, u>> \in T /\ w = <<<<"string", k[2]>>>> \o (<<Colon>> \o (b \o u))}

(* The texts of the i-th part of x. *)
PartTexts(T, x, i) ==
  IF x[1] = "array" THEN ItemTexts(T, Parts(x)[i])
  ELSE MemberTexts(T, Parts(x)[i], x[2][Parts(x)[i]])

(* A part, with white space before it and a comma behind. *)
AddsPart(e, r, W) ==
  \E u \in Seq(Token) :
    /\ Writes(e, r, u)
    /\ ~r.err => Steady(e, r) /\ \E b \in Whites, w \in W : u = (b \o w) \o <<Comma>>

(* V has a text of the first part, and one of i + 1 parts for each of i.   *)
Chains(V, T, x) ==
  /\ \A b \in Whites : \A w \in PartTexts(T, x, 1) : 1 <= Len(Parts(x)) => <<1, b \o w>> \in V
  /\ \A i \in Nat \ {0} : \A v \in Seq(Token) : \A b \in Whites : \A w \in PartTexts(T, x, i + 1) :
       i + 1 <= Len(Parts(x)) /\ <<i, v>> \in V => <<i + 1, v \o (<<Comma>> \o (b \o w))>> \in V

(* The texts of all the parts, between brackets. *)
Within(V, n, v) ==
  (n = 0 /\ v = <<>>) \/ (n # 0 /\ \E z \in Seq(Token), b \in Whites : <<n, z>> \in V /\ v = z \o b)

Bracketed(V, n, opening, closing, w) ==
  \E v \in Seq(Token) : Within(V, n, v) /\ w = <<opening>> \o (v \o <<closing>>)

(* What two texts make, one behind the other. *)
LEMMA Cat ==
  ASSUME NEW a \in Seq(Token), NEW u \in Seq(Token)
  PROVE  /\ a \o u \in Seq(Token) /\ Len(a \o u) = Len(a) + Len(u)
         /\ \A i \in 1 .. Len(a) + Len(u) : (a \o u)[i] = IF i <= Len(a) THEN a[i] ELSE u[i - Len(a)]
BY ConcatProperties

(* Texts can be put together in any order. *)
LEMMA Joined ==
  ASSUME NEW a \in Seq(Token), NEW u \in Seq(Token), NEW w \in Seq(Token)
  PROVE  a \o u \in Seq(Token) /\ (a \o u) \o w = a \o (u \o w)
<1>1. a \o u \in Seq(Token)
  BY ConcatProperties
<1>2. (a \o u) \o w = a \o (u \o w)
  <2> DEFINE l == (a \o u) \o w
             r == a \o (u \o w)
             au == a \o u
             uw == u \o w
  <2>1. Len(a) \in Nat /\ Len(u) \in Nat /\ Len(w) \in Nat
    BY Lengths
  <2>2. /\ au \in Seq(Token) /\ Len(au) = Len(a) + Len(u)
        /\ \A i \in 1 .. Len(a) + Len(u) : au[i] = IF i <= Len(a) THEN a[i] ELSE u[i - Len(a)]
    BY ConcatProperties
  <2>3. /\ uw \in Seq(Token) /\ Len(uw) = Len(u) + Len(w)
        /\ \A i \in 1 .. Len(u) + Len(w) : uw[i] = IF i <= Len(u) THEN u[i] ELSE w[i - Len(u)]
    BY ConcatProperties
  <2> HIDE DEF au, uw
  <2>4. /\ l \in Seq(Token) /\ Len(l) = Len(au) + Len(w)
        /\ \A i \in 1 .. Len(au) + Len(w) : l[i] = IF i <= Len(au) THEN au[i] ELSE w[i - Len(au)]
    <3>1. l = au \o w
      BY DEF au
    <3>2. /\ au \o w \in Seq(Token) /\ Len(au \o w) = Len(au) + Len(w)
          /\ \A i \in 1 .. Len(au) + Len(w) : (au \o w)[i] = IF i <= Len(au) THEN au[i] ELSE w[i - Len(au)]
      <4>1. au \in Seq(Token)
        BY <2>2
      <4> QED BY <4>1, Cat
    <3> HIDE DEF l
    <3> QED BY <3>1, <3>2
  <2>5. /\ r \in Seq(Token) /\ Len(r) = Len(a) + Len(uw)
        /\ \A i \in 1 .. Len(a) + Len(uw) : r[i] = IF i <= Len(a) THEN a[i] ELSE uw[i - Len(a)]
    <3>1. r = a \o uw
      BY DEF uw
    <3>2. /\ a \o uw \in Seq(Token) /\ Len(a \o uw) = Len(a) + Len(uw)
          /\ \A i \in 1 .. Len(a) + Len(uw) : (a \o uw)[i] = IF i <= Len(a) THEN a[i] ELSE uw[i - Len(a)]
      <4>1. uw \in Seq(Token)
        BY <2>3
      <4> QED BY <4>1, Cat
    <3> HIDE DEF r
    <3> QED BY <3>1, <3>2
  <2> HIDE DEF l, r
  <2>6. Len(l) = Len(r) /\ Len(l) = Len(a) + Len(u) + Len(w)
    BY <2>1, <2>2, <2>3, <2>4, <2>5
  <2>7. ASSUME NEW i \in 1 .. Len(l) PROVE l[i] = r[i]
    <3>1. CASE i <= Len(a)
      <4>1. l[i] = au[i] /\ au[i] = a[i]
        BY <2>1, <2>2, <2>4, <2>6, <3>1
      <4>2. r[i] = a[i]
        BY <2>1, <2>3, <2>5, <2>6, <3>1
      <4> QED BY <4>1, <4>2
    <3>2. CASE Len(a) < i /\ i <= Len(a) + Len(u)
      <4>1. l[i] = au[i] /\ au[i] = u[i - Len(a)]
        BY <2>1, <2>2, <2>4, <2>6, <3>2
      <4>2. r[i] = uw[i - Len(a)]
        BY <2>1, <2>3, <2>5, <2>6, <3>2
      <4>3. uw[i - Len(a)] = u[i - Len(a)]
        BY <2>1, <2>3, <3>2
      <4> QED BY <4>1, <4>2, <4>3
    <3>3. CASE i > Len(a) + Len(u)
      <4>1. l[i] = w[i - (Len(a) + Len(u))]
        BY <2>1, <2>2, <2>4, <2>6, <3>3
      <4>2. r[i] = uw[i - Len(a)]
        BY <2>1, <2>3, <2>5, <2>6, <3>3
      <4>3. i - Len(a) \in 1 .. Len(u) + Len(w)
        BY <2>1, <2>6, <3>3
      <4>4. ~(i - Len(a) <= Len(u)) /\ i - Len(a) - Len(u) = i - (Len(a) + Len(u))
        BY <2>1, <2>6, <3>3
      <4>5. PICK k \in 1 .. Len(u) + Len(w) : k = i - Len(a) /\ ~(k <= Len(u)) /\ k - Len(u) = i - (Len(a) + Len(u))
        BY <4>3, <4>4
      <4>6. uw[k] = w[k - Len(u)]
        BY <2>3, <4>5
      <4> QED BY <4>1, <4>2, <4>5, <4>6
    <3> QED BY <2>1, <2>6, <3>1, <3>2, <3>3
  <2>8. l = r
    BY <2>4, <2>5, <2>6, <2>7, SeqEqual
  <2> QED BY <2>8 DEF l, r
<1> QED BY <1>1, <1>2

(* What is written after something was written comes behind it. *)
LEMMA WritesMore ==
  ASSUME NEW e \in Encoder, NEW r, NEW s, NEW u, NEW w, Writes(e, r, u), Writes(r, s, w)
  PROVE  Writes(e, s, u \o w)
<1>1. e.buffer \in Seq(Token) /\ u \in Seq(Token) /\ w \in Seq(Token)
  BY DEF Writes, Encoder
<1>2. s.buffer = (e.buffer \o u) \o w
  BY DEF Writes
<1>3. (e.buffer \o u) \o w = e.buffer \o (u \o w)
  BY <1>1, Joined, ZenonT(60)
<1>4. u \o w \in Seq(Token)
  BY <1>1, Joined
<1> QED BY <1>2, <1>3, <1>4 DEF Writes

(* push() writes a token, *)
LEMMA PushWrites ==
  ASSUME NEW e \in Encoder, NEW x \in Token
  PROVE  Writes(e, push(e, x), <<x>>) /\ push(e, x).indent = e.indent /\ push(e, x).err = e.err
<1>1. e.buffer \in Seq(Token) /\ e.indent \in Nat /\ e.err \in BOOLEAN /\ e \in [buffer : Seq(Token), indent : Nat, err : BOOLEAN]
  BY DEF Encoder
<1>2. Append(e.buffer, x) \in Seq(Token) /\ Append(e.buffer, x) = e.buffer \o <<x>>
  BY <1>1, AppendProperties, AppendIsConcat
<1>3. <<x>> \in Seq(Token)
  BY Singles
<1>4. push(e, x) = [e EXCEPT !.buffer = Append(e.buffer, x)]
  BY DEF push
<1>5. push(e, x).buffer = Append(e.buffer, x) /\ push(e, x).indent = e.indent /\ push(e, x).err = e.err
  BY <1>1, <1>4
<1>6. push(e, x) \in Encoder
  BY <1>1, <1>2, <1>4 DEF Encoder
<1> QED BY <1>2, <1>3, <1>5, <1>6 DEF Writes

(* encode_newline() white space. *)
LEMMA NewlineWrites ==
  ASSUME NEW e \in Encoder, NEW lay \in [tab : Nat, newline : Nat]
  PROVE  \E b \in Whites : /\ Writes(e, encode_newline(lay, e), b)
                           /\ encode_newline(lay, e).indent = e.indent /\ encode_newline(lay, e).err = e.err
<1>1. e.buffer \in Seq(Token) /\ e.indent \in Nat /\ e.err \in BOOLEAN /\ e \in [buffer : Seq(Token), indent : Nat, err : BOOLEAN]
  BY DEF Encoder
<1>2. PICK n \in Nat : n = lay.newline + e.indent * lay.tab
  <2>1. e.indent * lay.tab \in Nat
    BY <1>1
  <2> QED BY <2>1
<1> DEFINE b == [i \in 1 .. n |-> White]
<1>3. b \in Seq(Token) /\ Len(b) = n /\ \A k \in 1 .. n : b[k] = White
  BY MarkIs
<1>4. b \in Whites
  BY <1>3 DEF Whites
<1>5. encode_newline(lay, e) = [e EXCEPT !.buffer = e.buffer \o b]
  BY <1>2 DEF encode_newline
<1> HIDE DEF b
<1>6. e.buffer \o b \in Seq(Token)
  BY <1>1, <1>3, ConcatProperties
<1>7. encode_newline(lay, e).buffer = e.buffer \o b /\ encode_newline(lay, e).indent = e.indent /\ encode_newline(lay, e).err = e.err
  BY <1>1, <1>5
<1>8. encode_newline(lay, e) \in Encoder
  BY <1>1, <1>5, <1>6 DEF Encoder
<1> QED BY <1>3, <1>4, <1>7, <1>8 DEF Writes

(* encode_item() writes an item with its comma, *)
LEMMA ItemWrites ==
  ASSUME NEW lay \in [tab : Nat, newline : Nat], NEW deeper, NEW P, NEW T, Makes(deeper, P, T),
         NEW e \in Encoder, ~e.err, NEW y \in P
  PROVE  AddsPart(e, encode_item(lay, deeper, e, y), ItemTexts(T, y))
<1> DEFINE e1 == encode_newline(lay, e)
           r1 == deeper[y][e1]
           r  == encode_item(lay, deeper, e, y)
<1> SUFFICES AddsPart(e, r, ItemTexts(T, y))
  OBVIOUS
<1>1. PICK b \in Whites : Writes(e, e1, b) /\ e1.indent = e.indent /\ e1.err = e.err
  BY NewlineWrites
<1>2. e1 \in Encoder /\ ~e1.err
  BY <1>1 DEF Writes
<1>3. r = IF r1.err THEN r1 ELSE push(r1, Comma)
  BY DEF encode_item
<1> HIDE DEF e1, r
<1>4. PICK w \in Seq(Token) : Writes(e1, r1, w) /\ (~r1.err => Steady(e1, r1) /\ <<y, w>> \in T)
  BY <1>2 DEF Makes
<1> HIDE DEF r1
<1>5. r1 \in Encoder /\ Writes(e, r1, b \o w)
  <2>1. r1 \in Encoder
    BY <1>4 DEF Writes
  <2> QED BY <1>1, <1>4, <2>1, WritesMore
<1>6. CASE r1.err
  <2>1. b \o w \in Seq(Token)
    BY <1>5 DEF Writes
  <2> QED BY <1>3, <1>5, <1>6, <2>1 DEF AddsPart
<1>7. CASE ~r1.err
  <2>1. r = push(r1, Comma)
    BY <1>3, <1>7
  <2>2. Writes(r1, r, <<Comma>>) /\ r.indent = r1.indent /\ r.err = r1.err
    BY <1>5, <2>1, MarkIs, PushWrites
  <2>3. Writes(e, r, (b \o w) \o <<Comma>>)
    BY <1>5, <2>2, WritesMore
  <2>4. (b \o w) \o <<Comma>> \in Seq(Token)
    BY <2>3 DEF Writes
  <2>5. Steady(e, r) /\ w \in ItemTexts(T, y)
    BY <1>1, <1>4, <1>7, <2>2 DEF Steady, ItemTexts
  <2> QED BY <2>3, <2>4, <2>5 DEF AddsPart
<1> QED BY <1>6, <1>7

(* and encode_member() a member. *)
LEMMA MemberWrites ==
  ASSUME NEW lay \in [tab : Nat, newline : Nat], NEW deeper, NEW P, NEW T, Makes(deeper, P, T), KeyTexts(T),
         NEW e \in Encoder, ~e.err, NEW k \in P, k \in Key, NEW y \in P
  PROVE  AddsPart(e, encode_member(lay, deeper, e, k, y), MemberTexts(T, k, y))
<1> DEFINE e1  == encode_newline(lay, e)
           key == deeper[k][e1]
           s1  == push(key, Colon)
           sep == IF lay.tab = 0 THEN s1 ELSE push(s1, White)
           r1  == deeper[y][sep]
           r   == encode_member(lay, deeper, e, k, y)
<1> SUFFICES AddsPart(e, r, MemberTexts(T, k, y))
  OBVIOUS
<1>1. PICK b \in Whites : Writes(e, e1, b) /\ e1.indent = e.indent /\ e1.err = e.err
  BY NewlineWrites
<1>2. e1 \in Encoder /\ ~e1.err /\ b \in Seq(Token)
  BY <1>1 DEF Writes
<1>3. /\ k[1] \notin Bytes => r = cannot(e)
      /\ k[1] \in Bytes => r = IF key.err THEN key ELSE IF r1.err THEN r1 ELSE push(r1, Comma)
  BY DEF encode_member
<1>4. PICK w1 \in Seq(Token) : Writes(e1, key, w1) /\ (~key.err => Steady(e1, key) /\ <<k, w1>> \in T)
  BY <1>2 DEF Makes
<1> HIDE DEF e1, r, key
<1>5. key \in Encoder /\ Writes(e, key, b \o w1)
  <2>1. key \in Encoder
    BY <1>4 DEF Writes
  <2> QED BY <1>1, <1>4, <2>1, WritesMore
<1>6. CASE k[1] \notin Bytes
  <2>1. r = [e EXCEPT !.err = TRUE]
    BY <1>3, <1>6 DEF cannot
  <2>2. r \in Encoder /\ r.buffer = e.buffer /\ r.err /\ e.buffer \in Seq(Token)
    BY <2>1 DEF Encoder
  <2>3. <<>> \in Seq(Token) /\ e.buffer \o <<>> = e.buffer
    BY <2>2, ConcatEmptySeq, EmptySeq
  <2>4. Writes(e, r, <<>>)
    BY <2>2, <2>3 DEF Writes
  <2> QED BY <2>2, <2>3, <2>4 DEF AddsPart
<1>7. CASE k[1] \in Bytes /\ key.err
  <2>1. b \o w1 \in Seq(Token) /\ r = key
    BY <1>3, <1>5, <1>7 DEF Writes
  <2> QED BY <1>5, <1>7, <2>1 DEF AddsPart
<1>8. CASE k[1] \in Bytes /\ ~key.err
  <2>1. Writes(key, s1, <<Colon>>) /\ s1.indent = key.indent /\ s1.err = key.err
    BY <1>5, MarkIs, PushWrites
  <2> HIDE DEF s1
  <2>2. PICK b2 \in Whites : Writes(key, sep, <<Colon>> \o b2) /\ sep.indent = key.indent /\ sep.err = key.err
    <3>1. CASE lay.tab = 0
      <4>1. <<>> \in Whites /\ <<Colon>> \o <<>> = <<Colon>>
        <5>1. <<Colon>> \in Seq(Token)
          BY MarkIs, Singles
        <5> QED BY <5>1, ConcatEmptySeq, EmptySeq DEF Whites
      <4>2. sep = s1
        BY <3>1
      <4> QED BY <2>1, <4>1, <4>2
    <3>2. CASE lay.tab # 0
      <4>1. sep = push(s1, White) /\ s1 \in Encoder
        BY <2>1, <3>2 DEF Writes
      <4>2. Writes(s1, sep, <<White>>) /\ sep.indent = s1.indent /\ sep.err = s1.err
        BY <4>1, MarkIs, PushWrites
      <4>3. <<White>> \in Whites
        <5>1. <<White>> \in Seq(Token) /\ Len(<<White>>) = 1 /\ <<White>>[1] = White
          BY MarkIs, Singles
        <5> QED BY <5>1 DEF Whites
      <4> HIDE DEF sep
      <4>4. Writes(key, sep, <<Colon>> \o <<White>>)
        BY <1>5, <2>1, <4>1, <4>2, WritesMore
      <4> QED BY <2>1, <4>2, <4>3, <4>4
    <3> QED BY <3>1, <3>2
  <2> HIDE DEF sep
  <2>3. sep \in Encoder /\ ~sep.err /\ <<Colon>> \o b2 \in Seq(Token) /\ b2 \in Seq(Token)
    BY <1>8, <2>2 DEF Writes, Whites
  <2>4. PICK w2 \in Seq(Token) : Writes(sep, r1, w2) /\ (~r1.err => Steady(sep, r1) /\ <<y, w2>> \in T)
    BY <2>3 DEF Makes
  <2> HIDE DEF r1
  <2> DEFINE w == w1 \o (<<Colon>> \o (b2 \o w2))
  <2>5. r1 \in Encoder /\ w \in Seq(Token) /\ Writes(e, r1, b \o w)
    <3>1. r1 \in Encoder
      BY <2>4 DEF Writes
    <3>2. Writes(key, r1, (<<Colon>> \o b2) \o w2)
      BY <1>5, <2>2, <2>4, WritesMore
    <3>3. (<<Colon>> \o b2) \o w2 = <<Colon>> \o (b2 \o w2)
      <4>1. <<Colon>> \in Seq(Token)
        BY MarkIs, Singles
      <4> QED BY <2>3, <4>1, Joined
    <3>4. Writes(key, r1, <<Colon>> \o (b2 \o w2))
      BY <3>2, <3>3
    <3>5. Writes(e1, r1, w)
      BY <1>2, <1>4, <3>4, WritesMore
    <3>6. w \in Seq(Token)
      BY <3>5 DEF Writes
    <3> HIDE DEF w
    <3>7. Writes(e, r1, b \o w)
      BY <1>1, <3>5, WritesMore
    <3> QED BY <3>1, <3>6, <3>7
  <2>6. CASE r1.err
    <3>1. b \o w \in Seq(Token) /\ r = r1
      BY <1>3, <1>8, <2>5, <2>6 DEF Writes
    <3> QED BY <2>5, <2>6, <3>1 DEF AddsPart
  <2>7. CASE ~r1.err
    <3>1. r = push(r1, Comma)
      BY <1>3, <1>8, <2>7
    <3> HIDE DEF w
    <3>2. Writes(r1, r, <<Comma>>) /\ r.indent = r1.indent /\ r.err = r1.err
      BY <2>5, <3>1, MarkIs, PushWrites
    <3>3. Writes(e, r, (b \o w) \o <<Comma>>)
      BY <2>5, <3>2, WritesMore
    <3>4. (b \o w) \o <<Comma>> \in Seq(Token)
      BY <3>3 DEF Writes
    <3>5. Steady(e, r)
      BY <1>1, <1>4, <1>8, <2>2, <2>4, <2>7, <3>2 DEF Steady
    <3>6. w1 = <<<<"string", k[2]>>>>
      BY <1>4, <1>8 DEF KeyTexts
    <3>7. w \in MemberTexts(T, k, y)
      BY <1>8, <2>3, <2>4, <2>5, <2>7, <3>6 DEF MemberTexts, w
    <3> QED BY <3>3, <3>4, <3>5, <3>7 DEF AddsPart
  <2> QED BY <2>6, <2>7
<1> QED BY <1>6, <1>7, <1>8

(* The parts of an array are values, and those of a table its keys. *)
Keyed(P) == P # {} => Key \subseteq P

(* The parts of a value are one level less deep, and those of a table      *)
(* keys.                                                                   *)
LEMMA PartsAre ==
  ASSUME NEW P, Keyed(P), NEW kind \in {"array", "table"}, NEW x \in Made(kind, P)
  PROVE  /\ x[1] = kind /\ Len(Parts(x)) \in Nat
         /\ \A i \in 1 .. Len(Parts(x)) :
              /\ Parts(x)[i] \in P
              /\ kind = "table" => Parts(x)[i] \in Key /\ x[2][Parts(x)[i]] \in P
<1>1. CASE kind = "array"
  <2>1. x[1] = "array" /\ x[2] \in Seq(P)
    BY <1>1 DEF Made
  <2>2. Parts(x) = x[2]
    BY <2>1 DEF Parts
  <2>3. Len(x[2]) \in Nat /\ \A i \in 1 .. Len(x[2]) : x[2][i] \in P
    BY <2>1, ElementOfSeq, LenProperties
  <2> QED BY <1>1, <2>1, <2>2, <2>3
<1>2. CASE kind = "table"
  <2>1. x[1] = "table" /\ x[2] \in Table(P)
    BY <1>2 DEF Made
  <2> DEFINE K == {k \in Key : x[2][k] # Nil}
  <2>2. Parts(x) = slots[K]
    BY <2>1 DEF Parts
  <2>3. slots[K] \in Seq(K)
    BY JsonAssumption DEF JsonAssumption
  <2>4. \A k \in K : k \in Key /\ x[2][k] \in P /\ k \in P
    <3> SUFFICES ASSUME NEW k \in K PROVE k \in Key /\ x[2][k] \in P /\ k \in P
      OBVIOUS
    <3>1. k \in Key /\ x[2][k] \in P
      BY <2>1 DEF Table
    <3> QED BY <3>1 DEF Keyed
  <2> HIDE DEF K
  <2>5. Len(slots[K]) \in Nat /\ \A i \in 1 .. Len(slots[K]) : slots[K][i] \in K
    BY <2>3, ElementOfSeq, LenProperties
  <2> QED BY <1>2, <2>1, <2>2, <2>4, <2>5
<1> QED BY <1>1, <1>2

(* What is written behind the bracket when i parts are. *)
Behind(V, i, u) ==
  (i = 0 /\ u = <<>>) \/ (i # 0 /\ \E v \in Seq(Token) : <<i, v>> \in V /\ u = v \o <<Comma>>)

(* A turn of the loop writes a part, *)
LEMMA PartWrites ==
  ASSUME NEW lay \in [tab : Nat, newline : Nat], NEW deeper, NEW P, Keyed(P), NEW T, Makes(deeper, P, T), KeyTexts(T),
         NEW kind \in {"array", "table"}, NEW x \in Made(kind, P), NEW i \in 1 .. Len(Parts(x)),
         NEW e \in Encoder, ~e.err, NEW r, r = encode_part(lay, deeper, e, x, Parts(x)[i])
  PROVE  AddsPart(e, r, PartTexts(T, x, i))
<1> DEFINE y == Parts(x)[i]
<1>1. x[1] = kind /\ y \in P /\ (kind = "table" => y \in Key /\ x[2][y] \in P)
  BY PartsAre
<1>2. CASE kind = "array"
  <2>1. r = encode_item(lay, deeper, e, y)
    BY <1>1, <1>2 DEF encode_part
  <2>2. PartTexts(T, x, i) = ItemTexts(T, y)
    BY <1>1, <1>2 DEF PartTexts
  <2> HIDE DEF y
  <2> QED BY <1>1, <2>1, <2>2, ItemWrites
<1>3. CASE kind = "table"
  <2>1. r = encode_member(lay, deeper, e, y, x[2][y])
    BY <1>1, <1>3 DEF encode_part
  <2>2. PartTexts(T, x, i) = MemberTexts(T, y, x[2][y])
    BY <1>1, <1>3 DEF PartTexts
  <2> HIDE DEF y
  <2> QED BY <1>1, <1>3, <2>1, <2>2, MemberWrites
<1> QED BY <1>2, <1>3

(* A turn more. *)
LEMMA TurnWrites ==
  ASSUME NEW lay \in [tab : Nat, newline : Nat], NEW deeper, NEW P, Keyed(P), NEW T, Makes(deeper, P, T), KeyTexts(T),
         NEW kind \in {"array", "table"}, NEW x \in Made(kind, P), NEW V, Chains(V, T, x),
         NEW i \in Nat, i + 1 <= Len(Parts(x)),
         NEW e \in Encoder, NEW s, NEW u, Writes(e, s, u), ~s.err => Steady(e, s) /\ Behind(V, i, u),
         NEW r, r = encode_part(lay, deeper, s, x, Parts(x)[i + 1])
  PROVE  \E z : Writes(e, r, z) /\ (~r.err => Steady(e, r) /\ Behind(V, i + 1, z))
<1>1. s \in Encoder /\ u \in Seq(Token)
  BY DEF Writes
<1>2. CASE s.err
  <2>1. r = s
    BY <1>2 DEF encode_part
  <2> QED BY <1>2, <2>1
<1>3. CASE ~s.err
  <2>1. i + 1 \in 1 .. Len(Parts(x)) /\ i + 1 # 0
    BY PartsAre
  <2> DEFINE W == PartTexts(T, x, i + 1)
  <2>2. AddsPart(s, r, W)
    BY <1>1, <1>3, <2>1, PartWrites
  <2>3. W \subseteq Seq(Token)
    BY DEF PartTexts, ItemTexts, MemberTexts
  <2> HIDE DEF W
  <2>4. PICK u2 \in Seq(Token) :
          /\ Writes(s, r, u2)
          /\ ~r.err => Steady(s, r) /\ \E b \in Whites, w \in W : u2 = (b \o w) \o <<Comma>>
    BY <2>2 DEF AddsPart
  <2>5. r \in Encoder /\ Writes(e, r, u \o u2)
    <3>1. r \in Encoder
      BY <2>4 DEF Writes
    <3> QED BY <2>4, <3>1, WritesMore
  <2>6. ASSUME ~r.err PROVE Steady(e, r) /\ Behind(V, i + 1, u \o u2)
    <3>1. Steady(e, r)
      BY <1>3, <2>4, <2>6 DEF Steady
    <3>2. PICK b \in Whites, w \in W : u2 = (b \o w) \o <<Comma>>
      BY <2>4, <2>6
    <3>3. b \o w \in Seq(Token) /\ <<Comma>> \in Seq(Token) /\ b \in Seq(Token)
      BY <2>3, MarkIs, Singles, Joined DEF Whites
    <3>4. CASE i = 0
      <4>1. <<1, b \o w>> \in V
        <5>1. i + 1 = 1 /\ 1 <= Len(Parts(x))
          BY <3>4
        <5>2. w \in PartTexts(T, x, 1)
          BY <5>1 DEF W
        <5> QED BY <5>1, <5>2 DEF Chains
      <4>2. u = <<>>
        BY <1>3, <3>4 DEF Behind
      <4>3. u \o u2 = u2
        BY <4>2, <2>4, ConcatEmptySeq
      <4>4. Behind(V, 1, u2)
        <5> DEFINE bw == b \o w
        <5>1. bw \in Seq(Token) /\ <<1, bw>> \in V /\ u2 = bw \o <<Comma>>
          BY <3>2, <3>3, <4>1
        <5> HIDE DEF bw
        <5>2. \E v \in Seq(Token) : <<1, v>> \in V /\ u2 = v \o <<Comma>>
          BY <5>1
        <5>3. 1 # 0
          OBVIOUS
        <5> QED BY <5>2, <5>3, Zenon DEF Behind
      <4> QED BY <3>1, <3>4, <4>3, <4>4
    <3>5. CASE i # 0
      <4>1. PICK v \in Seq(Token) : <<i, v>> \in V /\ u = v \o <<Comma>>
        BY <1>3, <3>5 DEF Behind
      <4> DEFINE bw == b \o w
      <4>2. u \o u2 = (v \o (<<Comma>> \o bw)) \o <<Comma>>
        <5>1. bw \in Seq(Token) /\ u2 = bw \o <<Comma>>
          BY <3>2, <3>3
        <5> HIDE DEF bw
        <5>2. bw \o <<Comma>> \in Seq(Token) /\ <<Comma>> \o bw \in Seq(Token)
          BY <3>3, <5>1, Joined
        <5>3. u \o u2 = v \o (<<Comma>> \o u2)
          <6>1. (v \o <<Comma>>) \o u2 = v \o (<<Comma>> \o u2)
            BY <3>3, Joined, ZenonT(60)
          <6> QED BY <4>1, <6>1
        <5>4. <<Comma>> \o (bw \o <<Comma>>) = (<<Comma>> \o bw) \o <<Comma>>
          BY <3>3, <5>1, Joined, SMTT(60)
        <5>5. v \o ((<<Comma>> \o bw) \o <<Comma>>) = (v \o (<<Comma>> \o bw)) \o <<Comma>>
          BY <3>3, <5>2, Joined, SMTT(60), ZenonT(60)
        <5> QED BY <5>1, <5>3, <5>4, <5>5
      <4>3. v \o (<<Comma>> \o bw) \in Seq(Token)
        <5>1. <<Comma>> \o bw \in Seq(Token)
          BY <3>3, Joined
        <5> HIDE DEF bw
        <5> QED BY <5>1, Joined
      <4>4. <<i + 1, v \o (<<Comma>> \o bw)>> \in V
        <5>1. i \in Nat \ {0}
          BY <3>5
        <5> QED BY <3>2, <4>1, <5>1 DEF Chains, W
      <4> HIDE DEF bw
      <4> QED BY <2>1, <3>1, <4>2, <4>3, <4>4 DEF Behind
    <3> QED BY <3>4, <3>5
  <2> QED BY <2>5, <2>6
<1> QED BY <1>2, <1>3

(* and the loop all of them. *)
LEMMA PartsWrite ==
  ASSUME NEW lay \in [tab : Nat, newline : Nat], NEW deeper, NEW P, Keyed(P), NEW T, Makes(deeper, P, T), KeyTexts(T),
         NEW kind \in {"array", "table"}, NEW x \in Made(kind, P), NEW V, Chains(V, T, x),
         NEW e \in Encoder, ~e.err, NEW r, r = encode_parts(lay, deeper, e, x)
  PROVE  \E u : Writes(e, r, u) /\ (~r.err => r.indent = e.indent + 1 /\ Behind(V, Len(Parts(x)), u))
<1> DEFINE n == Len(Parts(x))
           e1 == indented(e, 1)
<1>1. n \in Nat
  BY PartsAre
<1>2. PICK turn : WriteTurns(lay, deeper, e, x, turn) /\ r = turn[n]
  BY <1>1, WritesIs
<1>3. e1 \in Encoder /\ e1.buffer = e.buffer /\ e1.indent = e.indent + 1 /\ ~e1.err /\ e.buffer \in Seq(Token)
  <2>1. e \in [buffer : Seq(Token), indent : Nat, err : BOOLEAN] /\ e.indent + 1 \in Nat
    BY DEF Encoder
  <2>2. e1 = [e EXCEPT !.indent = e.indent + 1]
    BY DEF indented
  <2> HIDE DEF e1
  <2> QED BY <2>1, <2>2 DEF Encoder
<1>4. turn[0] = e1 /\ \A i \in 1 .. n : turn[i] = encode_part(lay, deeper, turn[i - 1], x, Parts(x)[i])
  BY <1>2 DEF WriteTurns
<1> DEFINE Good(i) == \E u : Writes(e1, turn[i], u) /\ (~turn[i].err => Steady(e1, turn[i]) /\ Behind(V, i, u))
           Q == {i \in Nat : i <= n => Good(i)}
<1> HIDE DEF n, e1
<1>5. 0 \in Q
  <2>1. <<>> \in Seq(Token) /\ e1.buffer \o <<>> = e1.buffer
    BY <1>3, EmptySeq, ConcatEmptySeq
  <2>2. Writes(e1, turn[0], <<>>)
    BY <1>3, <1>4, <2>1 DEF Writes
  <2>3. Steady(e1, turn[0]) /\ Behind(V, 0, <<>>)
    BY <1>3, <1>4 DEF Steady, Behind
  <2> QED BY <2>2, <2>3
<1>6. ASSUME NEW i \in Nat, i \in Q PROVE i + 1 \in Q
  <2> SUFFICES ASSUME i + 1 <= n PROVE Good(i + 1)
    OBVIOUS
  <2>1. i + 1 \in 1 .. n /\ i + 1 - 1 = i /\ i <= n
    BY <1>1
  <2>2. PICK u : Writes(e1, turn[i], u) /\ (~turn[i].err => Steady(e1, turn[i]) /\ Behind(V, i, u))
    BY <1>6, <2>1
  <2>3. turn[i + 1] = encode_part(lay, deeper, turn[i], x, Parts(x)[i + 1])
    BY <1>4, <2>1
  <2>4. i + 1 <= Len(Parts(x))
    BY DEF n
  <2> QED BY <1>3, <2>2, <2>3, <2>4, TurnWrites
<1> HIDE DEF Q
<1>7. n \in Q
  BY <1>1, <1>5, <1>6, NatInd
<1>8. PICK u : Writes(e1, r, u) /\ (~r.err => Steady(e1, r) /\ Behind(V, n, u))
  BY <1>1, <1>2, <1>7 DEF Q
<1>9. Writes(e, r, u)
  BY <1>3, <1>8 DEF Writes
<1> QED BY <1>3, <1>8, <1>9 DEF Steady, n

(* The last token of a text, and what is before it. *)
LEMMA LastFront ==
  ASSUME NEW f \in Seq(Token), NEW x \in Token
  PROVE  f \o <<x>> \in Seq(Token) /\ Last(f \o <<x>>) = x /\ Front(f \o <<x>>) = f
<1> DEFINE s == f \o <<x>>
<1>1. <<x>> \in Seq(Token) /\ Len(<<x>>) = 1 /\ <<x>>[1] = x /\ Len(f) \in Nat
  BY Singles, Lengths
<1>2. /\ s \in Seq(Token) /\ Len(s) = Len(f) + 1
      /\ \A i \in 1 .. Len(f) + 1 : s[i] = IF i <= Len(f) THEN f[i] ELSE <<x>>[i - Len(f)]
  BY <1>1, Cat
<1> HIDE DEF s
<1>3. s[Len(s)] = x
  <2>1. Len(f) + 1 \in 1 .. Len(f) + 1 /\ ~(Len(f) + 1 <= Len(f)) /\ Len(f) + 1 - Len(f) = 1
    BY <1>1
  <2> QED BY <1>1, <1>2, <2>1
<1>4. \A i \in 1 .. Len(f) : s[i] = f[i] /\ s[i] \in Token
  <2> TAKE i \in 1 .. Len(f)
  <2>1. i \in 1 .. Len(f) + 1 /\ i <= Len(f)
    BY <1>1
  <2> QED BY <1>2, <2>1, Lengths
<1> DEFINE g == SubSeq(s, 1, Len(f))
<1>5. /\ g \in Seq(Token) /\ Len(g) = IF 1 <= Len(f) THEN Len(f) - 1 + 1 ELSE 0
      /\ \A i \in 1 .. Len(f) - 1 + 1 : g[i] = s[1 + i - 1]
  BY <1>1, <1>4, SubSeqProperties
<1> HIDE DEF g
<1>6. Len(g) = Len(f) /\ \A i \in 1 .. Len(g) : g[i] = f[i]
  BY <1>1, <1>4, <1>5
<1>7. g = f
  BY <1>5, <1>6, SeqEqual
<1>8. Len(s) - 1 = Len(f)
  BY <1>1, <1>2
<1> QED BY <1>2, <1>3, <1>7, <1>8 DEF Last, Front, g, s

(* Another way of putting texts together, and the parentheses moved. *)
Join(u, w) == u \o w

(* Joined, for the operator that the provers do not open. *)
LEMMA Joins ==
  ASSUME NEW a \in Seq(Token), NEW u \in Seq(Token), NEW w \in Seq(Token)
  PROVE  Join(a, u) \in Seq(Token) /\ Join(Join(a, u), w) = Join(a, Join(u, w))
BY Joined DEF Join

Regroups(a, o, v, b, d) ==
  /\ a \o (o \o (v \o d)) = (a \o (o \o v)) \o d
  /\ (a \o (o \o v)) \o (b \o d) = a \o (o \o ((v \o b) \o d))
  /\ a \o (o \o v) \in Seq(Token) /\ v \o b \in Seq(Token)
  /\ o \o ((v \o b) \o d) \in Seq(Token)

(* The two ways the text of a value is put together come to the same. *)
LEMMA Regrouped ==
  ASSUME NEW a \in Seq(Token), NEW o \in Seq(Token), NEW v \in Seq(Token), NEW b \in Seq(Token), NEW d \in Seq(Token)
  PROVE  Regroups(a, o, v, b, d)
<1>1. /\ Join(a, Join(o, Join(v, d))) = Join(Join(a, Join(o, v)), d)
      /\ Join(Join(a, Join(o, v)), Join(b, d)) = Join(a, Join(o, Join(Join(v, b), d)))
  BY Joins
<1>2. Join(a, Join(o, v)) \in Seq(Token) /\ Join(v, b) \in Seq(Token) /\ Join(o, Join(Join(v, b), d)) \in Seq(Token)
  BY Joins
<1> QED BY <1>1, <1>2 DEF Join, Regroups

(* What is between the brackets is closed. *)
Closes(e, r, V, n, opening, closing) ==
  \E w \in Seq(Token) : Writes(e, r, w) /\ Steady(e, r) /\ Bracketed(V, n, opening, closing, w)

(* The bracket takes back the comma behind the last part, if there is one. *)
LEMMA CloseWrites ==
  ASSUME NEW lay \in [tab : Nat, newline : Nat], NEW e \in Encoder, NEW s \in Encoder, ~s.err, s.indent = e.indent + 1,
         NEW opening \in {BeginArray, BeginObject}, NEW closing \in {EndArray, EndObject},
         NEW u \in Seq(Token), Writes(e, s, <<opening>> \o u),
         NEW n \in Nat, NEW V, Behind(V, n, u),
         NEW r, r = encode_close(lay, s, closing)
  PROVE  Closes(e, r, V, n, opening, closing)
<1>1. PICK a \in Seq(Token), m \in Nat : a = e.buffer /\ m = e.indent
  BY DEF Encoder
<1>2. s.indent = m + 1 /\ Writes(e, s, <<opening>> \o u)
  BY <1>1
<1>3. opening \in Token /\ closing \in Token /\ Comma \in Token /\ opening # Comma
  BY MarkIs, Differ
<1>4. <<opening>> \in Seq(Token) /\ <<closing>> \in Seq(Token) /\ <<Comma>> \in Seq(Token)
  BY <1>3, Singles
<1>5. s \in [buffer : Seq(Token), indent : Nat, err : BOOLEAN] /\ m + 1 - 1 = m
  BY DEF Encoder
<1>6. ASSUME NEW s1 \in Encoder, s1.indent = m + 1, ~s1.err
      PROVE  /\ indented(s1, -1) \in Encoder /\ indented(s1, -1).buffer = s1.buffer
             /\ indented(s1, -1).indent = m /\ ~indented(s1, -1).err
  <2>1. s1 \in [buffer : Seq(Token), indent : Nat, err : BOOLEAN] /\ m + 1 + -1 = m
    BY <1>6 DEF Encoder
  <2>2. indented(s1, -1) = [s1 EXCEPT !.indent = m]
    BY <1>6, <2>1 DEF indented
  <2> QED BY <1>6, <2>1, <2>2 DEF Encoder
<1>7. CASE n = 0
  <2>1. u = <<>>
    BY <1>7 DEF Behind
  <2>2. <<opening>> \o u = <<opening>>
    BY <1>4, <2>1, ConcatEmptySeq
  <2>3. s.buffer = a \o <<opening>>
    BY <1>1, <1>2, <2>2 DEF Writes
  <2>4. Last(s.buffer) = opening
    BY <1>3, <2>3, LastFront
  <2> DEFINE s1 == indented(s, -1)
  <2>5. r = push(s1, closing)
    BY <1>3, <2>4 DEF encode_close
  <2>6. s1 \in Encoder /\ s1.buffer = s.buffer /\ s1.indent = m /\ ~s1.err
    BY <1>6, <1>2
  <2> HIDE DEF s1
  <2>7. Writes(s1, r, <<closing>>) /\ r.indent = s1.indent /\ r.err = s1.err
    BY <1>3, <2>5, <2>6, PushWrites
  <2>8. (a \o <<opening>>) \o <<closing>> = a \o (<<opening>> \o <<closing>>)
    BY <1>4, Joined
  <2>9. <<opening>> \o <<closing>> \in Seq(Token)
    BY <1>4, Joined
  <2>10. <<>> \in Seq(Token) /\ <<>> \o <<closing>> = <<closing>>
    BY <1>4, EmptySeq, ConcatEmptySeq
  <2>11. Within(V, n, <<>>)
    BY <1>7 DEF Within
  <2>12. Bracketed(V, n, opening, closing, <<opening>> \o <<closing>>)
    BY <2>10, <2>11 DEF Bracketed
  <2>13. r \in Encoder /\ r.buffer = a \o (<<opening>> \o <<closing>>)
    BY <2>3, <2>6, <2>7, <2>8 DEF Writes
  <2> QED BY <1>1, <2>6, <2>7, <2>9, <2>12, <2>13 DEF Closes, Writes, Steady
<1>8. CASE n # 0
  <2>1. PICK v \in Seq(Token) : <<n, v>> \in V /\ u = v \o <<Comma>>
    BY <1>8 DEF Behind
  <2>2. PICK f \in Seq(Token) : f = a \o (<<opening>> \o v)
    <3>1. Regroups(a, <<opening>>, v, v, <<Comma>>)
      BY <1>4, Regrouped
    <3> QED BY <3>1 DEF Regroups
  <2>3. a \o (<<opening>> \o u) = f \o <<Comma>>
    <3>1. Regroups(a, <<opening>>, v, v, <<Comma>>)
      BY <1>4, Regrouped
    <3> QED BY <2>1, <2>2, <3>1 DEF Regroups
  <2>4. s.buffer = f \o <<Comma>>
    BY <1>1, <1>2, <2>3 DEF Writes
  <2>5. Last(s.buffer) = Comma /\ Front(s.buffer) = f
    BY <1>3, <2>4, LastFront
  <2> DEFINE s1 == [s EXCEPT !.buffer = f]
             s2 == indented(s1, -1)
             s3 == encode_newline(lay, s2)
  <2>6. r = push(s3, closing)
    BY <2>5 DEF encode_close
  <2>7. s1 \in Encoder /\ s1.buffer = f /\ s1.indent = m + 1 /\ ~s1.err
    BY <1>5, <1>2, <2>2 DEF Encoder
  <2> HIDE DEF s1
  <2>8. s2 \in Encoder /\ s2.buffer = f /\ s2.indent = m /\ ~s2.err
    BY <1>6, <2>7
  <2> HIDE DEF s2
  <2>9. PICK b \in Whites : Writes(s2, s3, b) /\ s3.indent = s2.indent /\ s3.err = s2.err
    BY <2>8, NewlineWrites
  <2> HIDE DEF s3
  <2>10. b \in Seq(Token) /\ s3 \in Encoder
    BY <2>9 DEF Writes
  <2>11. Writes(s3, r, <<closing>>) /\ r.indent = s3.indent /\ r.err = s3.err
    BY <1>3, <2>6, <2>10, PushWrites
  <2>12. Writes(s2, r, b \o <<closing>>)
    BY <2>8, <2>9, <2>11, WritesMore
  <2>13. /\ (a \o (<<opening>> \o v)) \o (b \o <<closing>>) = a \o (<<opening>> \o ((v \o b) \o <<closing>>))
          /\ v \o b \in Seq(Token) /\ <<opening>> \o ((v \o b) \o <<closing>>) \in Seq(Token)
    <3>1. Regroups(a, <<opening>>, v, b, <<closing>>)
      BY <1>4, <2>10, Regrouped
    <3> QED BY ONLY <3>1 DEF Regroups
  <2>14. PICK z \in Seq(Token) : z = v \o b
    BY <2>13
  <2>15. PICK w \in Seq(Token) : w = <<opening>> \o (z \o <<closing>>) /\ f \o (b \o <<closing>>) = a \o w
    BY <2>2, <2>13, <2>14
  <2>16. r.buffer = a \o w /\ r \in Encoder
    BY <2>8, <2>12, <2>15 DEF Writes
  <2>17. Within(V, n, z)
    BY <1>8, <2>1, <2>9, <2>14 DEF Within
  <2>18. Bracketed(V, n, opening, closing, w)
    BY <2>15, <2>17 DEF Bracketed
  <2>19. Writes(e, r, w) /\ Steady(e, r)
    BY <1>1, <2>8, <2>9, <2>11, <2>15, <2>16 DEF Writes, Steady
  <2> QED BY <2>15, <2>18, <2>19 DEF Closes
<1> QED BY <1>7, <1>8

Opening(kind) == IF kind = "array" THEN BeginArray ELSE BeginObject

(* encode_brackets() writes a text of the parts, between brackets. *)
LEMMA BracketsWrite ==
  ASSUME NEW lay \in [tab : Nat, newline : Nat], NEW deeper, NEW P, Keyed(P), NEW T, Makes(deeper, P, T), KeyTexts(T),
         NEW kind \in {"array", "table"}, NEW x \in Made(kind, P), NEW V, Chains(V, T, x),
         NEW e \in Encoder, ~e.err,
         NEW r, r = encode_brackets(lay, deeper, e, x, Opening(kind), Ends(kind))
  PROVE  \E w \in Seq(Token) :
           /\ Writes(e, r, w)
           /\ ~r.err => Steady(e, r) /\ Bracketed(V, Len(Parts(x)), Opening(kind), Ends(kind), w)
<1> DEFINE opening == Opening(kind)
           closing == Ends(kind)
           n  == Len(Parts(x))
           e1 == push(e, opening)
           s  == encode_parts(lay, deeper, e1, x)
<1>1. opening \in {BeginArray, BeginObject} /\ closing \in {EndArray, EndObject} /\ n \in Nat
  BY PartsAre DEF Opening, Ends
<1>2. r = encode_close(lay, s, closing)
  BY DEF encode_brackets
<1> HIDE DEF opening, closing
<1>3. opening \in Token
  BY <1>1, MarkIs
<1>4. Writes(e, e1, <<opening>>) /\ e1.indent = e.indent /\ e1.err = e.err
  BY <1>3, PushWrites
<1>5. e1 \in Encoder /\ ~e1.err
  BY <1>4 DEF Writes
<1> HIDE DEF e1, n
<1>6. PICK u : Writes(e1, s, u) /\ (~s.err => s.indent = e1.indent + 1 /\ Behind(V, n, u))
  BY <1>5, PartsWrite DEF n
<1> HIDE DEF s
<1>7. s \in Encoder /\ u \in Seq(Token) /\ Writes(e, s, <<opening>> \o u)
  <2>1. s \in Encoder /\ u \in Seq(Token)
    BY <1>6 DEF Writes
  <2> QED BY <1>4, <1>6, <2>1, WritesMore
<1>8. CASE s.err
  <2>1. r = s
    BY <1>2, <1>8 DEF encode_close
  <2>2. <<opening>> \o u \in Seq(Token)
    BY <1>7 DEF Writes
  <2> QED BY <1>7, <1>8, <2>1, <2>2
<1>9. CASE ~s.err
  <2>1. s.indent = e.indent + 1 /\ Behind(V, n, u)
    BY <1>4, <1>6, <1>9
  <2>2. Closes(e, r, V, n, opening, closing)
    BY <1>1, <1>2, <1>7, <1>9, <2>1, CloseWrites
  <2> QED BY <1>9, <2>2 DEF Closes, Steady, opening, closing, n
<1> QED BY <1>8, <1>9

-----------------------------------------------------------------------------
(* What encode_one() writes.                                               *)

Leaf(x) == IF x = Nil THEN <<Null>> ELSE IF x[1] \in Bytes THEN <<<<"string", x[2]>>>> ELSE <<x>>

(* T has the texts of the values that are nested n deep, if S has those of *)
(* their parts.                                                            *)
Grows(S, T, n) ==
  /\ KeyTexts(T)
  /\ \A x \in Key \cup {Nil} : x[1] # "function" => <<x, Leaf(x)>> \in T
  /\ \A kind \in {"array", "table"} : \A x \in Made(kind, Parted(n)) :
       \E V : /\ Chains(V, S, x)
              /\ \A w \in Seq(Token) : Bracketed(V, Len(Parts(x)), Opening(kind), Ends(kind), w) => <<x, w>> \in T

Writ(e, r, x, T) ==
  \E w \in Seq(Token) : Writes(e, r, w) /\ (~r.err => Steady(e, r) /\ <<x, w>> \in T)

(* An atom is nil, a byte sequence, another token or a function. *)
LEMMA KeyIs ==
  ASSUME NEW x \in Key \cup {Nil}
  PROVE  \/ x = Nil /\ x[1] = "nil"
         \/ x[1] \in Bytes /\ <<"string", x[2]>> \in Token /\ x # Nil
         \/ x[1] \in Atoms /\ x[1] \notin Bytes /\ x \in Token /\ x # Nil
         \/ x[1] = "function" /\ x[1] \notin Bytes /\ x[1] \notin Atoms /\ x # Nil
<1>1. CASE x \in Named(Bytes)
  <2>1. x[1] \in Bytes /\ x[2] \in Name
    BY <1>1 DEF Named
  <2>2. <<"string", x[2]>> \in Token
    BY <2>1 DEF Token, Named
  <2>3. Nil[1] \notin Bytes
    BY Toks DEF Nil, Bytes
  <2> QED BY <2>1, <2>2, <2>3
<1>2. CASE x = Nil
  BY <1>2, Toks DEF Nil
<1>3. CASE x \in {Tok("number"), Tok("true"), Tok("false")}
  <2>1. x \in Token
    BY <1>3 DEF Token
  <2>2. x[1] \in Atoms /\ x[1] \notin Bytes /\ x # Nil
    BY <1>3, Toks DEF Atoms, Bytes, Nil
  <2> QED BY <2>1, <2>2
<1>4. CASE x = Tok("function")
  BY <1>4, Toks DEF Atoms, Bytes, Nil
<1> QED BY <1>1, <1>2, <1>3, <1>4 DEF Key

(* Keys are values of every depth. *)
LEMMA PartedKeyed == ASSUME NEW n \in 0 .. Deep PROVE Keyed(Parted(n))
<1>1. n # 0 => n - 1 \in 0 .. Deep
  BY JsonAssumption DEF JsonAssumption
<1>2. n # 0 => Key \subseteq Value(n - 1)
  BY <1>1, ValueIs
<1> QED BY <1>2 DEF Keyed, Parted

(* encode_type() writes a text of its value, *)
LEMMA TypeWrites ==
  ASSUME NEW lay \in [tab : Nat, newline : Nat], NEW n \in 0 .. Deep, NEW S, KeyTexts(S), NEW T, Grows(S, T, n),
         NEW deeper, Makes(deeper, Parted(n), S), NEW x \in Value(n),
         NEW e \in Encoder, ~e.err, NEW r, r = encode_type(lay, deeper, e, x)
  PROVE  Writ(e, r, x, T)
<1>1. r = IF x[1] = "nil" THEN push(e, Null)
          ELSE IF x[1] \in Bytes THEN push(e, <<"string", x[2]>>)
          ELSE IF x[1] \in Atoms THEN push(e, x)
          ELSE IF x[1] = "array" THEN encode_brackets(lay, deeper, e, x, BeginArray, EndArray)
          ELSE IF x[1] = "table" THEN encode_brackets(lay, deeper, e, x, BeginObject, EndObject)
          ELSE cannot(e)
  BY DEF encode_type
<1>2. "nil" \notin Bytes \cup Atoms \cup {"array", "table", "function"} /\ "array" \notin Bytes \cup Atoms
      /\ "table" \notin Bytes \cup Atoms /\ "function" \notin Bytes \cup Atoms
  BY DEF Bytes, Atoms
<1>3. ASSUME NEW tok \in Token, r = push(e, tok), <<x, <<tok>>>> \in T PROVE Writ(e, r, x, T)
  <2>1. Writes(e, r, <<tok>>) /\ r.indent = e.indent /\ r.err = e.err /\ <<tok>> \in Seq(Token)
    BY <1>3, PushWrites, Singles
  <2> QED BY <1>3, <2>1 DEF Writ, Steady
<1>4. CASE x \in Key \cup {Nil}
  <2>1. x[1] # "function" => <<x, Leaf(x)>> \in T
    BY <1>4 DEF Grows
  <2>2. CASE x = Nil /\ x[1] = "nil"
    <3>1. r = push(e, Null)
      BY <1>1, <2>2
    <3>2. <<x, <<Null>>>> \in T
      BY <2>1, <2>2 DEF Leaf
    <3> QED BY <1>3, <3>1, <3>2, MarkIs
  <2>3. CASE x[1] \in Bytes /\ <<"string", x[2]>> \in Token /\ x # Nil
    <3>1. r = push(e, <<"string", x[2]>>)
      BY <1>1, <1>2, <2>3
    <3>2. <<x, <<<<"string", x[2]>>>>>> \in T
      BY <1>2, <2>1, <2>3 DEF Leaf
    <3> QED BY <1>3, <2>3, <3>1, <3>2
  <2>4. CASE x[1] \in Atoms /\ x[1] \notin Bytes /\ x \in Token /\ x # Nil
    <3>1. r = push(e, x)
      BY <1>1, <1>2, <2>4
    <3>2. <<x, <<x>>>> \in T
      BY <1>2, <2>1, <2>4 DEF Leaf
    <3> QED BY <1>3, <2>4, <3>1, <3>2
  <2>5. CASE x[1] = "function" /\ x[1] \notin Bytes /\ x[1] \notin Atoms /\ x # Nil
    <3>1. r = [e EXCEPT !.err = TRUE]
      BY <1>1, <1>2, <2>5 DEF cannot
    <3>2. r \in Encoder /\ r.buffer = e.buffer /\ r.err /\ e.buffer \in Seq(Token)
      BY <3>1 DEF Encoder
    <3>3. <<>> \in Seq(Token) /\ e.buffer \o <<>> = e.buffer
      BY <3>2, ConcatEmptySeq, EmptySeq
    <3>4. Writes(e, r, <<>>)
      BY <3>2, <3>3 DEF Writes
    <3> QED BY <3>2, <3>3, <3>4 DEF Writ
  <2> QED BY <1>4, <2>2, <2>3, <2>4, <2>5, KeyIs
<1>5. Keyed(Parted(n))
  BY PartedKeyed
<1>6. ASSUME NEW kind \in {"array", "table"}, x \in Made(kind, Parted(n)),
             r = encode_brackets(lay, deeper, e, x, Opening(kind), Ends(kind))
      PROVE  Writ(e, r, x, T)
  <2>1. PICK V : /\ Chains(V, S, x)
                 /\ \A w \in Seq(Token) : Bracketed(V, Len(Parts(x)), Opening(kind), Ends(kind), w) => <<x, w>> \in T
    BY <1>6 DEF Grows
  <2>2. PICK w \in Seq(Token) :
           /\ Writes(e, r, w)
           /\ ~r.err => Steady(e, r) /\ Bracketed(V, Len(Parts(x)), Opening(kind), Ends(kind), w)
    BY <1>5, <1>6, <2>1, BracketsWrite
  <2> QED BY <2>1, <2>2 DEF Writ
<1>7. CASE x \in Made("array", Parted(n))
  <2>1. x[1] = "array"
    BY <1>7 DEF Made
  <2>2. r = encode_brackets(lay, deeper, e, x, Opening("array"), Ends("array"))
    BY <1>1, <1>2, <2>1 DEF Opening, Ends
  <2> QED BY <1>6, <1>7, <2>2
<1>8. CASE x \in Made("table", Parted(n))
  <2>1. x[1] = "table"
    BY <1>8 DEF Made
  <2>2. r = encode_brackets(lay, deeper, e, x, Opening("table"), Ends("table"))
    BY <1>1, <1>2, <2>1 DEF Opening, Ends
  <2> QED BY <1>6, <1>8, <2>2
<1> QED BY <1>4, <1>7, <1>8, ValueIs

(* The texts of the parts of the values nested n deep. *)
LevelBelow(TT, n) == IF n = 0 THEN {} ELSE TT[n - 1]

(* and by induction on the depth encode_one() does. *)
LEMMA OneWrites ==
  ASSUME NEW TT, \A n \in 0 .. Deep : Grows(LevelBelow(TT, n), TT[n], n),
         NEW lay \in [tab : Nat, newline : Nat], NEW m \in 0 .. Deep
  PROVE  Makes(encode_one(lay)[m], Value(m), TT[m])
<1> DEFINE one == encode_one(lay)
           P == {n \in Nat : n <= Deep => Makes(one[n], Value(n), TT[n])}
<1>1. Deep \in Nat
  BY JsonAssumption DEF JsonAssumption
<1>2. ASSUME NEW n \in 0 .. Deep, NEW deeper, deeper = IF n = 0 THEN <<>> ELSE one[n - 1],
             Makes(deeper, Parted(n), LevelBelow(TT, n)), KeyTexts(LevelBelow(TT, n))
      PROVE  Makes(one[n], Value(n), TT[n])
  <2> SUFFICES ASSUME NEW x \in Value(n), NEW e \in Encoder, ~e.err
               PROVE  \E w \in Seq(Token) :
                        Writes(e, one[n][x][e], w) /\ (~one[n][x][e].err => Steady(e, one[n][x][e]) /\ <<x, w>> \in TT[n])
    BY DEF Makes
  <2> DEFINE G(i, d, y) == encode_type(lay, IF i = 0 THEN <<>> ELSE one[i - 1], d, y)
             F(i) == [y \in Value(i) |-> [d \in Encoder |-> G(i, d, y)]]
  <2>1. one = [i \in 0 .. Deep |-> F(i)]
    BY EncodeIs
  <2>2. one[n][x][e] = encode_type(lay, deeper, e, x)
    <3>1. G(n, e, x) = encode_type(lay, deeper, e, x)
      BY <1>2
    <3> HIDE DEF one, G
    <3>2. F(n)[x][e] = G(n, e, x)
      OBVIOUS
    <3> HIDE DEF F
    <3>3. one[n] = F(n)
      BY <2>1
    <3> QED BY <3>1, <3>2, <3>3
  <2> HIDE DEF one
  <2>3. Grows(LevelBelow(TT, n), TT[n], n)
    OBVIOUS
  <2>4. Writ(e, one[n][x][e], x, TT[n])
    BY <1>2, <2>2, <2>3, TypeWrites
  <2> QED BY <2>4 DEF Writ
<1>3. 0 \in P
  <2>1. Parted(0) = {} /\ LevelBelow(TT, 0) = {}
    BY DEF Parted, LevelBelow
  <2>2. KeyTexts({}) /\ \A deeper : Makes(deeper, {}, {})
    BY DEF KeyTexts, Makes
  <2>3. PICK deeper : deeper = <<>>
    OBVIOUS
  <2>4. 0 \in 0 .. Deep /\ deeper = IF 0 = 0 THEN <<>> ELSE one[0 - 1]
    BY <1>1, <2>3
  <2> HIDE DEF one
  <2>5. Makes(one[0], Value(0), TT[0])
    BY <1>2, <2>1, <2>2, <2>4
  <2> QED BY <2>5
<1>4. ASSUME NEW n \in Nat, n \in P PROVE n + 1 \in P
  <2> SUFFICES ASSUME n + 1 <= Deep PROVE Makes(one[n + 1], Value(n + 1), TT[n + 1])
    OBVIOUS
  <2>1. PICK k \in 0 .. Deep : k = n + 1 /\ k # 0 /\ k - 1 = n
    BY <1>1
  <2>2. Parted(k) = Value(n) /\ LevelBelow(TT, k) = TT[n]
    BY <2>1 DEF Parted, LevelBelow
  <2>3. n \in 0 .. Deep /\ Makes(one[n], Value(n), TT[n])
    BY <1>1, <1>4
  <2>4. KeyTexts(TT[n])
    BY <2>3 DEF Grows
  <2> HIDE DEF one, P
  <2>5. Makes(one[k], Value(k), TT[k])
    BY <1>2, <2>1, <2>2, <2>3, <2>4
  <2> QED BY <2>1, <2>5
<1> HIDE DEF P
<1>5. m \in P
  BY <1>3, <1>4, NatInd
<1> QED BY <1>1, <1>5 DEF P

-----------------------------------------------------------------------------
(* What is written is JSON, wherever it stands.                            *)

JsonBelow(t, n) == IF n = 0 THEN {} ELSE StrictJson(t)[n - 1]

StrictBody(t, i, j, S) == Blank(t, i, j) \/ Listed(t, i, j, S)

Splits(z, u, w) == z = u \o w

(* HoldsJoin, for a text that is only known to split. *)
LEMMA HoldsOf ==
  ASSUME NEW t \in Seq(Token), NEW u \in Seq(Token), NEW w \in Seq(Token), NEW z, Splits(z, u, w), NEW i, Holds(t, i, z)
  PROVE  /\ Holds(t, i, u) /\ Holds(t, i + Len(u), w) /\ i + Len(z) = i + Len(u) + Len(w)
         /\ i \in Nat /\ Len(u) \in Nat /\ Len(w) \in Nat
BY HoldsJoin, Lengths DEF Splits

(* The same, if its first part is a token. *)
LEMMA HoldsFirst ==
  ASSUME NEW t \in Seq(Token), NEW x \in Token, NEW u \in Seq(Token), NEW z, Splits(z, <<x>>, u), NEW i, Holds(t, i, z)
  PROVE  /\ i \in 1 .. Len(t) /\ i \in Places(t) /\ i + 1 \in Places(t) /\ t[i] = x /\ At(t, i) = x
         /\ Holds(t, i + 1, u) /\ i + Len(z) = i + 1 + Len(u) /\ i \in Nat /\ Len(u) \in Nat
<1>1. PICK f \in Seq(Token) : f = <<x>> /\ Splits(z, f, u)
  BY Singles
<1>2. Holds(t, i, f) /\ Holds(t, i + Len(f), u) /\ i + Len(z) = i + Len(f) + Len(u) /\ i \in Nat /\ Len(u) \in Nat
  <2>1. Splits(z, f, u)
    BY <1>1
  <2> QED BY <2>1, HoldsOf
<1>3. Len(f) = 1 /\ Holds(t, i, <<x>>)
  BY <1>1, <1>2, Singles
<1>4. i \in 1 .. Len(t) /\ i \in Places(t) /\ i + 1 \in Places(t) /\ t[i] = x /\ At(t, i) = x
  BY <1>3, HoldsOne
<1> QED BY <1>2, <1>3, <1>4

(* The values of the grammar at a depth, by those one level less deep, *)
LEMMA StrictIs ==
  ASSUME NEW t, NEW n \in 0 .. Deep
  PROVE  StrictJson(t)[n] = StrictOver(t, JsonBelow(t, n))
<1> DEFINE F(i) == StrictOver(t, IF i = 0 THEN {} ELSE StrictJson(t)[i - 1])
<1>1. StrictJson(t) = [i \in 0 .. Deep |-> F(i)]
  BY StrictJsonIs
<1>2. F(n) = StrictOver(t, JsonBelow(t, n))
  BY DEF JsonBelow
<1> HIDE DEF F
<1> QED BY <1>1, <1>2

(* by their parts. *)
LEMMA StrictAre ==
  ASSUME NEW t, NEW S, NEW k, NEW l
  PROVE  <<k, l>> \in StrictOver(t, S) <=>
           /\ k \in Places(t) /\ l \in Places(t)
           /\ \/ l = k + 1 /\ t[k][1] \in Atoms
              \/ l > k + 1 /\ t[k] = BeginArray /\ t[l - 1] = EndArray /\ StrictBody(t, k + 1, l - 1, S)
              \/ /\ l > k + 1 /\ t[k] = BeginObject /\ t[l - 1] = EndObject
                 /\ StrictBody(t, k + 1, l - 1, Members(t, S))
BY DEF StrictOver, JsonOver, StrictBody, Body

(* They begin with a token that may begin one. *)
LEMMA StrictStretch ==
  ASSUME NEW t \in Seq(Token), NEW n \in 0 .. Deep
  PROVE  Stretches(t, JsonBelow(t, n))
<1>1. Len(t) \in Nat
  BY Lengths
<1>2. CASE n = 0
  BY <1>2 DEF JsonBelow, Stretches
<1>3. CASE n # 0
  <2>1. PICK m \in 0 .. Deep : m = n - 1
    BY <1>3, JsonAssumption DEF JsonAssumption
  <2>2. JsonBelow(t, n) = StrictOver(t, JsonBelow(t, m))
    BY <1>3, <2>1, StrictIs DEF JsonBelow
  <2>3. ASSUME NEW k, NEW l, <<k, l>> \in StrictOver(t, JsonBelow(t, m))
        PROVE  /\ k \in 1 .. Len(t) /\ l \in k + 1 .. Len(t) + 1
               /\ t[k][1] \in Atoms \/ t[k] \in {BeginArray, BeginObject}
    <3>1. /\ k \in Places(t) /\ l \in Places(t) /\ (l = k + 1 \/ l > k + 1)
          /\ t[k][1] \in Atoms \/ t[k] = BeginArray \/ t[k] = BeginObject
      BY <2>3, StrictAre
    <3> QED BY <1>1, <3>1 DEF Places
  <2> QED BY <2>2, <2>3 DEF Stretches
<1> QED BY <1>2, <1>3

InJson(n, w) ==
  \A t \in Seq(Token) : \A i : Holds(t, i, w) => <<i, i + Len(w)>> \in StrictJson(t)[n]

(* The texts of a part, and of a list of parts, of a value nested n deep.  *)
PartText(n, kind, w) ==
  \A t \in Seq(Token) : \A i : Holds(t, i, w) => <<i, i + Len(w)>> \in PartsOf(t, JsonBelow(t, n), kind)

ListText(n, kind, v) ==
  \A t \in Seq(Token) : \A i, q :
    Holds(t, i, v) /\ q \in Places(t) /\ i + Len(v) <= q /\ Blank(t, i + Len(v), q)
      => Listed(t, i, q, PartsOf(t, JsonBelow(t, n), kind))

JsonTexts(n) ==
  {z \in Value(Deep) \X Seq(Token) :
     InJson(n, z[2]) /\ (z[1][1] \in Bytes => z[2] = <<<<"string", z[1][2]>>>>)}

(* An atom is JSON. *)
LEMMA AtomText ==
  ASSUME NEW n \in 0 .. Deep, NEW x \in Token, x[1] \in Atoms
  PROVE  InJson(n, <<x>>)
<1> SUFFICES ASSUME NEW t \in Seq(Token), NEW i, Holds(t, i, <<x>>)
             PROVE  <<i, i + Len(<<x>>)>> \in StrictJson(t)[n]
  BY DEF InJson
<1>1. i \in Places(t) /\ i + 1 \in Places(t) /\ Len(<<x>>) = 1 /\ t[i] = x
  BY HoldsOne
<1>2. <<i, i + 1>> \in StrictOver(t, JsonBelow(t, n))
  BY <1>1, StrictAre
<1> QED BY <1>1, <1>2, StrictIs

(* A part of a value, or a list of them, with white space before it. *)
LEMMA PartSpaced ==
  ASSUME NEW n \in 0 .. Deep, NEW kind \in {"array", "table"}, NEW w \in Seq(Token), PartText(n, kind, w),
         NEW b \in Whites, NEW t \in Seq(Token), NEW i, NEW u, Splits(u, b, w), Holds(t, i, u),
         NEW q \in Places(t), i + Len(u) <= q, Blank(t, i + Len(u), q)
  PROVE  Spaced(t, i, q, PartsOf(t, JsonBelow(t, n), kind)) /\ i \in Nat /\ q \in Nat /\ i <= q
<1> DEFINE S == PartsOf(t, JsonBelow(t, n), kind)
<1>1. b \in Seq(Token) /\ Len(b) \in Nat /\ Len(w) \in Nat /\ q \in Nat /\ Len(t) \in Nat
  BY Lengths DEF Whites, Places
<1>2. Holds(t, i, b) /\ Holds(t, i + Len(b), w) /\ i + Len(u) = i + Len(b) + Len(w) /\ i \in Nat
  BY <1>1, HoldsOf
<1>3. <<i + Len(b), i + Len(b) + Len(w)>> \in S
  BY <1>2 DEF PartText
<1>4. Stretches(t, S)
  BY StrictStretch, MembersStretch DEF PartsOf
<1> HIDE DEF S
<1>5. PICK k \in Nat, l \in Nat : k = i + Len(b) /\ l = i + Len(b) + Len(w)
  BY <1>1, <1>2
<1>6. k < l
  <2>1. <<k, l>> \in S
    BY <1>3, <1>5
  <2>2. k \in 1 .. Len(t) /\ l \in k + 1 .. Len(t) + 1
    BY <1>4, <2>1 DEF Stretches
  <2> QED BY <1>1, <1>5, <2>2
<1>7. Blank(t, i, k) /\ Blank(t, l, q) /\ i <= k /\ l <= q
  BY <1>1, <1>2, <1>5, HoldsWhite
<1>8. Spaced(t, i, q, S)
  BY <1>1, <1>2, <1>3, <1>5, <1>6, <1>7, SpacedBy
<1> QED BY <1>1, <1>2, <1>5, <1>7, <1>8 DEF S

(* A part is a list of one, *)
LEMMA ListText1 ==
  ASSUME NEW n \in 0 .. Deep, NEW kind \in {"array", "table"}, NEW w \in Seq(Token), PartText(n, kind, w),
         NEW b \in Whites
  PROVE  ListText(n, kind, b \o w)
<1> DEFINE u == b \o w
<1> SUFFICES ASSUME NEW t \in Seq(Token), NEW i, NEW q, Holds(t, i, u), q \in Places(t),
                    i + Len(u) <= q, Blank(t, i + Len(u), q)
             PROVE  Listed(t, i, q, PartsOf(t, JsonBelow(t, n), kind))
  BY DEF ListText
<1>1. Splits(u, b, w)
  BY DEF Splits
<1> HIDE DEF u
<1>2. Spaced(t, i, q, PartsOf(t, JsonBelow(t, n), kind)) /\ i \in Nat /\ q \in Nat /\ i <= q
  BY <1>1, PartSpaced
<1> QED BY <1>2, ListedOne

(* and a list with a comma and a part behind it is a list. *)
LEMMA ListText2 ==
  ASSUME NEW n \in 0 .. Deep, NEW kind \in {"array", "table"}, NEW w \in Seq(Token), PartText(n, kind, w),
         NEW b \in Whites, NEW v \in Seq(Token), ListText(n, kind, v)
  PROVE  ListText(n, kind, v \o (<<Comma>> \o (b \o w)))
<1> DEFINE u == b \o w
           cu == <<Comma>> \o u
           x == v \o cu
<1> SUFFICES ASSUME NEW t \in Seq(Token), NEW i, NEW q, Holds(t, i, x), q \in Places(t),
                    i + Len(x) <= q, Blank(t, i + Len(x), q)
             PROVE  Listed(t, i, q, PartsOf(t, JsonBelow(t, n), kind))
  BY DEF ListText
<1>1. Comma \in Token /\ b \in Seq(Token)
  BY MarkIs DEF Whites
<1>2. Splits(u, b, w) /\ u \in Seq(Token)
  BY <1>1, Joined DEF Splits
<1> HIDE DEF u
<1>3. Splits(cu, <<Comma>>, u)
  BY DEF Splits
<1>4. cu \in Seq(Token)
  <2>1. <<Comma>> \in Seq(Token)
    BY <1>1, Singles
  <2> QED BY <1>2, <2>1, Joined
<1> HIDE DEF cu
<1>5. Splits(x, v, cu)
  BY DEF Splits
<1> HIDE DEF x
<1>6. Holds(t, i, v) /\ Holds(t, i + Len(v), cu) /\ i + Len(x) = i + Len(v) + Len(cu) /\ i \in Nat /\ Len(v) \in Nat
  BY <1>4, <1>5, HoldsOf
<1>7. PICK m \in Nat : m = i + Len(v)
  BY <1>6
<1>8. Holds(t, m, cu)
  BY <1>6, <1>7
<1>9. t[m] = Comma /\ m \in Places(t) /\ Holds(t, m + 1, u) /\ m + Len(cu) = m + 1 + Len(u) /\ Len(u) \in Nat
  BY <1>1, <1>2, <1>3, <1>8, HoldsFirst, SMTT(60)
<1>10. m + 1 + Len(u) = i + Len(x) /\ i <= m
  BY <1>6, <1>7, <1>9
<1>11. Spaced(t, m + 1, q, PartsOf(t, JsonBelow(t, n), kind)) /\ q \in Nat /\ m + 1 <= q
  <2>1. PICK k : k = m + 1
    OBVIOUS
  <2>2. Holds(t, k, u) /\ k + Len(u) <= q /\ Blank(t, k + Len(u), q)
    BY <1>9, <1>10, <2>1
  <2>3. Spaced(t, k, q, PartsOf(t, JsonBelow(t, n), kind)) /\ q \in Nat /\ k <= q
    BY <1>2, <2>2, PartSpaced
  <2> QED BY <2>1, <2>3
<1>12. Listed(t, i, m, PartsOf(t, JsonBelow(t, n), kind))
  <2>1. Blank(t, m, m)
    BY DEF Blank
  <2> QED BY <1>6, <1>7, <1>9, <2>1 DEF ListText
<1> QED BY <1>6, <1>9, <1>10, <1>11, <1>12, ListedMore

(* What is in S, level for level, is JSON. *)
JsonLevels == [m \in 0 .. Deep |-> JsonTexts(m)]

(* The texts of the values one level less deep may be items, *)
LEMMA LevelsHave ==
  ASSUME NEW n \in 0 .. Deep, NEW y, NEW w, <<y, w>> \in LevelBelow(JsonLevels, n)
  PROVE  w \in Seq(Token) /\ PartText(n, "array", w)
<1>1. n # 0
  BY DEF LevelBelow
<1>2. PICK m \in 0 .. Deep : m = n - 1
  BY <1>1, JsonAssumption DEF JsonAssumption
<1>3. LevelBelow(JsonLevels, n) = JsonTexts(m)
  BY <1>1, <1>2 DEF LevelBelow, JsonLevels
<1>4. w \in Seq(Token) /\ InJson(m, w)
  BY <1>3 DEF JsonTexts
<1>5. \A t : PartsOf(t, JsonBelow(t, n), "array") = StrictJson(t)[m]
  BY <1>1, <1>2 DEF PartsOf, JsonBelow
<1> QED BY <1>4, <1>5 DEF InJson, PartText

(* with a key and a colon before them they may be members, *)
LEMMA MemberText ==
  ASSUME NEW n \in 0 .. Deep, NEW k \in Key, NEW y, NEW w, w \in MemberTexts(LevelBelow(JsonLevels, n), k, y)
  PROVE  w \in Seq(Token) /\ PartText(n, "table", w)
<1>1. PICK b \in Whites, u \in Seq(Token) :
        <<y, u>> \in LevelBelow(JsonLevels, n) /\ w = <<<<"string", k[2]>>>> \o (<<Colon>> \o (b \o u))
  BY DEF MemberTexts
<1>2. w \in Seq(Token) /\ k[1] \in Bytes
  BY DEF MemberTexts
<1>3. PICK s \in Token : s = <<"string", k[2]>> /\ s[1] = "string"
  <2>1. Nil[1] \notin Bytes
    BY Toks DEF Nil, Bytes
  <2>2. \A z \in {Tok("number"), Tok("true"), Tok("false"), Tok("function")} : z[1] \notin Bytes
    BY Toks DEF Bytes
  <2>3. k \in Named(Bytes)
    BY <1>2, <2>2 DEF Key
  <2>4. <<"string", k[2]>> \in Token
    BY <2>3 DEF Token, Named
  <2> QED BY <2>4
<1> DEFINE bu == b \o u
           cbu == <<Colon>> \o bu
<1>4. b \in Seq(Token) /\ <<Colon>> \in Seq(Token) /\ Colon \in Token
  BY MarkIs, Singles DEF Whites
<1>5. bu \in Seq(Token) /\ Splits(bu, b, u)
  BY <1>4, Joined DEF Splits
<1>6. w = <<s>> \o cbu
  BY <1>1, <1>3
<1> HIDE DEF bu
<1>7. cbu \in Seq(Token) /\ Splits(cbu, <<Colon>>, bu)
  BY <1>4, <1>5, Joined DEF Splits
<1> HIDE DEF cbu
<1>8. Splits(w, <<s>>, cbu)
  BY <1>6 DEF Splits
<1>9. PartText(n, "array", u)
  BY <1>1, LevelsHave
<1> SUFFICES ASSUME NEW t \in Seq(Token), NEW i, Holds(t, i, w)
             PROVE  <<i, i + Len(w)>> \in Members(t, JsonBelow(t, n))
  <2>1. "table" # "array"
    OBVIOUS
  <2> QED BY <1>2, <2>1 DEF PartText, PartsOf
<1>10. /\ i \in 1 .. Len(t) /\ i \in Places(t) /\ t[i] = s /\ i \in Nat
       /\ Holds(t, i + 1, cbu) /\ i + Len(w) = i + 1 + Len(cbu)
  BY <1>7, <1>8, HoldsFirst
<1>11. PICK m \in Nat : m = i + 1 /\ Holds(t, m, cbu)
  BY <1>10
<1>12. /\ m \in 1 .. Len(t) /\ t[m] = Colon /\ Holds(t, m + 1, bu) /\ m + Len(cbu) = m + 1 + Len(bu)
  BY <1>4, <1>5, <1>7, <1>11, HoldsFirst
<1>13. PICK a \in Nat : a = m + 1 /\ Holds(t, a, bu)
  BY <1>12
<1>14. Holds(t, a, b) /\ Holds(t, a + Len(b), u) /\ a + Len(bu) = a + Len(b) + Len(u) /\ Len(b) \in Nat /\ Len(u) \in Nat
  <2>1. Holds(t, a, bu)
    BY <1>13
  <2> QED BY <1>4, <1>5, <2>1, HoldsOf
<1>15. Blank(t, a, a + Len(b))
  BY <1>14, HoldsWhite
<1>16. PICK v \in Nat, l \in Nat : v = a + Len(b) /\ l = v + Len(u) /\ l = i + Len(w)
  <2>1. a + Len(b) \in Nat /\ a + Len(b) + Len(u) \in Nat /\ a + Len(b) + Len(u) = i + Len(w)
    BY <1>10, <1>11, <1>12, <1>13, <1>14
  <2> QED BY <2>1
<1>17. <<v, l>> \in JsonBelow(t, n)
  BY <1>9, <1>14, <1>16 DEF PartText, PartsOf
<1>18. v \in 1 .. Len(t) /\ l \in v + 1 .. Len(t) + 1 /\ Len(t) \in Nat
  BY <1>17, StrictStretch, Lengths DEF Stretches
<1>19. i \in Places(t) /\ l \in Places(t) /\ m \in i + 1 .. l - 1 /\ v \in m + 1 .. l
  BY <1>10, <1>11, <1>13, <1>14, <1>16, <1>18, SMTT(60) DEF Places
<1>20. Blank(t, i + 1, m) /\ Blank(t, m + 1, v) /\ t[i][1] = "string"
  <2>1. Blank(t, i + 1, m)
    BY <1>11 DEF Blank
  <2>2. Blank(t, m + 1, v)
    BY <1>13, <1>15, <1>16
  <2> QED BY <1>3, <1>10, <2>1, <2>2
<1>21. <<i, l>> \in Members(t, JsonBelow(t, n))
  BY <1>12, <1>17, <1>19, <1>20, MembersAre
<1> QED BY <1>16, <1>21

(* so the text of a part is one that may stand between brackets. *)
LEMMA PartTextIn ==
  ASSUME NEW n \in 0 .. Deep, NEW kind \in {"array", "table"}, NEW x \in Made(kind, Parted(n)),
         NEW i \in 1 .. Len(Parts(x)), NEW w, w \in PartTexts(LevelBelow(JsonLevels, n), x, i)
  PROVE  w \in Seq(Token) /\ PartText(n, kind, w)
<1>1. x[1] = kind
  BY DEF Made
<1>2. CASE kind = "array"
  <2>1. <<Parts(x)[i], w>> \in LevelBelow(JsonLevels, n)
    BY <1>1, <1>2 DEF PartTexts, ItemTexts
  <2> QED BY <1>2, <2>1, LevelsHave
<1>3. CASE kind = "table"
  <2>1. w \in MemberTexts(LevelBelow(JsonLevels, n), Parts(x)[i], x[2][Parts(x)[i]])
    BY <1>1, <1>3 DEF PartTexts
  <2>2. Parts(x)[i] \in Key
    <3>1. Keyed(Parted(n))
      BY PartedKeyed
    <3> QED BY <1>3, <3>1, PartsAre
  <2> QED BY <1>3, <2>1, <2>2, MemberText
<1> QED BY <1>2, <1>3

(* Brackets around such a list. *)
LEMMA BracketText ==
  ASSUME NEW n \in 0 .. Deep, NEW kind \in {"array", "table"}, NEW j, NEW V, \A z \in V : ListText(n, kind, z[2]),
         NEW w \in Seq(Token), Bracketed(V, j, Opening(kind), Ends(kind), w)
  PROVE  InJson(n, w)
<1>1. PICK v \in Seq(Token) : Within(V, j, v) /\ w = <<Opening(kind)>> \o (v \o <<Ends(kind)>>)
  BY DEF Bracketed
<1>2. PICK opening \in Token, closing \in Token : opening = Opening(kind) /\ closing = Ends(kind)
  BY MarkIs DEF Opening, Ends
<1> DEFINE vc == v \o <<closing>>
<1>3. w = <<opening>> \o vc
  BY <1>1, <1>2
<1>4. <<closing>> \in Seq(Token)
  BY Singles
<1>5. vc \in Seq(Token) /\ Splits(vc, v, <<closing>>)
  BY <1>4, Joined DEF Splits
<1> HIDE DEF vc
<1>6. Splits(w, <<opening>>, vc)
  BY <1>3 DEF Splits
<1> SUFFICES ASSUME NEW t \in Seq(Token), NEW i, Holds(t, i, w)
             PROVE  <<i, i + Len(w)>> \in StrictJson(t)[n]
  BY DEF InJson
<1>7. i \in Places(t) /\ t[i] = opening /\ Holds(t, i + 1, vc) /\ i + Len(w) = i + 1 + Len(vc) /\ i \in Nat
  BY <1>5, <1>6, HoldsFirst
<1>8. PICK a \in Nat : a = i + 1 /\ Holds(t, a, vc)
  BY <1>7
<1>9. Holds(t, a, v) /\ Holds(t, a + Len(v), <<closing>>) /\ a + Len(vc) = a + Len(v) + Len(<<closing>>) /\ Len(v) \in Nat
  <2>1. Holds(t, a, vc)
    BY <1>8
  <2>2. PICK f \in Seq(Token) : f = <<closing>> /\ Splits(vc, v, f)
    BY <1>4, <1>5
  <2>3. Splits(vc, v, f)
    BY <2>2
  <2>4. Holds(t, a, v) /\ Holds(t, a + Len(v), f) /\ a + Len(vc) = a + Len(v) + Len(f) /\ Len(v) \in Nat
    BY <1>5, <2>1, <2>3, HoldsOf
  <2> QED BY <2>2, <2>4
<1>10. PICK q \in Nat : q = a + Len(v) /\ Holds(t, q, <<closing>>)
  BY <1>9
<1>11. q \in Places(t) /\ q + 1 \in Places(t) /\ Len(<<closing>>) = 1 /\ t[q] = closing
  BY <1>10, HoldsOne
<1>12. i + Len(w) = q + 1
  BY <1>7, <1>8, <1>9, <1>10, <1>11
<1> DEFINE S == PartsOf(t, JsonBelow(t, n), kind)
<1>13. StrictBody(t, a, q, S)
  <2>1. CASE v = <<>>
    <3>1. Len(v) = 0
      BY <2>1
    <3>2. q = a
      BY <1>10, <3>1
    <3> QED BY <3>2 DEF StrictBody, Blank
  <2>2. CASE \E z \in Seq(Token), b \in Whites : <<j, z>> \in V /\ v = z \o b
    <3>1. PICK z \in Seq(Token), b \in Whites : <<j, z>> \in V /\ v = z \o b
      BY <2>2
    <3>2. Splits(v, z, b) /\ b \in Seq(Token)
      BY <3>1 DEF Splits, Whites
    <3>3. <<j, z>>[2] = z
      OBVIOUS
    <3>4. ListText(n, kind, z)
      BY <3>1, <3>3
    <3>5. Holds(t, a, z) /\ Holds(t, a + Len(z), b) /\ a + Len(v) = a + Len(z) + Len(b) /\ Len(z) \in Nat /\ Len(b) \in Nat
      BY <1>9, <3>2, HoldsOf
    <3>6. Blank(t, a + Len(z), a + Len(z) + Len(b))
      BY <3>5, HoldsWhite
    <3>7. a + Len(z) <= q /\ Blank(t, a + Len(z), q)
      BY <1>10, <3>5, <3>6
    <3>8. Listed(t, a, q, S)
      BY <1>11, <3>4, <3>5, <3>7 DEF ListText
    <3> QED BY <3>8 DEF StrictBody
  <2> QED BY <1>1, <2>1, <2>2 DEF Within
<1>14. <<i, q + 1>> \in StrictOver(t, JsonBelow(t, n))
  <2>1. q + 1 > i + 1 /\ q + 1 - 1 = q /\ a = i + 1
    BY <1>7, <1>8, <1>9, <1>10
  <2>2. t[q + 1 - 1] = closing /\ StrictBody(t, i + 1, q + 1 - 1, S)
    BY <1>11, <1>13, <2>1
  <2>3. PICK l : l = q + 1
    OBVIOUS
  <2>4. /\ i \in Places(t) /\ l \in Places(t) /\ l > i + 1 /\ t[i] = opening
        /\ t[l - 1] = closing /\ StrictBody(t, i + 1, l - 1, S)
    BY <1>7, <1>11, <2>1, <2>2, <2>3
  <2>5. CASE kind = "array"
    <3>1. opening = BeginArray /\ closing = EndArray /\ S = JsonBelow(t, n)
      BY <1>2, <2>5 DEF Opening, Ends, PartsOf
    <3> HIDE DEF S
    <3> QED BY <2>3, <2>4, <3>1, StrictAre
  <2>6. CASE kind = "table"
    <3>1. opening = BeginObject /\ closing = EndObject /\ S = Members(t, JsonBelow(t, n))
      BY <1>2, <2>6 DEF Opening, Ends, PartsOf
    <3> HIDE DEF S
    <3> QED BY <2>3, <2>4, <3>1, StrictAre
  <2> QED BY <2>5, <2>6
<1> QED BY <1>12, <1>14, StrictIs

(* Texts that are JSON grow to texts that are. *)
LEMMA JsonGrows ==
  ASSUME NEW n \in 0 .. Deep
  PROVE  Grows(LevelBelow(JsonLevels, n), JsonLevels[n], n)
<1> DEFINE S == LevelBelow(JsonLevels, n)
<1>1. JsonLevels[n] = JsonTexts(n)
  BY DEF JsonLevels
<1>2. KeyTexts(JsonTexts(n))
  <2> SUFFICES ASSUME NEW x, NEW w, <<x, w>> \in JsonTexts(n), x[1] \in Bytes PROVE w = <<<<"string", x[2]>>>>
    BY DEF KeyTexts
  <2> QED BY DEF JsonTexts
<1>3. Deep \in Nat /\ n <= Deep /\ Deep \in 0 .. Deep /\ n \in Nat
  BY JsonAssumption DEF JsonAssumption
<1>4. \A x \in Value(n) : x \in Value(Deep)
  BY <1>3, ValueMore
<1>5. ASSUME NEW x \in Key \cup {Nil}, x[1] # "function" PROVE <<x, Leaf(x)>> \in JsonTexts(n)
  <2>1. x \in Value(n)
    BY ValueIs
  <2>2. PICK a \in Token : Leaf(x) = <<a>> /\ a[1] \in Atoms
    <3>1. CASE x = Nil
      BY <3>1, MarkIs, BracketIs DEF Leaf
    <3>2. CASE x[1] \in Bytes /\ <<"string", x[2]>> \in Token /\ x # Nil
      <4>1. Leaf(x) = <<<<"string", x[2]>>>> /\ <<"string", x[2]>>[1] \in Atoms
        BY <3>2 DEF Leaf, Atoms
      <4> QED BY <3>2, <4>1
    <3>3. CASE x[1] \in Atoms /\ x[1] \notin Bytes /\ x \in Token /\ x # Nil
      BY <3>3 DEF Leaf
    <3> QED BY <1>5, <3>1, <3>2, <3>3, KeyIs
  <2>3. InJson(n, Leaf(x)) /\ Leaf(x) \in Seq(Token)
    BY <2>2, AtomText, Singles
  <2>4. x[1] \in Bytes => Leaf(x) = <<<<"string", x[2]>>>>
    BY KeyIs, Toks DEF Leaf, Nil, Bytes
  <2> QED BY <1>4, <2>1, <2>3, <2>4 DEF JsonTexts
<1>6. ASSUME NEW kind \in {"array", "table"}, NEW x \in Made(kind, Parted(n))
      PROVE  \E V : /\ Chains(V, S, x)
                    /\ \A w \in Seq(Token) : Bracketed(V, Len(Parts(x)), Opening(kind), Ends(kind), w) => <<x, w>> \in JsonTexts(n)
  <2> DEFINE V == {z \in Nat \X Seq(Token) : ListText(n, kind, z[2])}
  <2>1. \A j \in Nat : \A v \in Seq(Token) : <<j, v>> \in V <=> ListText(n, kind, v)
    OBVIOUS
  <2>2. \A z \in V : ListText(n, kind, z[2])
    OBVIOUS
  <2>3. \A z \in V : z[1] \in Nat /\ z[2] \in Seq(Token) /\ z = <<z[1], z[2]>>
    OBVIOUS
  <2> HIDE DEF V, S
  <2>4. Len(Parts(x)) \in Nat
    BY PartedKeyed, PartsAre
  <2>5. \A i \in 1 .. Len(Parts(x)) : \A w \in PartTexts(S, x, i) : w \in Seq(Token) /\ PartText(n, kind, w)
    BY PartTextIn DEF S
  <2>6. ASSUME NEW b \in Whites, NEW w \in PartTexts(S, x, 1), 1 <= Len(Parts(x)) PROVE <<1, b \o w>> \in V
    <3>1. 1 \in 1 .. Len(Parts(x))
      BY <2>4, <2>6
    <3>2. w \in Seq(Token) /\ PartText(n, kind, w) /\ b \in Seq(Token)
      BY <2>5, <3>1 DEF Whites
    <3>3. ListText(n, kind, b \o w)
      BY <3>2, ListText1
    <3>4. b \o w \in Seq(Token)
      BY <3>2, Joined
    <3> QED BY <2>1, <3>3, <3>4
  <2>7. ASSUME NEW i \in Nat \ {0}, NEW v \in Seq(Token), NEW b \in Whites, NEW w \in PartTexts(S, x, i + 1),
               i + 1 <= Len(Parts(x)), <<i, v>> \in V
        PROVE  <<i + 1, v \o (<<Comma>> \o (b \o w))>> \in V
    <3>1. i + 1 \in 1 .. Len(Parts(x)) /\ i + 1 \in Nat
      BY <2>4, <2>7
    <3>2. w \in Seq(Token) /\ PartText(n, kind, w) /\ b \in Seq(Token) /\ <<Comma>> \in Seq(Token)
      BY <2>5, <3>1, MarkIs, Singles DEF Whites
    <3>3. ListText(n, kind, v)
      BY <2>1, <2>7
    <3>4. ListText(n, kind, v \o (<<Comma>> \o (b \o w)))
      BY <3>2, <3>3, ListText2
    <3>5. v \o (<<Comma>> \o (b \o w)) \in Seq(Token)
      <4>1. b \o w \in Seq(Token)
        BY <3>2, Joined
      <4>2. <<Comma>> \o (b \o w) \in Seq(Token)
        BY <3>2, <4>1, Joined
      <4> QED BY <4>2, Joined
    <3> QED BY <2>1, <3>1, <3>4, <3>5
  <2>8. Chains(V, S, x)
    BY <2>6, <2>7 DEF Chains
  <2>9. ASSUME NEW w \in Seq(Token), Bracketed(V, Len(Parts(x)), Opening(kind), Ends(kind), w) PROVE <<x, w>> \in JsonTexts(n)
    <3>1. InJson(n, w)
      BY <2>2, <2>9, BracketText
    <3>2. x[1] \notin Bytes
      BY DEF Made, Bytes
    <3>3. x \in Value(Deep)
      BY <1>4, ValueIs
    <3> QED BY <3>1, <3>2, <3>3 DEF JsonTexts
  <2> QED BY <2>8, <2>9
<1> HIDE DEF S
<1> QED BY <1>1, <1>2, <1>5, <1>6 DEF Grows, S

(* What encode_one() adds to a buffer is JSON. *)
LEMMA EncodesJson ==
  ASSUME NEW lay \in [tab : Nat, newline : Nat], NEW x \in Value(Deep), NEW e \in Encoder, ~e.err,
         NEW r, r = encode_one(lay)[Deep][x][e]
  PROVE  Writ(e, r, x, JsonTexts(Deep))
<1>1. Deep \in 0 .. Deep
  BY JsonAssumption DEF JsonAssumption
<1>2. Makes(encode_one(lay)[Deep], Value(Deep), JsonLevels[Deep])
  BY <1>1, JsonGrows, OneWrites
<1>3. JsonLevels[Deep] = JsonTexts(Deep)
  BY <1>1 DEF JsonLevels
<1> QED BY <1>2, <1>3 DEF Makes, Writ

-----------------------------------------------------------------------------
(* A text that was put behind another.                                     *)

(* What was put behind a text can be cut off again. *)
LEMMA Behinds ==
  ASSUME NEW a \in Seq(Token), NEW w \in Seq(Token), NEW z, Splits(z, a, w)
  PROVE  IsPrefix(a, z) /\ SubSeq(z, Len(a) + 1, Len(z)) = w /\ z \in Seq(Token)
<1>1. /\ z \in Seq(Token) /\ Len(z) = Len(a) + Len(w) /\ Len(a) \in Nat /\ Len(w) \in Nat
      /\ \A i \in 1 .. Len(a) + Len(w) : z[i] = IF i <= Len(a) THEN a[i] ELSE w[i - Len(a)]
  BY Cat, Lengths DEF Splits
<1>2. PICK k \in Nat, m \in Nat : k = Len(a) /\ m = Len(w) /\ Len(z) = k + m
  BY <1>1
<1>3. \A i \in 1 .. k + m : z[i] = IF i <= k THEN a[i] ELSE w[i - k]
  BY <1>1, <1>2
<1>4. (\A i \in 1 .. k + m : z[i] \in Token) /\ (\A i \in 1 .. k : a[i] \in Token)
  BY <1>1, <1>2, Lengths
<1> DEFINE s == SubSeq(z, k + 1, k + m)
           p == SubSeq(z, 1, k)
           o == SubSeq(a, 1, k)
<1>5. s = w
  <2>1. \A i \in k + 1 .. k + m : z[i] \in Token
    BY <1>4
  <2>2. /\ s \in Seq(Token) /\ Len(s) = IF k + 1 <= k + m THEN k + m - (k + 1) + 1 ELSE 0
        /\ \A i \in 1 .. k + m - (k + 1) + 1 : s[i] = z[k + 1 + i - 1]
    BY <2>1, SubSeqProperties
  <2> HIDE DEF s
  <2>3. Len(s) = m
    BY <2>2
  <2>4. ASSUME NEW i \in 1 .. m PROVE s[i] = w[i]
    <3>1. PICK j \in 1 .. k + m : j = k + 1 + i - 1 /\ ~(j <= k) /\ j - k = i
      OBVIOUS
    <3>2. i \in 1 .. k + m - (k + 1) + 1
      OBVIOUS
    <3> QED BY <1>3, <2>2, <3>1, <3>2
  <2> QED BY <1>2, <2>2, <2>3, <2>4, SeqEqual
<1>6. p = o
  <2>1. (\A i \in 1 .. k : z[i] \in Token) /\ 1 \in Int /\ k \in Int
    BY <1>4
  <2>2. /\ p \in Seq(Token) /\ Len(p) = IF 1 <= k THEN k - 1 + 1 ELSE 0
        /\ \A i \in 1 .. k - 1 + 1 : p[i] = z[1 + i - 1]
    BY <2>1, SubSeqProperties
  <2>3. /\ o \in Seq(Token) /\ Len(o) = IF 1 <= k THEN k - 1 + 1 ELSE 0
        /\ \A i \in 1 .. k - 1 + 1 : o[i] = a[1 + i - 1]
    BY <1>4, <2>1, SubSeqProperties
  <2> HIDE DEF p, o
  <2>4. Len(p) = k /\ Len(o) = k
    BY <2>2, <2>3
  <2>5. ASSUME NEW i \in 1 .. k PROVE p[i] = o[i]
    <3>1. i \in 1 .. k - 1 + 1 /\ 1 + i - 1 = i /\ i \in 1 .. k + m /\ i <= k
      OBVIOUS
    <3> QED BY <1>3, <2>2, <2>3, <3>1
  <2> QED BY <2>2, <2>3, <2>4, <2>5, SeqEqual
<1> HIDE DEF s, p, o
<1>7. SubSeq(z, Len(a) + 1, Len(z)) = w
  BY <1>2, <1>5 DEF s
<1>8. IsPrefix(a, z)
  <2>1. SubSeq(a, 1, Len(a)) = SubSeq(z, 1, Len(a))
    BY <1>2, <1>6 DEF p, o
  <2>2. Len(a) <= Len(z)
    BY <1>2
  <2> QED BY <2>1, <2>2 DEF IsPrefix
<1> QED BY <1>1, <1>7, <1>8

-----------------------------------------------------------------------------
(* What a program does with json/encode and json/decode.                   *)

(* What json/encode does to the caller's buffer. *)
Fresh(bef) == [buffer |-> bef, indent |-> 0, err |-> FALSE]

Encoding(lay, x, bef) == encode_one(lay)[Deep][x][Fresh(bef)]

(* The text behind what was in the buffer is one that some layout gives.   *)
InBuffer ==
  state = "encoded" =>
    \E lay \in Layouts : ~Encoding(lay, value, before).err /\ buf = Encoding(lay, value, before).buffer

CodecInv ==
  /\ value \in Value(Deep) /\ before \in Seq(Token) /\ flags \in Flags
  /\ state \in {"value", "text", "encoded", "refused", "decoded", "rejected", "back"}
  /\ \E w \in Seq(Token) : buf = before \o w
  /\ state \in {"decoded", "back"} => IsNearJson(Added, Guard)
  /\ state = "rejected" => ~IsNearJson(Added, Guard)
  /\ InBuffer

(* Added is what was put behind the caller's buffer. *)
LEMMA AddedIs ==
  ASSUME CodecInv
  PROVE  /\ Added \in Seq(Token) /\ buf = before \o Added /\ IsPrefix(before, buf)
<1>1. PICK w \in Seq(Token) : buf = before \o w
  BY DEF CodecInv
<1>2. before \in Seq(Token)
  BY DEF CodecInv
<1>3. IsPrefix(before, buf) /\ SubSeq(buf, Len(before) + 1, Len(buf)) = w
  BY <1>1, <1>2, Behinds DEF Splits
<1>4. Added = w
  BY <1>3 DEF Added
<1> QED BY <1>1, <1>3, <1>4

(* What json_encode() puts there is JSON, unless it fails. *)
LEMMA FreshWrites ==
  ASSUME NEW lay \in Layouts, NEW x \in Value(Deep), NEW bef \in Seq(Token)
  PROVE  \E w \in Seq(Token) :
           /\ Encoding(lay, x, bef).buffer = bef \o w
           /\ ~Encoding(lay, x, bef).err => <<x, w>> \in JsonTexts(Deep)
<1>1. lay \in [tab : Nat, newline : Nat]
  BY JsonAssumption DEF JsonAssumption
<1> DEFINE e == Fresh(bef)
           r == Encoding(lay, x, bef)
<1>2. e \in Encoder /\ ~e.err /\ e.buffer = bef
  BY DEF Fresh, Encoder
<1>3. r = encode_one(lay)[Deep][x][e]
  BY DEF Encoding
<1> HIDE DEF e, r
<1>4. Writ(e, r, x, JsonTexts(Deep))
  BY <1>1, <1>2, <1>3, EncodesJson
<1>5. PICK w \in Seq(Token) : Writes(e, r, w) /\ (~r.err => Steady(e, r) /\ <<x, w>> \in JsonTexts(Deep))
  BY <1>4 DEF Writ
<1>6. r.buffer = bef \o w
  BY <1>2, <1>5 DEF Writes
<1> QED BY <1>5, <1>6 DEF r

(* CodecInv holds at first, *)
LEMMA CodecInit == Init => CodecInv
<1> SUFFICES ASSUME Init PROVE CodecInv
  OBVIOUS
<1>1. flags \in Flags
  BY DEF Init
<1>2. <<>> \in Seq(Token) /\ Deep \in 0 .. Deep
  BY EmptySeq, JsonAssumption DEF JsonAssumption
<1>3. CASE state = "text" /\ buf \in Texts /\ before = <<>> /\ value = Nil
  <2>1. buf \in Seq(Token)
    BY <1>3, JsonAssumption DEF JsonAssumption
  <2>2. buf = before \o buf
    BY <1>3, <2>1, ConcatEmptySeq
  <2>3. value \in Value(Deep)
    BY <1>2, <1>3, ValueIs
  <2> QED BY <1>1, <1>2, <1>3, <2>1, <2>2, <2>3 DEF CodecInv, InBuffer
<1>4. CASE state = "value" /\ value \in Values /\ before \in Buffers /\ buf = before
  <2>1. before \in Seq(Token) /\ value \in Value(Deep)
    BY <1>4, JsonAssumption DEF JsonAssumption
  <2>2. buf = before \o <<>>
    BY <1>4, <2>1, ConcatEmptySeq
  <2> QED BY <1>1, <1>2, <1>4, <2>1, <2>2 DEF CodecInv, InBuffer
<1> QED BY <1>3, <1>4 DEF Init

(* each call keeps it, *)
LEMMA CodecStep == CodecInv /\ [Next]_vars => CodecInv'
<1> SUFFICES ASSUME CodecInv, [Next]_vars PROVE CodecInv'
  OBVIOUS
<1>1. CASE json_encode
  <2>1. PICK lay \in Layouts : LET r == Encoding(lay, value, before) IN
           buf' = r.buffer /\ state' = IF r.err THEN "refused" ELSE "encoded"
    BY <1>1 DEF json_encode, Encoding, Fresh
  <2> DEFINE r == Encoding(lay, value, before)
  <2>2. buf' = r.buffer /\ state' = (IF r.err THEN "refused" ELSE "encoded")
    BY <2>1
  <2>3. value' = value /\ before' = before /\ flags' = flags
    BY <1>1 DEF json_encode
  <2>4. value \in Value(Deep) /\ before \in Seq(Token) /\ flags \in Flags
    BY DEF CodecInv
  <2>5. PICK w \in Seq(Token) : r.buffer = before \o w
    BY <2>4, FreshWrites
  <2> HIDE DEF r
  <2>6. \E u \in Seq(Token) : buf' = before' \o u
    BY <2>2, <2>3, <2>5
  <2>7. InBuffer'
    <3>1. state' = "encoded" => ~r.err
      BY <2>2
    <3>2. state' = "encoded" => ~Encoding(lay, value', before').err /\ buf' = Encoding(lay, value', before').buffer
      BY <2>2, <2>3, <3>1 DEF r
    <3> QED BY <3>2 DEF InBuffer
  <2>8. state' \in {"refused", "encoded"}
    BY <2>2
  <2> QED BY <2>3, <2>4, <2>6, <2>7, <2>8 DEF CodecInv
<1>2. CASE json_decode
  <2> DEFINE r == decoded(Added)
  <2>1. /\ value' = (IF r.is = "error" THEN value ELSE r.out)
        /\ state' = (IF r.is = "error" THEN "rejected" ELSE IF state = "text" THEN "decoded" ELSE "back")
        /\ before' = before /\ buf' = buf /\ flags' = flags
    BY <1>2 DEF json_decode
  <2>2. Added \in Seq(Token) /\ Added' = Added
    BY <2>1, AddedIs DEF Added
  <2>3. r.is \in {"error", "done"} /\ (r.is = "done" <=> IsNearJson(Added, Guard))
    BY <2>2, DecodedIs
  <2>4. r.is = "done" => r.out \in Value(Deep)
    BY <2>2, DecodedGives
  <2> HIDE DEF r
  <2>5. value' \in Value(Deep)
    BY <2>1, <2>3, <2>4 DEF CodecInv
  <2>6. IsNearJson(Added, Guard)' <=> IsNearJson(Added, Guard)
    BY <2>2
  <2>7. state' \in {"rejected", "decoded", "back"} /\ (state' = "rejected" <=> r.is = "error")
    BY <2>1
  <2>8. InBuffer'
    BY <2>7 DEF InBuffer
  <2>9. before' \in Seq(Token) /\ flags' \in Flags /\ \E w \in Seq(Token) : buf' = before' \o w
    BY <2>1 DEF CodecInv
  <2> QED BY <2>3, <2>5, <2>6, <2>7, <2>8, <2>9 DEF CodecInv
<1>3. CASE UNCHANGED vars
  BY <1>3 DEF vars, CodecInv, InBuffer, Added
<1> QED BY <1>1, <1>2, <1>3 DEF Next

(* and so it holds always. *)
LEMMA CodecInvariant == Spec => []CodecInv
BY CodecInit, CodecStep, PTL DEF Spec

(* A text that json/decode refuses is not JSON, with or without a comma    *)
(* before a bracket, of a depth within its limit: json_decode() and        *)
(* decode_one() (json/json.c) take every text of that kind, and every one  *)
(* that begins with such a text and a zero byte.                           *)
THEOREM DecodeAcceptsJson == Spec => []AcceptsJson
<1>1. CodecInv => AcceptsJson
  BY DEF CodecInv, AcceptsJson
<1> QED BY <1>1, CodecInvariant, PTL

(* A text that json/decode takes is JSON as far as the first zero byte in  *)
(* it or behind it, with at most a comma more before a bracket, and no     *)
(* deeper than JANET_RECURSION_GUARD: the checks of decode_one() for       *)
(* brackets, commas, colons and names leave nothing else.  Nothing is said *)
(* of what is behind a zero byte, which json_decode() does not read.       *)
THEOREM DecodeAcceptsOnlyJson == Spec => []AcceptsOnlyJson
<1>1. CodecInv => AcceptsOnlyJson
  BY DEF CodecInv, AcceptsOnlyJson
<1> QED BY <1>1, CodecInvariant, PTL

(* Whatever value json/encode is given, with whatever white space between  *)
(* the parts, and whatever the caller's buffer held, that stays as it was  *)
(* and JSON comes behind it: taking back the comma before a bracket        *)
(* (encode_one(), json/json.c) never takes anything else.                  *)
THEOREM EncodeAppendsJson == Spec => []AppendsJson
<1>1. ASSUME CodecInv PROVE AppendsJson
  <2>1. IsPrefix(before, buf) /\ Added \in Seq(Token) /\ buf = before \o Added
    BY <1>1, AddedIs
  <2>2. ASSUME state = "encoded" PROVE IsJson(Added, Deep)
    <3>1. PICK lay \in Layouts : ~Encoding(lay, value, before).err /\ buf = Encoding(lay, value, before).buffer
      BY <1>1, <2>2 DEF CodecInv, InBuffer
    <3>2. value \in Value(Deep) /\ before \in Seq(Token)
      BY <1>1 DEF CodecInv
    <3>3. PICK w \in Seq(Token) : buf = before \o w /\ <<value, w>> \in JsonTexts(Deep)
      BY <3>1, <3>2, FreshWrites
    <3>4. Added = w
      BY <3>2, <3>3, Behinds DEF Added, Splits
    <3>5. InJson(Deep, w)
      BY <3>3 DEF JsonTexts
    <3> HIDE DEF Added
    <3>6. PICK t \in Seq(Token) : t = Added /\ InJson(Deep, t)
      BY <3>4, <3>5
    <3>7. Holds(t, 1, t) /\ Len(t) \in Nat
      BY Lengths DEF Holds, Places
    <3>8. <<1, 1 + Len(t)>> \in StrictJson(t)[Deep]
      BY <3>6, <3>7 DEF InJson
    <3>9. PICK l \in Nat : l = Len(t) + 1 /\ l = 1 + Len(t)
      BY <3>7
    <3>10. <<1, l>> \in Json(t, FALSE)[Deep]
      BY <3>8, <3>9 DEF StrictJson
    <3>11. Blank(t, 1, 1) /\ Blank(t, l, l) /\ 1 \in 1 .. l /\ l \in 1 .. l
      BY <3>9 DEF Blank
    <3>12. Spaced(t, 1, l, Json(t, FALSE)[Deep])
      BY <3>10, <3>11 DEF Spaced
    <3> QED BY <3>6, <3>9, <3>12 DEF IsJson
  <2> QED BY <2>1, <2>2 DEF AppendsJson
<1> QED BY <1>1, CodecInvariant, PTL

-----------------------------------------------------------------------------
(* The values that come back.                                              *)

PlainAtoms ==
  {Tok("number"), Tok("true"), Tok("false")} \cup Named({"string"}) \cup (IF flags.nils THEN {Nil} ELSE {})

PlainKeys == Named({IF flags.keywords THEN "keyword" ELSE "string"})

PlainBelow(m) == IF m = 0 THEN {} ELSE Plain[m - 1]

PlainTables(V) == {f \in [Key -> V \cup {Nil}] : \A k \in Key \ PlainKeys : f[k] = Nil}

(* What a value that comes back may be, *)
LEMMA PlainAre ==
  ASSUME NEW m \in 0 .. Deep, NEW x \in Plain[m]
  PROVE  x \in PlainAtoms \/ x \in {"array"} \X Seq(PlainBelow(m)) \/ x \in {"table"} \X PlainTables(PlainBelow(m))
<1> DEFINE atoms == PlainAtoms
           keys == PlainKeys
           F(i) == Built(atoms, keys, IF i = 0 THEN {} ELSE Plain[i - 1])
<1>1. Plain = Nested(atoms, keys)
  BY DEF Plain, PlainAtoms, PlainKeys
<1>2. Plain = [i \in 0 .. Deep |-> F(i)]
  <2>1. Nested(atoms, keys) = [i \in 0 .. Deep |-> Built(atoms, keys, IF i = 0 THEN {} ELSE Nested(atoms, keys)[i - 1])]
    <3> HIDE DEF atoms, keys
    <3> QED BY NestedIs
  <2> HIDE DEF atoms, keys
  <2> QED BY <1>1, <2>1
<1> HIDE DEF atoms, keys, F
<1>3. Plain[m] = F(m)
  BY <1>2
<1>4. Plain[m] = Built(atoms, keys, PlainBelow(m))
  BY <1>3 DEF F, PlainBelow
<1> QED BY <1>4 DEF Built, PlainTables, atoms, keys

(* what its atoms are, *)
LEMMA PlainAtomIs ==
  ASSUME NEW x \in PlainAtoms
  PROVE  /\ x[1] \notin {"array", "table"}
         /\ \/ x = Nil /\ flags.nils
            \/ x # Nil /\ x \in Token /\ x[1] \in Atoms /\ x # Null /\ x[1] \notin {"keyword"}
<1>1. CASE x \in {Tok("number"), Tok("true"), Tok("false")}
  <2>1. x \in Token
    BY <1>1 DEF Token
  <2>2. x[1] \in {"number", "true", "false"} /\ x # Nil /\ x # Null
    BY <1>1, Toks DEF Nil, Null
  <2>3. \A s \in {"number", "true", "false"} : s \in Atoms /\ s \notin {"array", "table", "keyword"}
    BY DEF Atoms
  <2> QED BY <2>1, <2>2, <2>3
<1>2. CASE x \in Named({"string"})
  <2>1. x \in Token
    BY <1>2 DEF Token
  <2>2. x[1] = "string"
    BY <1>2 DEF Named
  <2>3. Nil[1] # "string" /\ Null[1] # "string"
    BY Toks DEF Nil, Null
  <2>4. "string" \in Atoms
    BY DEF Atoms
  <2> QED BY <2>1, <2>2, <2>3, <2>4
<1>3. CASE x = Nil /\ flags.nils
  BY <1>3, Toks DEF Nil
<1> QED BY <1>1, <1>2, <1>3 DEF PlainAtoms

(* and that its parts come back, too, and its keys are of the kind the     *)
(* flag asks for.                                                          *)
LEMMA PlainParts ==
  ASSUME NEW n \in 0 .. Deep, NEW kind \in {"array", "table"}, NEW x \in Made(kind, Parted(n)),
         NEW m \in 0 .. Deep, x \in Plain[m], NEW i \in 1 .. Len(Parts(x))
  PROVE  /\ m # 0
         /\ kind = "array" => Parts(x)[i] \in Plain[m - 1]
         /\ kind = "table" => /\ Parts(x)[i] \in PlainKeys /\ Parts(x)[i] \in Key
                              /\ x[2][Parts(x)[i]] \in Plain[m - 1]
<1>1. x[1] = kind
  BY DEF Made
<1>2. x \notin PlainAtoms
  BY <1>1, PlainAtomIs
<1>3. CASE kind = "array"
  <2>1. x[2] \in Seq(PlainBelow(m)) /\ Parts(x) = x[2]
    BY <1>1, <1>2, <1>3, PlainAre DEF Parts
  <2>2. x[2][i] \in PlainBelow(m)
    BY <2>1, ElementOfSeq
  <2> QED BY <1>3, <2>1, <2>2 DEF PlainBelow
<1>4. CASE kind = "table"
  <2> DEFINE K == {k \in Key : x[2][k] # Nil}
  <2>1. x[2] \in PlainTables(PlainBelow(m)) /\ Parts(x) = slots[K]
    BY <1>1, <1>2, <1>4, PlainAre DEF Parts
  <2>2. slots[K] \in Seq(K)
    BY JsonAssumption DEF JsonAssumption
  <2>3. \A k \in K : k \in Key /\ k \in PlainKeys /\ x[2][k] \in PlainBelow(m)
    BY <2>1 DEF PlainTables
  <2> HIDE DEF K
  <2>4. slots[K][i] \in K
    BY <2>1, <2>2, ElementOfSeq
  <2> QED BY <1>4, <2>1, <2>3, <2>4 DEF PlainBelow
<1> QED BY <1>3, <1>4

-----------------------------------------------------------------------------
(* What is read from a text that was written.                              *)

Back(x, w) ==
  \A m \in 0 .. Guard : x \in Plain[m] =>
    \A t \in Seq(Token) : \A i : \A p \in Places(t) :
      Holds(t, i, w) /\ skipwhite(t, p) = i => decode_one(t)[m + 1][p] = gives(i + Len(w), x)

BackTexts(n) == {z \in JsonTexts(n) : Back(z[1], z[2])}

BackLevels == [n \in 0 .. Deep |-> BackTexts(n)]

(* A call of decode_one() at a depth the limit allows. *)
LEMMA DecodeTurn ==
  ASSUME NEW t, NEW m \in 0 .. Guard, NEW p \in Places(t)
  PROVE  decode_one(t)[m + 1][p] = decode_token(decode_one(t)[m], t, skipwhite(t, p))
BY DecodeAt

(* An atom comes back from its token. *)
LEMMA LeafBack ==
  ASSUME NEW x \in Key \cup {Nil}
  PROVE  Back(x, Leaf(x))
<1> SUFFICES ASSUME NEW m \in 0 .. Guard, x \in Plain[m], NEW t \in Seq(Token), NEW i, NEW p \in Places(t),
                    Holds(t, i, Leaf(x)), skipwhite(t, p) = i
             PROVE  decode_one(t)[m + 1][p] = gives(i + Len(Leaf(x)), x)
  BY DEF Back
<1>1. m \in 0 .. Deep
  BY JsonAssumption DEF JsonAssumption
<1>2. x[1] \notin {"array", "table"}
  BY KeyIs, Toks DEF Bytes, Atoms
<1>3. x \in PlainAtoms
  BY <1>1, <1>2, PlainAre
<1>4. decode_one(t)[m + 1][p] = decode_token(decode_one(t)[m], t, i)
  BY DecodeTurn
<1>5. CASE x = Nil /\ flags.nils
  <2>1. Leaf(x) = <<Null>> /\ Null \in Token
    BY <1>5, MarkIs DEF Leaf
  <2>2. At(t, i) = Null /\ Len(<<Null>>) = 1
    BY <2>1, HoldsOne
  <2>3. decode_token(decode_one(t)[m], t, i) = gives(i + 1, null)
    BY <2>2 DEF decode_token
  <2> QED BY <1>4, <1>5, <2>1, <2>2, <2>3 DEF null
<1>6. CASE x # Nil /\ x \in Token /\ x[1] \in Atoms /\ x # Null /\ x[1] \notin {"keyword"}
  <2>1. Leaf(x) = <<x>>
    <3>1. CASE x[1] \in Bytes
      <4>1. x[1] = "string"
        BY <1>6, <3>1 DEF Bytes
      <4>2. x \in Named({"string"})
        <5>1. \A y \in {Tok("number"), Tok("true"), Tok("false")} : y[1] # "string"
          BY Toks
        <5> QED BY <1>3, <1>6, <4>1, <5>1 DEF PlainAtoms
      <4>3. x = <<"string", x[2]>>
        BY <4>2 DEF Named
      <4> QED BY <1>6, <3>1, <4>3 DEF Leaf
    <3>2. CASE x[1] \notin Bytes
      BY <1>6, <3>2 DEF Leaf
    <3> QED BY <3>1, <3>2
  <2>2. At(t, i) = x /\ Len(<<x>>) = 1
    BY <1>6, <2>1, HoldsOne
  <2>3. decode_token(decode_one(t)[m], t, i) = gives(i + 1, x)
    BY <1>6, <2>2 DEF decode_token
  <2> QED BY <1>4, <2>1, <2>2, <2>3
<1> QED BY <1>3, <1>5, <1>6, PlainAtomIs

(* The texts that values one level less deep come back from are JSON. *)
LEMMA LevelBack ==
  ASSUME NEW n \in 0 .. Deep, NEW y, NEW w, <<y, w>> \in LevelBelow(BackLevels, n)
  PROVE  w \in Seq(Token) /\ PartText(n, "array", w) /\ Back(y, w) /\ <<y, w>> \in LevelBelow(JsonLevels, n)
<1>1. n # 0
  BY DEF LevelBelow
<1>2. PICK m \in 0 .. Deep : m = n - 1
  BY <1>1, JsonAssumption DEF JsonAssumption
<1>3. LevelBelow(BackLevels, n) = BackTexts(m) /\ LevelBelow(JsonLevels, n) = JsonTexts(m)
  BY <1>1, <1>2 DEF LevelBelow, BackLevels, JsonLevels
<1>4. <<y, w>> \in JsonTexts(m) /\ Back(<<y, w>>[1], <<y, w>>[2])
  BY <1>3 DEF BackTexts
<1>5. <<y, w>> \in LevelBelow(JsonLevels, n) /\ Back(y, w)
  BY <1>3, <1>4
<1> QED BY <1>5, LevelsHave

(* The text of a part begins where the white space before it ends. *)
LEMMA PartStarts ==
  ASSUME NEW n \in 0 .. Deep, NEW kind \in {"array", "table"}, NEW w \in Seq(Token), PartText(n, kind, w),
         NEW t \in Seq(Token), NEW k, Holds(t, k, w)
  PROVE  /\ k \in 1 .. Len(t) /\ k \in Places(t) /\ k + Len(w) \in Places(t) /\ k \in Nat /\ Len(w) \in Nat
         /\ 1 <= Len(w) /\ At(t, k) = t[k] /\ t[k] \notin {White, Comma, EndArray, EndObject}
         /\ skipwhite(t, k) = k
<1> DEFINE S == PartsOf(t, JsonBelow(t, n), kind)
<1>1. <<k, k + Len(w)>> \in S
  BY DEF PartText
<1>2. Stretches(t, S)
  BY StrictStretch, MembersStretch DEF PartsOf
<1> HIDE DEF S
<1>3. PICK l : l = k + Len(w) /\ <<k, l>> \in S
  BY <1>1
<1>4. /\ k \in 1 .. Len(t) /\ l \in k + 1 .. Len(t) + 1 /\ k \in Places(t) /\ l \in Places(t)
      /\ At(t, k) = t[k] /\ t[k] \notin {White, Comma, EndArray, EndObject}
      /\ skipwhite(t, k) = k
  BY <1>2, <1>3, StretchBegins
<1>5. Len(t) \in Nat /\ Len(w) \in Nat
  BY Lengths
<1>6. k \in Nat /\ 1 <= Len(w)
  BY <1>3, <1>4, <1>5
<1> QED BY <1>3, <1>4, <1>5, <1>6

(* Where the loop goes behind a part that ends before the token at q. *)
Goes(t, kind, r, q, out) ==
  /\ At(t, q) = Comma => r = more(q + 1, out)
  /\ At(t, q) = Ends(kind) => r = gives(q + 1, out)

(* The i-th part of x is put behind those before it. *)
Put(x, i, out) ==
  IF x[1] = "array" THEN <<"array", Append(out[2], Parts(x)[i])>>
  ELSE <<"table", janet_table_put(out[2], Parts(x)[i], x[2][Parts(x)[i]])>>

(* A turn over an array gets back an item, *)
LEMMA ItemBack ==
  ASSUME NEW m \in 0 .. Guard, m # 0, NEW y, y \in Plain[m - 1], NEW w \in Seq(Token), Back(y, w),
         NEW t \in Seq(Token), NEW k, Holds(t, k, w), NEW p \in Places(t), skipwhite(t, p) = k,
         At(t, p) # EndArray, NEW s, s.p = p,
         NEW r, r = decode_item(decode_one(t)[m], t, s)
  PROVE  Goes(t, "array", r, skipwhite(t, k + Len(w)), <<"array", Append(s.out[2], y)>>)
<1> DEFINE x == decode_one(t)[m][p]
           q == skipwhite(t, k + Len(w))
           out == <<"array", Append(s.out[2], y)>>
<1>1. PICK j \in 0 .. Guard : j = m - 1 /\ j + 1 = m
  BY JsonAssumption DEF JsonAssumption
<1>2. y \in Plain[j]
  BY <1>1
<1>3. decode_one(t)[j + 1][p] = gives(k + Len(w), y)
  BY <1>2 DEF Back
<1>4. x = gives(k + Len(w), y)
  BY <1>1, <1>3
<1>5. r = IF x.is = "error" THEN fails
          ELSE IF At(t, skipwhite(t, x.p)) = EndArray THEN gives(skipwhite(t, x.p) + 1, <<"array", Append(s.out[2], x.out)>>)
          ELSE IF At(t, skipwhite(t, x.p)) = Comma THEN more(skipwhite(t, x.p) + 1, <<"array", Append(s.out[2], x.out)>>)
          ELSE fails
  BY DEF decode_item
<1> HIDE DEF x
<1>6. x.is = "done" /\ x.p = k + Len(w) /\ x.out = y
  BY <1>4 DEF gives
<1>7. r = IF At(t, q) = EndArray THEN gives(q + 1, out)
          ELSE IF At(t, q) = Comma THEN more(q + 1, out)
          ELSE fails
  BY <1>5, <1>6
<1> HIDE DEF q, out
<1>8. EndArray # Comma /\ Ends("array") = EndArray
  BY Differ DEF Ends
<1>9. Goes(t, "array", r, q, out)
  BY <1>7, <1>8 DEF Goes
<1> QED BY <1>9 DEF q, out

(* a key is read as the string it is, *)
LEMMA StringRead ==
  ASSUME NEW m \in 0 .. Guard, m # 0, NEW t \in Seq(Token), NEW p \in Places(t), At(t, p)[1] = "string"
  PROVE  decode_one(t)[m][p] = gives(p + 1, At(t, p))
<1>1. PICK j \in 0 .. Guard : j = m - 1 /\ j + 1 = m
  BY JsonAssumption DEF JsonAssumption
<1>2. White[1] # "string" /\ Null[1] # "string"
  <2>1. White[1] \notin Atoms /\ "string" \in Atoms
    BY MarkIs, TokenIs DEF Atoms
  <2>2. Null[1] # "string"
    BY Toks DEF Null
  <2> QED BY <2>1, <2>2
<1>3. p \in Nat /\ Len(t) \in Nat /\ p \in p .. Len(t) + 1 /\ Blank(t, p, p)
  BY Lengths DEF Places, Blank
<1>4. skipwhite(t, p) = p
  BY <1>2, <1>3, SkipTo
<1>5. decode_one(t)[j + 1][p] = decode_token(decode_one(t)[j], t, p)
  BY <1>4, DecodeTurn
<1>6. decode_token(decode_one(t)[j], t, p) = gives(p + 1, At(t, p))
  BY <1>2 DEF decode_token, Atoms
<1> QED BY <1>1, <1>5, <1>6

(* and a turn over an object gets back a member. *)
LEMMA MemberBack ==
  ASSUME NEW n \in 0 .. Deep, NEW m \in 0 .. Guard, m # 0, NEW key \in PlainKeys, NEW y, y \in Plain[m - 1],
         NEW w, w \in MemberTexts(LevelBelow(BackLevels, n), key, y),
         NEW t \in Seq(Token), NEW k, Holds(t, k, w), NEW p \in Places(t), skipwhite(t, p) = k,
         At(t, p) # EndObject, NEW s, s.p = p,
         NEW r, r = decode_member(decode_one(t)[m], t, s)
  PROVE  Goes(t, "table", r, skipwhite(t, k + Len(w)), <<"table", janet_table_put(s.out[2], key, y)>>)
<1>1. PICK b \in Whites, u \in Seq(Token) :
        <<y, u>> \in LevelBelow(BackLevels, n) /\ w = <<<<"string", key[2]>>>> \o (<<Colon>> \o (b \o u))
  BY DEF MemberTexts
<1>2. PICK a \in Token : a = <<"string", key[2]>> /\ a[1] = "string" /\ keyed(a) = key
  <2>1. <<"string", key[2]>> \in Token
    BY DEF PlainKeys, Token, Named
  <2>2. keyed(<<"string", key[2]>>) = key
    BY DEF keyed, PlainKeys, Named
  <2> QED BY <2>1, <2>2
<1> DEFINE bu == b \o u
           cbu == <<Colon>> \o bu
<1>3. b \in Seq(Token) /\ <<Colon>> \in Seq(Token) /\ Colon \in Token
  BY MarkIs, Singles DEF Whites
<1>4. bu \in Seq(Token) /\ Splits(bu, b, u)
  BY <1>3, Joined DEF Splits
<1>5. w = <<a>> \o cbu
  BY <1>1, <1>2
<1> HIDE DEF bu
<1>6. cbu \in Seq(Token) /\ Splits(cbu, <<Colon>>, bu)
  BY <1>3, <1>4, Joined DEF Splits
<1> HIDE DEF cbu
<1>7. Splits(w, <<a>>, cbu)
  BY <1>5 DEF Splits
<1>8. PartText(n, "array", u) /\ Back(y, u)
  BY <1>1, LevelBack
<1>9. k \in Places(t) /\ At(t, k) = a /\ Holds(t, k + 1, cbu) /\ k + Len(w) = k + 1 + Len(cbu) /\ k \in Nat
  BY <1>6, <1>7, HoldsFirst
<1>10. PICK colon \in Nat : colon = k + 1
  BY <1>9
<1>11. Holds(t, colon, cbu)
  BY <1>9, <1>10
<1>12. colon \in Places(t) /\ At(t, colon) = Colon /\ colon + 1 \in Places(t) /\ Holds(t, colon + 1, bu) /\ colon + Len(cbu) = colon + 1 + Len(bu)
  BY <1>3, <1>4, <1>6, <1>11, HoldsFirst
<1>13. PICK g \in Places(t) : g = colon + 1
  BY <1>12
<1>14. Holds(t, g, bu)
  BY <1>12, <1>13
<1>15. Holds(t, g, b) /\ Holds(t, g + Len(b), u) /\ g + Len(bu) = g + Len(b) + Len(u) /\ g \in Nat /\ Len(b) \in Nat /\ Len(u) \in Nat
  BY <1>3, <1>4, <1>14, HoldsOf
<1>16. PICK v \in Nat : v = g + Len(b)
  BY <1>15
<1>17. Holds(t, v, u)
  BY <1>15, <1>16
<1>18. v \in Places(t) /\ At(t, v) = t[v] /\ t[v] # White
  BY <1>8, <1>17, PartStarts
<1>19. At(t, g + Len(b)) # White
  BY <1>16, <1>18
<1>20. skipwhite(t, g) = v
  BY <1>15, <1>16, <1>19, HoldsSkip
<1>21. PICK j \in 0 .. Guard : j = m - 1 /\ j + 1 = m
  BY JsonAssumption DEF JsonAssumption
<1>22. decode_one(t)[j + 1][g] = gives(v + Len(u), y)
  BY <1>8, <1>17, <1>20, <1>21 DEF Back
<1>23. v + Len(u) = k + Len(w)
  BY <1>9, <1>10, <1>12, <1>13, <1>15, <1>16
<1>24. decode_one(t)[m][k] = gives(colon, a)
  BY <1>2, <1>9, <1>10, StringRead, ZenonT(60)
<1>25. decode_one(t)[m][g] = gives(k + Len(w), y)
  BY <1>21, <1>22, <1>23
<1>26. skipwhite(t, colon) = colon
  <2>1. Blank(t, colon, colon) /\ colon \in colon .. Len(t) + 1 /\ Colon # White
    BY <1>12, Lengths, Differ DEF Blank, Places
  <2> QED BY <1>12, <2>1, SkipTo
<1> DEFINE d == decode_one(t)[m]
           q == skipwhite(t, k + Len(w))
           out == <<"table", janet_table_put(s.out[2], key, y)>>
<1>27. d[k] = gives(colon, a) /\ d[colon + 1] = gives(k + Len(w), y)
  BY <1>13, <1>24, <1>25
<1>28. r = LET name == skipwhite(t, s.p)
               key1 == d[name]
               colon1 == skipwhite(t, key1.p)
               x1 == d[colon1 + 1]
               q1 == skipwhite(t, x1.p)
               out1 == <<"table", janet_table_put(s.out[2], keyed(key1.out), x1.out)>>
           IN IF At(t, name)[1] # "string" \/ key1.is = "error" THEN fails
              ELSE IF At(t, colon1) # Colon \/ x1.is = "error" THEN fails
              ELSE IF At(t, q1) = EndObject THEN gives(q1 + 1, out1)
              ELSE IF At(t, q1) = Comma THEN more(q1 + 1, out1)
              ELSE fails
  BY DEF decode_member
<1> HIDE DEF d
<1>29. d[k].is = "done" /\ d[k].p = colon /\ d[k].out = a
  BY <1>27 DEF gives
<1>30. d[colon + 1].is = "done" /\ d[colon + 1].p = k + Len(w) /\ d[colon + 1].out = y
  BY <1>27 DEF gives
<1>31. r = IF At(t, q) = EndObject THEN gives(q + 1, out)
           ELSE IF At(t, q) = Comma THEN more(q + 1, out)
           ELSE fails
  BY <1>2, <1>9, <1>12, <1>26, <1>28, <1>29, <1>30
<1> HIDE DEF q, out
<1>32. EndObject # Comma /\ Ends("table") = EndObject
  BY Differ DEF Ends
<1>33. Goes(t, "table", r, q, out)
  BY <1>31, <1>32 DEF Goes
<1> QED BY <1>33 DEF q, out

(* The text of a part that comes back may stand between brackets. *)
LEMMA PartsBack ==
  ASSUME NEW n \in 0 .. Deep, NEW kind \in {"array", "table"}, NEW x \in Made(kind, Parted(n)),
         NEW i \in 1 .. Len(Parts(x)), NEW w, w \in PartTexts(LevelBelow(BackLevels, n), x, i)
  PROVE  w \in Seq(Token) /\ PartText(n, kind, w) /\ w \in PartTexts(LevelBelow(JsonLevels, n), x, i)
<1>1. x[1] = kind
  BY DEF Made
<1>2. CASE kind = "array"
  <2>1. <<Parts(x)[i], w>> \in LevelBelow(BackLevels, n) /\ w \in Seq(Token)
    BY <1>1, <1>2 DEF PartTexts, ItemTexts
  <2>2. <<Parts(x)[i], w>> \in LevelBelow(JsonLevels, n)
    BY <2>1, LevelBack
  <2>3. w \in PartTexts(LevelBelow(JsonLevels, n), x, i)
    BY <1>1, <1>2, <2>1, <2>2 DEF PartTexts, ItemTexts
  <2> QED BY <2>3, PartTextIn
<1>3. CASE kind = "table"
  <2> DEFINE k == Parts(x)[i]
             y == x[2][k]
  <2>1. w \in MemberTexts(LevelBelow(BackLevels, n), k, y)
    BY <1>1, <1>3 DEF PartTexts
  <2> HIDE DEF y, k
  <2>2. \A u : <<y, u>> \in LevelBelow(BackLevels, n) => <<y, u>> \in LevelBelow(JsonLevels, n)
    BY LevelBack
  <2>3. w \in MemberTexts(LevelBelow(JsonLevels, n), k, y)
    BY <2>1, <2>2 DEF MemberTexts
  <2>4. w \in PartTexts(LevelBelow(JsonLevels, n), x, i)
    BY <1>1, <1>3, <2>3 DEF PartTexts, y, k
  <2> QED BY <2>4, PartTextIn
<1> QED BY <1>2, <1>3

(* The loop at a part of a value that comes back. *)
LEMMA PartBack ==
  ASSUME NEW n \in 0 .. Deep, NEW kind \in {"array", "table"}, NEW x \in Made(kind, Parted(n)),
         NEW m \in 0 .. Guard, x \in Plain[m],
         NEW i \in 1 .. Len(Parts(x)), NEW w, w \in PartTexts(LevelBelow(BackLevels, n), x, i),
         NEW t \in Seq(Token), NEW k, Holds(t, k, w), NEW p \in Places(t), skipwhite(t, p) = k,
         NEW s, s.is = "more", s.p = p, s.out[1] = kind,
         NEW r, r = decode_part(decode_one(t)[m], t, s)
  PROVE  Goes(t, kind, r, skipwhite(t, k + Len(w)), Put(x, i, s.out))
<1>1. w \in Seq(Token) /\ PartText(n, kind, w)
  BY PartsBack
<1>2. At(t, k) = t[k] /\ t[k] \notin {White, Comma, EndArray, EndObject} /\ k \in Nat
  BY <1>1, PartStarts
<1>3. At(t, p) \notin {EndArray, EndObject}
  <2>1. PICK q \in p .. Len(t) + 1 : q = k /\ Blank(t, p, q)
    BY SkipIs
  <2>2. p \in Nat /\ Len(t) \in Nat /\ p <= k
    BY <2>1, Lengths DEF Places
  <2>3. CASE p = k
    BY <1>2, <2>3
  <2>4. CASE p < k
    <3>1. p \in p .. q - 1 /\ p <= Len(t)
      BY <1>2, <2>1, <2>2, <2>4
    <3>2. t[p] = White /\ At(t, p) = t[p]
      BY <2>1, <3>1, AtIs DEF Blank
    <3> QED BY <3>2, Differ
  <2> QED BY <1>2, <2>2, <2>3, <2>4
<1>4. x[1] = kind
  BY DEF Made
<1>5. m \in 0 .. Deep
  BY JsonAssumption DEF JsonAssumption
<1>6. CASE kind = "array"
  <2> DEFINE y == Parts(x)[i]
  <2>1. m # 0 /\ y \in Plain[m - 1]
    BY <1>5, <1>6, PlainParts
  <2>2. <<y, w>> \in LevelBelow(BackLevels, n)
    BY <1>4, <1>6 DEF PartTexts, ItemTexts
  <2>3. Back(y, w)
    BY <2>2, LevelBack
  <2>4. r = decode_item(decode_one(t)[m], t, s)
    BY <1>6 DEF decode_part
  <2>5. Put(x, i, s.out) = <<"array", Append(s.out[2], y)>>
    BY <1>4, <1>6 DEF Put
  <2> HIDE DEF y
  <2>6. Goes(t, "array", r, skipwhite(t, k + Len(w)), <<"array", Append(s.out[2], y)>>)
    BY <1>1, <1>3, <2>1, <2>3, <2>4, ItemBack
  <2> QED BY <1>6, <2>5, <2>6
<1>7. CASE kind = "table"
  <2> DEFINE key == Parts(x)[i]
             y == x[2][key]
  <2>1. m # 0 /\ key \in PlainKeys /\ y \in Plain[m - 1]
    BY <1>5, <1>7, PlainParts
  <2>2. w \in MemberTexts(LevelBelow(BackLevels, n), key, y)
    BY <1>4, <1>7 DEF PartTexts
  <2>3. r = decode_member(decode_one(t)[m], t, s)
    BY <1>7 DEF decode_part
  <2>4. Put(x, i, s.out) = <<"table", janet_table_put(s.out[2], key, y)>>
    BY <1>4, <1>7 DEF Put
  <2> HIDE DEF y, key
  <2>5. Goes(t, "table", r, skipwhite(t, k + Len(w)), <<"table", janet_table_put(s.out[2], key, y)>>)
    BY <1>3, <2>1, <2>2, <2>3, MemberBack
  <2> QED BY <1>7, <2>4, <2>5
<1> QED BY <1>6, <1>7

(* What the loop has when it is through with the first j parts of x. *)
OutOf(x, j) ==
  IF x[1] = "array" THEN <<"array", [l \in 1 .. j |-> Parts(x)[l]]>>
  ELSE <<"table", [k \in Key |-> IF \E l \in 1 .. j : Parts(x)[l] = k THEN x[2][k] ELSE Nil]>>

(* Before the first part it has nothing, *)
LEMMA OutNone ==
  ASSUME NEW P, NEW kind \in {"array", "table"}, NEW x \in Made(kind, P)
  PROVE  OutOf(x, 0) = IF kind = "array" THEN <<"array", <<>>>> ELSE <<"table", [k \in Key |-> Nil]>>
<1>1. x[1] = kind
  BY DEF Made
<1>2. CASE kind = "array"
  <2> DEFINE f == [l \in 1 .. 0 |-> Parts(x)[l]]
  <2>1. f = <<>>
    OBVIOUS
  <2>2. OutOf(x, 0) = <<"array", f>>
    BY <1>1, <1>2 DEF OutOf
  <2> HIDE DEF f
  <2> QED BY <1>2, <2>1, <2>2
<1>3. CASE kind = "table"
  <2> DEFINE f == [k \in Key |-> IF \E l \in 1 .. 0 : Parts(x)[l] = k THEN x[2][k] ELSE Nil]
  <2>1. f = [k \in Key |-> Nil]
    OBVIOUS
  <2>2. OutOf(x, 0) = <<"table", f>>
    BY <1>1, <1>3 DEF OutOf
  <2> HIDE DEF f
  <2> QED BY <1>3, <2>1, <2>2
<1> QED BY <1>2, <1>3

(* each part is put behind those before, *)
LEMMA OutPut ==
  ASSUME NEW P, Keyed(P), NEW kind \in {"array", "table"}, NEW x \in Made(kind, P),
         NEW j \in Nat, NEW i \in 1 .. Len(Parts(x)), i = j + 1
  PROVE  Put(x, i, OutOf(x, j)) = OutOf(x, i) /\ OutOf(x, j)[1] = kind
<1>1. /\ x[1] = kind /\ Len(Parts(x)) \in Nat
      /\ \A l \in 1 .. Len(Parts(x)) :
           Parts(x)[l] \in P /\ (kind = "table" => Parts(x)[l] \in Key)
  BY PartsAre
<1>2. \A l \in 1 .. i : l \in 1 .. Len(Parts(x)) /\ (l \in 1 .. j \/ l = i)
  BY <1>1
<1>3. CASE kind = "array"
  <2> DEFINE f == [l \in 1 .. j |-> Parts(x)[l]]
             g == [l \in 1 .. i |-> Parts(x)[l]]
             h == Append(f, Parts(x)[i])
  <2>1. OutOf(x, j) = <<"array", f>> /\ OutOf(x, i) = <<"array", g>>
    BY <1>1, <1>3 DEF OutOf
  <2>2. Put(x, i, OutOf(x, j)) = <<"array", h>>
    BY <1>1, <1>3, <2>1 DEF Put
  <2>3. \A l \in 1 .. j : f[l] = Parts(x)[l] /\ f[l] \in P
    BY <1>1, <1>2
  <2>4. f \in Seq(P) /\ Len(f) = j
    BY <1>1, <1>2
  <2>5. g \in Seq(P) /\ Len(g) = i /\ \A l \in 1 .. i : g[l] = Parts(x)[l]
    BY <1>1, <1>2
  <2> HIDE DEF f, g
  <2>6. /\ h \in Seq(P) /\ Len(h) = j + 1
        /\ \A l \in 1 .. j : h[l] = f[l]
        /\ h[j + 1] = Parts(x)[i]
    BY <1>1, <2>4, AppendProperties
  <2> HIDE DEF h
  <2>7. \A l \in 1 .. i : h[l] = g[l]
    BY <1>2, <2>3, <2>5, <2>6
  <2>8. h = g
    BY <2>5, <2>6, <2>7, SeqEqual
  <2> QED BY <1>3, <2>1, <2>2, <2>8
<1>4. CASE kind = "table"
  <2> DEFINE key == Parts(x)[i]
             f == [k \in Key |-> IF \E l \in 1 .. j : Parts(x)[l] = k THEN x[2][k] ELSE Nil]
             g == [k \in Key |-> IF \E l \in 1 .. i : Parts(x)[l] = k THEN x[2][k] ELSE Nil]
             h == [f EXCEPT ![key] = x[2][key]]
  <2>1. OutOf(x, j) = <<"table", f>> /\ OutOf(x, i) = <<"table", g>>
    BY <1>1, <1>4 DEF OutOf
  <2>2. Put(x, i, OutOf(x, j)) = <<"table", h>>
    BY <1>1, <1>4, <2>1 DEF Put, janet_table_put
  <2>3. \A k \in Key : h[k] = g[k]
    <3> SUFFICES ASSUME NEW k \in Key PROVE h[k] = g[k]
      OBVIOUS
    <3>1. h[k] = IF k = key THEN x[2][k] ELSE IF \E l \in 1 .. j : Parts(x)[l] = k THEN x[2][k] ELSE Nil
      OBVIOUS
    <3>2. g[k] = IF \E l \in 1 .. i : Parts(x)[l] = k THEN x[2][k] ELSE Nil
      OBVIOUS
    <3>3. (\E l \in 1 .. i : Parts(x)[l] = k) <=> (k = key \/ \E l \in 1 .. j : Parts(x)[l] = k)
      <4>1. i \in 1 .. i /\ \A l \in 1 .. j : l \in 1 .. i
        BY <1>1
      <4> QED BY <1>2, <4>1
    <3> HIDE DEF h, g, key
    <3> QED BY <3>1, <3>2, <3>3
  <2>4. h = g
    <3>1. h = [k \in Key |-> h[k]]
      OBVIOUS
    <3>2. g = [k \in Key |-> g[k]]
      OBVIOUS
    <3> HIDE DEF h, g, f
    <3> QED BY <2>3, <3>1, <3>2
  <2> HIDE DEF f, g, h
  <2> QED BY <1>4, <2>1, <2>2, <2>4
<1> QED BY <1>3, <1>4

(* and all of them are the value. *)
LEMMA OutAll ==
  ASSUME NEW P, NEW kind \in {"array", "table"}, NEW x \in Made(kind, P)
  PROVE  OutOf(x, Len(Parts(x))) = x
<1>1. CASE kind = "array"
  <2>1. x[1] = "array" /\ x[2] \in Seq(P) /\ x = <<"array", x[2]>>
    BY <1>1 DEF Made
  <2>2. Parts(x) = x[2]
    BY <2>1 DEF Parts
  <2> DEFINE f == [l \in 1 .. Len(x[2]) |-> x[2][l]]
  <2>3. f = x[2]
    BY <2>1
  <2>4. OutOf(x, Len(Parts(x))) = <<"array", f>>
    BY <2>1, <2>2 DEF OutOf
  <2> HIDE DEF f
  <2> QED BY <2>1, <2>3, <2>4
<1>2. CASE kind = "table"
  <2>1. x[1] = "table" /\ x[2] \in Table(P) /\ x = <<"table", x[2]>>
    BY <1>2 DEF Made
  <2> DEFINE K == {k \in Key : x[2][k] # Nil}
             n == Len(Parts(x))
             f == [k \in Key |-> IF \E l \in 1 .. n : Parts(x)[l] = k THEN x[2][k] ELSE Nil]
  <2>2. Parts(x) = slots[K]
    BY <2>1 DEF Parts
  <2>3. \A k \in K : \E l \in 1 .. Len(slots[K]) : slots[K][l] = k
    BY JsonAssumption DEF JsonAssumption
  <2>4. \A k \in Key : f[k] = x[2][k]
    <3> SUFFICES ASSUME NEW k \in Key PROVE f[k] = x[2][k]
      OBVIOUS
    <3>1. CASE x[2][k] = Nil
      BY <3>1
    <3>2. CASE x[2][k] # Nil
      <4>1. k \in K
        BY <3>2
      <4> HIDE DEF K
      <4>2. \E l \in 1 .. n : Parts(x)[l] = k
        BY <2>2, <2>3, <4>1
      <4> HIDE DEF n
      <4> QED BY <4>2
    <3> QED BY <3>1, <3>2
  <2>5. f = x[2]
    <3>1. f = [k \in Key |-> f[k]] /\ x[2] = [k \in Key |-> x[2][k]]
      BY <2>1 DEF Table
    <3> HIDE DEF f
    <3> QED BY <2>4, <3>1
  <2>6. OutOf(x, n) = <<"table", f>>
    BY <2>1 DEF OutOf
  <2> HIDE DEF f
  <2> QED BY <2>1, <2>5, <2>6
<1> QED BY <1>1, <1>2

(* The texts after which the loop is through with the first j parts of x.  *)
TurnsBack(x, kind, j, v) ==
  \A m \in 0 .. Guard : x \in Plain[m] =>
    \A t \in Seq(Token) : \A a, turn :
      Holds(t, a, v) /\ DecodeTurns(decode_one(t)[m], t, a, OutOf(x, 0), turn) =>
        j <= Len(v) /\ Goes(t, kind, turn[j], skipwhite(t, a + Len(v)), OutOf(x, j))

(* One turn gets back the first part, *)
LEMMA TurnsBackOne ==
  ASSUME NEW n \in 0 .. Deep, NEW kind \in {"array", "table"}, NEW x \in Made(kind, Parted(n)),
         1 <= Len(Parts(x)), NEW w, w \in PartTexts(LevelBelow(BackLevels, n), x, 1), NEW b \in Whites
  PROVE  TurnsBack(x, kind, 1, b \o w)
<1> DEFINE u == b \o w
<1> SUFFICES ASSUME NEW m \in 0 .. Guard, x \in Plain[m], NEW t \in Seq(Token), NEW a, NEW turn, Holds(t, a, u),
                    DecodeTurns(decode_one(t)[m], t, a, OutOf(x, 0), turn)
             PROVE  1 <= Len(u) /\ Goes(t, kind, turn[1], skipwhite(t, a + Len(u)), OutOf(x, 1))
  BY DEF TurnsBack
<1>1. Keyed(Parted(n)) /\ Len(Parts(x)) \in Nat
  BY PartedKeyed, PartsAre
<1>2. PICK i \in 1 .. Len(Parts(x)) : i = 1 /\ i = 0 + 1
  BY <1>1
<1>3. w \in PartTexts(LevelBelow(BackLevels, n), x, i)
  BY <1>2
<1>4. w \in Seq(Token) /\ PartText(n, kind, w)
  BY <1>3, PartsBack
<1>5. b \in Seq(Token) /\ Splits(u, b, w)
  BY DEF Whites, Splits
<1> HIDE DEF u
<1>6. Holds(t, a, b) /\ Holds(t, a + Len(b), w) /\ a + Len(u) = a + Len(b) + Len(w) /\ a \in Nat /\ Len(b) \in Nat /\ Len(w) \in Nat
  BY <1>4, <1>5, HoldsOf
<1>7. PICK k \in Nat : k = a + Len(b)
  BY <1>6
<1>8. Holds(t, k, w) /\ k + Len(w) = a + Len(u)
  BY <1>6, <1>7
<1>9. k \in Places(t) /\ At(t, k) = t[k] /\ t[k] # White /\ skipwhite(t, k) = k /\ 1 <= Len(w)
  BY <1>4, <1>8, PartStarts
<1>10. skipwhite(t, a) = k
  <2>1. At(t, a + Len(b)) # White
    BY <1>7, <1>9
  <2> QED BY <1>6, <1>7, <2>1, HoldsSkip
<1>11. 1 <= Len(u)
  <2>1. Len(u) \in Nat
    <3>1. b \o w \in Seq(Token)
      BY <1>4, <1>5, Joined
    <3> QED BY <1>5, <3>1, Lengths DEF Splits
  <2> QED BY <1>6, <1>9, <2>1
<1>12. turn[0] = more(k, OutOf(x, 0)) /\ turn[1] = decode_part(decode_one(t)[m], t, turn[0])
  <2>1. 1 \in 1 .. Len(t) + 1 /\ 1 - 1 = 0
    BY Lengths
  <2> QED BY <1>10, <2>1 DEF DecodeTurns
<1>13. Put(x, i, OutOf(x, 0)) = OutOf(x, i) /\ OutOf(x, 0)[1] = kind
  BY <1>1, <1>2, OutPut
<1>14. PICK s : s = turn[0] /\ s.is = "more" /\ s.p = k /\ s.out = OutOf(x, 0)
  BY <1>12 DEF more
<1>15. s.is = "more" /\ s.p = k /\ s.out[1] = kind /\ turn[1] = decode_part(decode_one(t)[m], t, s)
  BY <1>12, <1>13, <1>14
<1>16. Goes(t, kind, turn[1], skipwhite(t, k + Len(w)), Put(x, i, s.out))
  BY <1>3, <1>8, <1>9, <1>15, PartBack
<1>17. Goes(t, kind, turn[1], skipwhite(t, a + Len(u)), OutOf(x, 1))
  BY <1>2, <1>8, <1>13, <1>14, <1>16
<1> QED BY <1>11, <1>17

(* one more the next. *)
LEMMA TurnsBackMore ==
  ASSUME NEW n \in 0 .. Deep, NEW kind \in {"array", "table"}, NEW x \in Made(kind, Parted(n)),
         NEW j \in Nat, NEW i \in 1 .. Len(Parts(x)), i = j + 1,
         NEW w, w \in PartTexts(LevelBelow(BackLevels, n), x, i), NEW b \in Whites,
         NEW v \in Seq(Token), TurnsBack(x, kind, j, v)
  PROVE  TurnsBack(x, kind, i, v \o (<<Comma>> \o (b \o w)))
<1> DEFINE u == b \o w
           cu == <<Comma>> \o u
           z == v \o cu
<1> SUFFICES ASSUME NEW m \in 0 .. Guard, x \in Plain[m], NEW t \in Seq(Token), NEW a, NEW turn, Holds(t, a, z),
                    DecodeTurns(decode_one(t)[m], t, a, OutOf(x, 0), turn)
             PROVE  i <= Len(z) /\ Goes(t, kind, turn[i], skipwhite(t, a + Len(z)), OutOf(x, i))
  BY DEF TurnsBack
<1>1. Keyed(Parted(n)) /\ Len(Parts(x)) \in Nat
  BY PartedKeyed, PartsAre
<1>2. w \in Seq(Token) /\ PartText(n, kind, w)
  BY PartsBack
<1>3. b \in Seq(Token) /\ <<Comma>> \in Seq(Token) /\ Comma \in Token
  BY MarkIs, Singles DEF Whites
<1>4. u \in Seq(Token) /\ Splits(u, b, w)
  BY <1>2, <1>3, Joined DEF Splits
<1> HIDE DEF u
<1>5. cu \in Seq(Token) /\ Splits(cu, <<Comma>>, u)
  BY <1>3, <1>4, Joined DEF Splits
<1> HIDE DEF cu
<1>6. z \in Seq(Token) /\ Splits(z, v, cu)
  BY <1>5, Joined DEF Splits
<1> HIDE DEF z
<1>7. Holds(t, a, v) /\ Holds(t, a + Len(v), cu) /\ a + Len(z) = a + Len(v) + Len(cu) /\ a \in Nat /\ Len(v) \in Nat /\ Len(cu) \in Nat
  BY <1>5, <1>6, HoldsOf
<1>8. PICK e \in Nat : e = a + Len(v)
  BY <1>7
<1>9. Holds(t, e, cu)
  BY <1>7, <1>8
<1>10. e \in 1 .. Len(t) /\ e \in Places(t) /\ At(t, e) = Comma /\ e + 1 \in Places(t) /\ Holds(t, e + 1, u) /\ e + Len(cu) = e + 1 + Len(u) /\ Len(u) \in Nat
  BY <1>3, <1>4, <1>5, <1>9, HoldsFirst
<1>11. PICK p \in Places(t) : p = e + 1
  BY <1>10
<1>12. Holds(t, p, u)
  BY <1>10, <1>11
<1>13. Holds(t, p, b) /\ Holds(t, p + Len(b), w) /\ p + Len(u) = p + Len(b) + Len(w) /\ p \in Nat /\ Len(b) \in Nat /\ Len(w) \in Nat
  BY <1>2, <1>3, <1>4, <1>12, HoldsOf
<1>14. PICK k \in Nat : k = p + Len(b)
  BY <1>13
<1>15. Holds(t, k, w) /\ k + Len(w) = a + Len(z)
  BY <1>7, <1>8, <1>10, <1>11, <1>13, <1>14
<1>16. At(t, k) = t[k] /\ t[k] # White /\ 1 <= Len(w)
  BY <1>2, <1>15, PartStarts, SMTT(60)
<1>17. skipwhite(t, p) = k
  <2>1. At(t, p + Len(b)) # White
    BY <1>14, <1>16
  <2> QED BY <1>13, <1>14, <2>1, HoldsSkip
<1>18. skipwhite(t, e) = e
  <2>1. Blank(t, e, e) /\ e \in e .. Len(t) + 1 /\ Comma # White
    BY <1>10, Lengths, Differ DEF Blank, Places
  <2> QED BY <1>10, <2>1, SkipTo
<1>19. j <= Len(v) /\ Goes(t, kind, turn[j], skipwhite(t, a + Len(v)), OutOf(x, j))
  BY <1>7 DEF TurnsBack
<1>20. turn[j] = more(e + 1, OutOf(x, j))
  BY <1>8, <1>10, <1>18, <1>19 DEF Goes
<1>21. i <= Len(z) /\ i \in 1 .. Len(t) + 1 /\ i - 1 = j
  <2>1. Len(z) \in Nat /\ Len(t) \in Nat
    BY <1>6, Lengths
  <2>2. Len(z) = Len(v) + Len(cu) /\ Len(cu) = 1 + Len(u)
    BY <1>7, <1>10, <2>1, SMTT(60)
  <2>3. 1 <= a
    BY <1>7 DEF Holds, Places
  <2>4. PICK lv \in Nat, lz \in Nat, lt \in Nat, lu \in Nat : lv = Len(v) /\ lz = Len(z) /\ lt = Len(t) /\ lu = Len(u)
    BY <1>7, <1>10, <2>1
  <2>5. lz = lv + (1 + lu) /\ a + lv <= lt /\ j <= lv /\ a \in Nat
    <3>1. lz = lv + (1 + lu)
      BY <2>2, <2>4
    <3>2. e <= lt /\ a + lv = e
      BY <1>8, <1>10, <2>4
    <3>3. j <= lv
      <4>1. j <= Len(v)
        BY <1>19
      <4> QED BY <2>4, <4>1
    <3> QED BY <1>7, <3>1, <3>2, <3>3
  <2>6. j + 1 <= lz /\ j + 1 \in 1 .. lt + 1 /\ j + 1 - 1 = j
    BY ONLY <2>3, <2>5, j \in Nat, lv \in Nat, lt \in Nat, lu \in Nat, lz \in Nat
  <2> QED BY <2>4, <2>6
<1>22. turn[i] = decode_part(decode_one(t)[m], t, turn[j])
  BY <1>21 DEF DecodeTurns
<1>23. Put(x, i, OutOf(x, j)) = OutOf(x, i) /\ OutOf(x, j)[1] = kind
  BY <1>1, OutPut
<1>24. PICK s : s = turn[j] /\ s.is = "more" /\ s.p = p /\ s.out = OutOf(x, j)
  BY <1>11, <1>20 DEF more
<1>25. s.is = "more" /\ s.p = p /\ s.out[1] = kind /\ turn[i] = decode_part(decode_one(t)[m], t, s)
  BY <1>22, <1>23, <1>24
<1>26. Goes(t, kind, turn[i], skipwhite(t, k + Len(w)), Put(x, i, s.out))
  BY <1>15, <1>17, <1>25, PartBack
<1>27. Goes(t, kind, turn[i], skipwhite(t, a + Len(z)), OutOf(x, i))
  BY <1>15, <1>23, <1>24, <1>26
<1> QED BY <1>21, <1>27

(* Once the loop has ended it stays as it is. *)
LEMMA TurnsStay ==
  ASSUME NEW deeper, NEW t \in Seq(Token), NEW a, NEW empty, NEW turn, DecodeTurns(deeper, t, a, empty, turn),
         NEW j \in 0 .. Len(t) + 1, turn[j].is # "more"
  PROVE  turn[Len(t) + 1] = turn[j]
<1>1. Len(t) \in Nat
  BY Lengths
<1> DEFINE P == {l \in Nat : j + l <= Len(t) + 1 => turn[j + l] = turn[j]}
<1>2. 0 \in P
  BY <1>1
<1>3. ASSUME NEW l \in Nat, l \in P PROVE l + 1 \in P
  <2> SUFFICES ASSUME j + (l + 1) <= Len(t) + 1 PROVE turn[j + (l + 1)] = turn[j]
    OBVIOUS
  <2>1. PICK i \in 1 .. Len(t) + 1 : i = j + (l + 1) /\ i - 1 = j + l
    BY <1>1
  <2>2. turn[j + l] = turn[j]
    BY <1>1, <1>3
  <2>3. turn[i] = decode_part(deeper, t, turn[i - 1])
    BY DEF DecodeTurns
  <2> QED BY <2>1, <2>2, <2>3 DEF decode_part
<1> HIDE DEF P
<1>4. PICK l \in Nat : l = Len(t) + 1 - j /\ j + l = Len(t) + 1
  BY <1>1
<1>5. l \in P
  BY <1>2, <1>3, NatInd
<1> QED BY <1>1, <1>4, <1>5 DEF P

(* A value comes back from its parts between brackets. *)
LEMMA BracketBack ==
  ASSUME NEW n \in 0 .. Deep, NEW kind \in {"array", "table"}, NEW x \in Made(kind, Parted(n)),
         NEW V, \A j : \A v : <<j, v>> \in V => TurnsBack(x, kind, j, v),
         NEW w \in Seq(Token), Bracketed(V, Len(Parts(x)), Opening(kind), Ends(kind), w)
  PROVE  Back(x, w)
<1> SUFFICES ASSUME NEW m \in 0 .. Guard, x \in Plain[m], NEW t \in Seq(Token), NEW i, NEW p \in Places(t),
                    Holds(t, i, w), skipwhite(t, p) = i
             PROVE  decode_one(t)[m + 1][p] = gives(i + Len(w), x)
  BY DEF Back
<1>1. PICK v \in Seq(Token) : Within(V, Len(Parts(x)), v) /\ w = <<Opening(kind)>> \o (v \o <<Ends(kind)>>)
  BY DEF Bracketed
<1>2. PICK opening \in Token, closing \in Token : opening = Opening(kind) /\ closing = Ends(kind)
  BY MarkIs DEF Opening, Ends
<1> DEFINE vc == v \o <<closing>>
<1>3. w = <<opening>> \o vc
  BY <1>1, <1>2
<1>4. PICK f \in Seq(Token) : f = <<closing>>
  BY Singles
<1>5. vc \in Seq(Token) /\ Splits(vc, v, f)
  BY <1>4, Joined DEF Splits
<1> HIDE DEF vc
<1>6. Splits(w, <<opening>>, vc)
  BY <1>3 DEF Splits
<1>7. /\ i \in Places(t) /\ At(t, i) = opening /\ i + 1 \in Places(t) /\ Holds(t, i + 1, vc)
      /\ i + Len(w) = i + 1 + Len(vc) /\ i \in Nat
  BY <1>5, <1>6, HoldsFirst
<1>8. PICK a \in Places(t) : a = i + 1
  BY <1>7
<1>9. Holds(t, a, vc)
  BY <1>7, <1>8
<1>10. Holds(t, a, v) /\ Holds(t, a + Len(v), f) /\ a + Len(vc) = a + Len(v) + Len(f) /\ a \in Nat /\ Len(v) \in Nat
  <2>1. Splits(vc, v, f)
    BY <1>5
  <2> QED BY <1>5, <1>9, <2>1, HoldsOf
<1>11. PICK q \in Nat : q = a + Len(v)
  BY <1>10
<1>12. Holds(t, q, <<closing>>)
  BY <1>4, <1>10, <1>11
<1>13. q \in 1 .. Len(t) /\ q \in Places(t) /\ At(t, q) = closing /\ Len(<<closing>>) = 1
  BY <1>12, HoldsOne
<1>14. i + Len(w) = q + 1
  BY <1>4, <1>7, <1>8, <1>10, <1>11, <1>13
<1>15. closing \in {EndArray, EndObject} /\ closing # White
  BY <1>2, Differ DEF Ends
<1> DEFINE d == decode_one(t)[m]
           empty == OutOf(x, 0)
<1>16. decode_one(t)[m + 1][p] = decode_token(d, t, i)
  BY DecodeTurn
<1>17. decode_token(d, t, i) = decode_parts(d, t, a, empty)
  <2>1. BeginArray # Null /\ BeginObject # Null /\ BeginArray # BeginObject
    BY Differ
  <2>2. BeginArray[1] \notin Atoms /\ BeginObject[1] \notin Atoms
    BY BracketIs
  <2>3. CASE kind = "array"
    <3>1. At(t, i) = BeginArray /\ empty = <<"array", <<>>>>
      BY <1>2, <1>7, <2>3, OutNone DEF Opening
    <3> HIDE DEF empty, d
    <3> QED BY <1>8, <2>1, <2>2, <3>1 DEF decode_token
  <2>4. CASE kind = "table"
    <3>1. At(t, i) = BeginObject /\ empty = <<"table", [k \in Key |-> Nil]>>
      BY <1>2, <1>7, <2>4, OutNone DEF Opening
    <3> HIDE DEF empty, d
    <3> QED BY <1>8, <2>1, <2>2, <3>1 DEF decode_token
  <2> QED BY <2>3, <2>4
<1>18. PICK turn : DecodeTurns(d, t, a, empty, turn) /\ decode_parts(d, t, a, empty) = turn[Len(t) + 1]
  BY Lengths, PartsIs
<1>19. Len(Parts(x)) \in Nat /\ OutOf(x, Len(Parts(x))) = x
  BY PartedKeyed, PartsAre, OutAll
<1>20. \E j \in 0 .. Len(t) + 1 : turn[j] = gives(q + 1, x)
  <2>1. CASE Len(Parts(x)) = 0 /\ v = <<>>
    <3>1. Len(v) = 0 /\ empty = x
      BY <1>19, <2>1
    <3>2. q = a
      BY <1>10, <1>11, <3>1
    <3>3. skipwhite(t, a) = a
      <4>1. Blank(t, a, a) /\ a \in a .. Len(t) + 1 /\ At(t, a) # White
        BY <1>10, <1>13, <1>15, <3>2, Lengths DEF Blank
      <4> QED BY <4>1, SkipTo
    <3>4. 1 \in 1 .. Len(t) + 1 /\ 1 - 1 = 0 /\ 1 \in 0 .. Len(t) + 1
      BY Lengths
    <3>5. turn[0] = more(a, empty) /\ turn[1] = decode_part(d, t, turn[0])
      BY <1>18, <3>3, <3>4 DEF DecodeTurns
    <3>6. turn[0].is = "more" /\ turn[0].p = a /\ turn[0].out = x
      BY <3>1, <3>5 DEF more
    <3>7. x[1] = kind
      BY DEF Made
    <3> HIDE DEF d, empty
    <3>8. turn[1] = gives(a + 1, x)
      <4>1. CASE kind = "array"
        <5>1. turn[1] = decode_item(d, t, turn[0])
          BY <3>5, <3>6, <3>7, <4>1 DEF decode_part
        <5>2. At(t, turn[0].p) = EndArray
          BY <1>2, <1>13, <3>2, <3>6, <4>1 DEF Ends
        <5> QED BY <3>6, <5>1, <5>2 DEF decode_item
      <4>2. CASE kind = "table"
        <5>1. turn[1] = decode_member(d, t, turn[0])
          BY <3>5, <3>6, <3>7, <4>2 DEF decode_part
        <5>2. At(t, turn[0].p) = EndObject
          BY <1>2, <1>13, <3>2, <3>6, <4>2 DEF Ends
        <5> QED BY <3>6, <5>1, <5>2 DEF decode_member
      <4> QED BY <4>1, <4>2
    <3> QED BY <3>2, <3>4, <3>8
  <2>2. CASE Len(Parts(x)) # 0 /\ \E z \in Seq(Token), b \in Whites : <<Len(Parts(x)), z>> \in V /\ v = z \o b
    <3>1. PICK z \in Seq(Token), b \in Whites : <<Len(Parts(x)), z>> \in V /\ v = z \o b
      BY <2>2
    <3>2. Splits(v, z, b) /\ b \in Seq(Token)
      BY <3>1 DEF Splits, Whites
    <3>3. PICK j \in Nat : j = Len(Parts(x))
      BY <1>19
    <3>4. TurnsBack(x, kind, j, z)
      BY <3>1, <3>3
    <3>5. Holds(t, a, z) /\ Holds(t, a + Len(z), b) /\ a + Len(v) = a + Len(z) + Len(b) /\ Len(z) \in Nat /\ Len(b) \in Nat
      BY <1>10, <3>2, HoldsOf, SMTT(60)
    <3>6. PICK e \in Nat : e = a + Len(z)
      BY <1>10, <3>5, SMTT(60)
    <3>7. Holds(t, e, b) /\ e + Len(b) = q
      BY <1>11, <3>5, <3>6
    <3>8. skipwhite(t, e) = q
      <4>1. At(t, e + Len(b)) # White
        BY <1>13, <1>15, <3>7
      <4> QED BY <3>7, <4>1, HoldsSkip
    <3>9. j <= Len(z) /\ Goes(t, kind, turn[j], skipwhite(t, a + Len(z)), OutOf(x, j))
      BY <1>18, <3>4, <3>5 DEF TurnsBack
    <3>10. Goes(t, kind, turn[j], q, x)
      BY <1>19, <3>3, <3>6, <3>8, <3>9
    <3>11. turn[j] = gives(q + 1, x)
      BY <1>2, <1>13, <3>10 DEF Goes
    <3>12. j \in 0 .. Len(t) + 1
      <4>1. PICK lz \in Nat, lb \in Nat, lt \in Nat : lz = Len(z) /\ lb = Len(b) /\ lt = Len(t)
        BY <3>5, Lengths
      <4>2. a + lz + lb <= lt /\ j <= lz /\ a \in Nat
        BY <1>10, <1>11, <1>13, <3>5, <3>9, <4>1
      <4>3. j \in 0 .. lt + 1
        BY ONLY <4>2, lz \in Nat, lb \in Nat, lt \in Nat, j \in Nat
      <4> QED BY <4>1, <4>3
    <3> QED BY <3>11, <3>12
  <2> QED BY <1>1, <2>1, <2>2 DEF Within
<1>21. turn[Len(t) + 1] = gives(q + 1, x)
  <2>1. PICK j \in 0 .. Len(t) + 1 : turn[j] = gives(q + 1, x)
    BY <1>20
  <2>2. turn[j].is # "more"
    BY <2>1 DEF gives
  <2>3. DecodeTurns(d, t, a, empty, turn)
    BY <1>18
  <2> HIDE DEF d, empty
  <2>4. turn[Len(t) + 1] = turn[j]
    BY <2>2, <2>3, TurnsStay
  <2> QED BY <2>1, <2>4
<1> HIDE DEF d, empty
<1> QED BY <1>14, <1>16, <1>17, <1>18, <1>21

(* Texts that values come back from grow to texts that they come back      *)
(* from.                                                                   *)
LEMMA BackGrows ==
  ASSUME NEW n \in 0 .. Deep
  PROVE  Grows(LevelBelow(BackLevels, n), BackLevels[n], n)
<1> DEFINE S == LevelBelow(BackLevels, n)
<1>1. BackLevels[n] = BackTexts(n)
  BY DEF BackLevels
<1>2. JsonLevels[n] = JsonTexts(n) /\ Grows(LevelBelow(JsonLevels, n), JsonLevels[n], n)
  BY JsonGrows DEF JsonLevels
<1>3. KeyTexts(BackTexts(n))
  <2>1. KeyTexts(JsonTexts(n))
    BY <1>2 DEF Grows
  <2> QED BY <2>1 DEF KeyTexts, BackTexts
<1>4. ASSUME NEW x \in Key \cup {Nil}, x[1] # "function" PROVE <<x, Leaf(x)>> \in BackTexts(n)
  <2>1. <<x, Leaf(x)>> \in JsonTexts(n)
    BY <1>2, <1>4 DEF Grows
  <2>2. Back(x, Leaf(x))
    BY LeafBack
  <2> QED BY <2>1, <2>2 DEF BackTexts
<1>5. Deep \in Nat /\ n <= Deep /\ Deep \in 0 .. Deep /\ n \in Nat
  BY JsonAssumption DEF JsonAssumption
<1>6. \A x \in Value(n) : x \in Value(Deep)
  BY <1>5, ValueMore
<1>7. ASSUME NEW kind \in {"array", "table"}, NEW x \in Made(kind, Parted(n))
      PROVE  \E V : /\ Chains(V, S, x)
                    /\ \A w \in Seq(Token) : Bracketed(V, Len(Parts(x)), Opening(kind), Ends(kind), w) => <<x, w>> \in BackTexts(n)
  <2> DEFINE V == {z \in Nat \X Seq(Token) : ListText(n, kind, z[2]) /\ TurnsBack(x, kind, z[1], z[2])}
  <2>1. \A j \in Nat : \A v \in Seq(Token) : <<j, v>> \in V <=> ListText(n, kind, v) /\ TurnsBack(x, kind, j, v)
    OBVIOUS
  <2>2. \A z \in V : ListText(n, kind, z[2])
    OBVIOUS
  <2>3. \A j : \A v : <<j, v>> \in V => TurnsBack(x, kind, j, v)
    OBVIOUS
  <2> HIDE DEF V, S
  <2>4. Len(Parts(x)) \in Nat
    BY PartedKeyed, PartsAre
  <2>5. \A i \in 1 .. Len(Parts(x)) : \A w \in PartTexts(S, x, i) : w \in Seq(Token) /\ PartText(n, kind, w)
    BY PartsBack DEF S
  <2>6. ASSUME NEW b \in Whites, NEW w \in PartTexts(S, x, 1), 1 <= Len(Parts(x)) PROVE <<1, b \o w>> \in V
    <3>1. 1 \in 1 .. Len(Parts(x))
      BY <2>4, <2>6
    <3>2. w \in Seq(Token) /\ PartText(n, kind, w) /\ b \in Seq(Token)
      BY <2>5, <3>1 DEF Whites
    <3>3. ListText(n, kind, b \o w)
      BY <3>2, ListText1
    <3>4. TurnsBack(x, kind, 1, b \o w)
      BY <2>6, TurnsBackOne DEF S
    <3>5. b \o w \in Seq(Token)
      BY <3>2, Joined
    <3> QED BY <2>1, <3>3, <3>4, <3>5
  <2>7. ASSUME NEW i \in Nat \ {0}, NEW v \in Seq(Token), NEW b \in Whites, NEW w \in PartTexts(S, x, i + 1),
               i + 1 <= Len(Parts(x)), <<i, v>> \in V
        PROVE  <<i + 1, v \o (<<Comma>> \o (b \o w))>> \in V
    <3>1. i + 1 \in 1 .. Len(Parts(x)) /\ i + 1 \in Nat
      BY <2>4, <2>7
    <3>2. w \in Seq(Token) /\ PartText(n, kind, w) /\ b \in Seq(Token) /\ <<Comma>> \in Seq(Token)
      BY <2>5, <3>1, MarkIs, Singles DEF Whites
    <3>3. ListText(n, kind, v) /\ TurnsBack(x, kind, i, v)
      BY <2>1, <2>7
    <3>4. ListText(n, kind, v \o (<<Comma>> \o (b \o w)))
      BY <3>2, <3>3, ListText2
    <3>5. TurnsBack(x, kind, i + 1, v \o (<<Comma>> \o (b \o w)))
      <4>1. PICK k \in 1 .. Len(Parts(x)) : k = i + 1
        BY <3>1
      <4>2. w \in PartTexts(LevelBelow(BackLevels, n), x, k)
        BY <4>1 DEF S
      <4>3. TurnsBack(x, kind, k, v \o (<<Comma>> \o (b \o w)))
        BY <3>3, <4>1, <4>2, TurnsBackMore
      <4> QED BY <4>1, <4>3
    <3>6. v \o (<<Comma>> \o (b \o w)) \in Seq(Token)
      <4>1. b \o w \in Seq(Token)
        BY <3>2, Joined
      <4>2. <<Comma>> \o (b \o w) \in Seq(Token)
        BY <3>2, <4>1, Joined
      <4> QED BY <4>2, Joined
    <3> QED BY <2>1, <3>1, <3>4, <3>5, <3>6
  <2>8. Chains(V, S, x)
    BY <2>6, <2>7 DEF Chains
  <2>9. ASSUME NEW w \in Seq(Token), Bracketed(V, Len(Parts(x)), Opening(kind), Ends(kind), w) PROVE <<x, w>> \in BackTexts(n)
    <3>1. InJson(n, w)
      BY <2>2, <2>9, BracketText
    <3>2. x[1] \notin Bytes
      BY DEF Made, Bytes
    <3>3. x \in Value(Deep)
      BY <1>6, ValueIs
    <3>4. <<x, w>> \in JsonTexts(n)
      BY <3>1, <3>2, <3>3 DEF JsonTexts
    <3>5. Back(x, w)
      BY <2>3, <2>9, BracketBack
    <3> QED BY <3>4, <3>5 DEF BackTexts
  <2> QED BY <2>8, <2>9
<1> HIDE DEF S
<1> QED BY <1>1, <1>3, <1>4, <1>7 DEF Grows, S

(* What json/encode adds is a text from which the value comes back. *)
LEMMA FreshBack ==
  ASSUME NEW lay \in Layouts, NEW x \in Value(Deep), NEW bef \in Seq(Token), ~Encoding(lay, x, bef).err
  PROVE  \E w \in Seq(Token) : Encoding(lay, x, bef).buffer = bef \o w /\ <<x, w>> \in BackTexts(Deep)
<1>1. lay \in [tab : Nat, newline : Nat] /\ Deep \in 0 .. Deep
  BY JsonAssumption DEF JsonAssumption
<1> DEFINE e == Fresh(bef)
           r == Encoding(lay, x, bef)
<1>2. e \in Encoder /\ ~e.err /\ e.buffer = bef
  BY DEF Fresh, Encoder
<1>3. r = encode_one(lay)[Deep][x][e] /\ ~r.err
  BY DEF Encoding
<1>4. BackLevels[Deep] = BackTexts(Deep)
  BY <1>1 DEF BackLevels
<1> HIDE DEF e, r
<1>5. Makes(encode_one(lay)[Deep], Value(Deep), BackLevels[Deep])
  BY <1>1, BackGrows, OneWrites
<1>6. PICK w \in Seq(Token) : Writes(e, r, w) /\ <<x, w>> \in BackTexts(Deep)
  BY <1>2, <1>3, <1>4, <1>5 DEF Makes
<1>7. r.buffer = bef \o w
  BY <1>2, <1>6 DEF Writes
<1> QED BY <1>6, <1>7 DEF r

(* json_decode() gives back the value from the whole text. *)
LEMMA DecodesBack ==
  ASSUME NEW x \in Plain[Guard], NEW t \in Seq(Token), <<x, t>> \in BackTexts(Deep)
  PROVE  decoded(t).is = "done" /\ decoded(t).out = x
<1>1. InJson(Deep, t) /\ Back(x, t)
  BY DEF BackTexts, JsonTexts
<1>2. Deep \in 0 .. Deep /\ Guard \in 0 .. Guard /\ Len(t) \in Nat
  BY Lengths, JsonAssumption DEF JsonAssumption
<1>3. Holds(t, 1, t) /\ 1 \in Places(t)
  BY <1>2 DEF Holds, Places
<1>4. PICK l \in Places(t) : l = Len(t) + 1 /\ l = 1 + Len(t)
  BY <1>2 DEF Places
<1>5. <<1, l>> \in StrictOver(t, JsonBelow(t, Deep))
  <2>1. <<1, l>> \in StrictJson(t)[Deep]
    BY <1>1, <1>3, <1>4 DEF InJson
  <2> QED BY <1>2, <2>1, StrictIs
<1>6. (t[1][1] \in Atoms \/ t[1] = BeginArray \/ t[1] = BeginObject) /\ 1 <= Len(t)
  <2>1. (t[1][1] \in Atoms \/ t[1] = BeginArray \/ t[1] = BeginObject) /\ (l = 1 + 1 \/ l > 1 + 1)
    BY <1>5, StrictAre
  <2> QED BY <1>2, <1>4, <2>1
<1>7. t[1] # White
  <2>1. White[1] \notin Atoms /\ BeginArray # White /\ BeginObject # White
    BY MarkIs, TokenIs, Differ
  <2> QED BY <1>6, <2>1
<1>8. skipwhite(t, 1) = 1
  <2>1. At(t, 1) = t[1] /\ Blank(t, 1, 1) /\ 1 \in 1 .. Len(t) + 1
    BY <1>2, <1>3, <1>6, AtIs DEF Blank
  <2> QED BY <1>3, <1>7, <2>1, SkipTo
<1>9. decode_one(t)[Guard + 1][1] = gives(l, x)
  BY <1>1, <1>2, <1>3, <1>4, <1>8 DEF Back
<1>10. At(t, skipwhite(t, l)) = Eos
  <2>1. At(t, l) = Eos /\ Eos # White
    BY <1>2, <1>4, AtIs, Differ
  <2>2. skipwhite(t, l) = l
    <3>1. Blank(t, l, l) /\ l \in l .. Len(t) + 1
      BY <1>2, <1>4 DEF Blank
    <3> QED BY <2>1, <3>1, SkipTo
  <2> QED BY <2>1, <2>2
<1> DEFINE r == decode_one(t)[Guard + 1][1]
<1>11. decoded(t) = IF r.is = "done" /\ At(t, skipwhite(t, r.p)) # Eos THEN fails ELSE r
  BY DEF decoded
<1> HIDE DEF r
<1>12. r.is = "done" /\ r.p = l /\ r.out = x
  BY <1>9 DEF gives, r
<1> QED BY <1>10, <1>11, <1>12

(* A value that json/decode can give comes back as it was from the text    *)
(* json/encode wrote of it, in any layout and behind any buffer: keys and  *)
(* items in their places, keywords and nil by the flags, and never an      *)
(* error (encode_one() and decode_one(), json/json.c).                     *)
THEOREM EncodedComesBack == Spec => RoundTrip
<1>1. ASSUME CodecInv, state = "encoded", value \in Plain[Guard], json_decode
      PROVE  state' = "back" /\ value' = value
  <2> DEFINE r == decoded(Added)
  <2>1. /\ value' = (IF r.is = "error" THEN value ELSE r.out)
        /\ state' = (IF r.is = "error" THEN "rejected" ELSE IF state = "text" THEN "decoded" ELSE "back")
    BY <1>1 DEF json_decode
  <2>2. PICK lay \in Layouts : ~Encoding(lay, value, before).err /\ buf = Encoding(lay, value, before).buffer
    BY <1>1 DEF CodecInv, InBuffer
  <2>3. value \in Value(Deep) /\ before \in Seq(Token)
    BY <1>1 DEF CodecInv
  <2>4. PICK w \in Seq(Token) : buf = before \o w /\ <<value, w>> \in BackTexts(Deep)
    BY <2>2, <2>3, FreshBack
  <2>5. Added = w
    BY <2>3, <2>4, Behinds DEF Added, Splits
  <2> HIDE DEF Added
  <2>6. r.is = "done" /\ r.out = value
    <3>1. decoded(w).is = "done" /\ decoded(w).out = value
      BY <1>1, <2>4, DecodesBack
    <3> QED BY <2>5, <3>1
  <2> HIDE DEF r
  <2> QED BY <1>1, <2>1, <2>6
<1>2. CodecInv /\ [Next]_vars =>
        [state = "encoded" /\ value \in Plain[Guard] /\ json_decode => state' = "back" /\ value' = value]_vars
  BY <1>1
<1> QED BY <1>2, CodecInvariant, PTL DEF Spec, RoundTrip

-----------------------------------------------------------------------------
(* Strings.                                                                *)

Byte == Below(256)

(* The codepoints of Unicode that are no surrogates, and those that four   *)
(* bytes can hold.                                                         *)
Scalar(n)   == n \in Nat /\ n <= 1114111 /\ ~IsHigh(n) /\ ~IsLow(n)
FitsFour(n) == n \in Nat /\ n < 2097152

-----------------------------------------------------------------------------
(* What codepoint() makes of the bytes of a character, and utf8() of that. *)
Two(a, b)         == (a % 32) * 64 + (b % 64)
Three(a, b, d)    == (a % 16) * 4096 + (b % 64) * 64 + (d % 64)
Four(a, b, d, e)  == (a % 8) * 262144 + (b % 64) * 4096 + (d % 64) * 64 + (e % 64)

(* What a mask leaves of a byte that continues a character. *)
LEMMA LowTrail ==
  ASSUME NEW x \in Nat, Trails(x)
  PROVE  x % 64 = x - 128 /\ 0 <= x - 128 /\ x - 128 < 64
BY SMT DEF Trails

(* The bytes of a code point of two, *)
LEMMA TwoIs ==
  ASSUME NEW a \in Nat, 194 <= a, a < 224, NEW b \in Nat, Trails(b)
  PROVE  /\ Two(a, b) \in Nat /\ 128 <= Two(a, b) /\ Two(a, b) < 2048
         /\ 192 + ((Two(a, b) \div 64) % 32) = a /\ 128 + (Two(a, b) % 64) = b
<1> DEFINE n == (a - 192) * 64 + (b - 128)
<1>1. a % 32 = a - 192 /\ b % 64 = b - 128 /\ 0 <= b - 128 /\ b - 128 < 64
  BY LowTrail, SMT
<1>2. Two(a, b) = n
  BY <1>1, SMT DEF Two
<1>3. n \in Nat /\ 128 <= n /\ n < 2048
  BY <1>1, SMT
<1>4. n % 64 = b - 128
  BY <1>1, SMT
<1>5. n \div 64 = a - 192
  BY <1>1, SMT
<1>6. (a - 192) % 32 = a - 192
  BY SMT
<1> QED BY <1>2, <1>3, <1>4, <1>5, <1>6, SMT

(* of three, *)
LEMMA ThreeIs ==
  ASSUME NEW a \in Nat, 224 <= a, a < 240, NEW b \in Nat, Trails(b), NEW d \in Nat, Trails(d),
         a = 224 => b >= 160, a = 237 => b < 160
  PROVE  LET n == Three(a, b, d) IN
         /\ n \in Nat /\ 2048 <= n /\ n < 65536 /\ ~IsHigh(n) /\ ~IsLow(n)
         /\ 224 + ((n \div 4096) % 16) = a
         /\ 128 + ((n \div 64) % 64) = b
         /\ 128 + (n % 64) = d
<1> DEFINE n == (a - 224) * 4096 + (b - 128) * 64 + (d - 128)
<1>1. /\ a % 16 = a - 224
      /\ b % 64 = b - 128 /\ 0 <= b - 128 /\ b - 128 < 64
      /\ d % 64 = d - 128 /\ 0 <= d - 128 /\ d - 128 < 64
  BY LowTrail, SMT
<1>2. Three(a, b, d) = n
  BY <1>1, SMT DEF Three
<1>3. n \in Nat /\ 2048 <= n /\ n < 65536
  BY <1>1, SMT
<1>4. ~IsHigh(n) /\ ~IsLow(n)
  BY <1>1, SMT DEF IsHigh, IsLow
<1>5. n % 64 = d - 128
  BY <1>1, SMT
<1>6. n \div 64 = (a - 224) * 64 + (b - 128)
  BY <1>1, SMT
<1>7. ((a - 224) * 64 + (b - 128)) % 64 = b - 128
  BY <1>1, SMT
<1>8. n \div 4096 = a - 224
  BY <1>1, SMT
<1>9. (a - 224) % 16 = a - 224
  BY SMT
<1> HIDE DEF n
<1> QED BY <1>2, <1>3, <1>4, <1>5, <1>6, <1>7, <1>8, <1>9, SMT

(* and of four. *)
LEMMA FourIs ==
  ASSUME NEW a \in Nat, 240 <= a, a < 245, NEW b \in Nat, Trails(b), NEW d \in Nat, Trails(d),
         NEW e \in Nat, Trails(e), a = 240 => b >= 144, a = 244 => b < 144
  PROVE  LET n == Four(a, b, d, e) IN
         /\ n \in Nat /\ 65536 <= n /\ n <= 1114111
         /\ 240 + ((n \div 262144) % 8) = a
         /\ 128 + ((n \div 4096) % 64) = b
         /\ 128 + ((n \div 64) % 64) = d
         /\ 128 + (n % 64) = e
<1> DEFINE n == (a - 240) * 262144 + (b - 128) * 4096 + (d - 128) * 64 + (e - 128)
<1>1. /\ a % 8 = a - 240
      /\ b % 64 = b - 128 /\ 0 <= b - 128 /\ b - 128 < 64
      /\ d % 64 = d - 128 /\ 0 <= d - 128 /\ d - 128 < 64
      /\ e % 64 = e - 128 /\ 0 <= e - 128 /\ e - 128 < 64
  BY LowTrail, SMT
<1>2. Four(a, b, d, e) = n
  BY <1>1, SMT DEF Four
<1>3. n \in Nat /\ 65536 <= n /\ n <= 1114111
  BY <1>1, SMT
<1>5. n % 64 = e - 128
  BY <1>1, SMT
<1>6. n \div 64 = (a - 240) * 4096 + (b - 128) * 64 + (d - 128)
  BY <1>1, SMT
<1>7. ((a - 240) * 4096 + (b - 128) * 64 + (d - 128)) % 64 = d - 128
  BY <1>1, SMT
<1>8. n \div 4096 = (a - 240) * 64 + (b - 128)
  BY <1>1, SMT
<1>9. ((a - 240) * 64 + (b - 128)) % 64 = b - 128
  BY <1>1, SMT
<1>10. n \div 262144 = a - 240
  BY <1>1, SMT
<1>11. (a - 240) % 8 = a - 240
  BY SMT
<1> HIDE DEF n
<1> QED BY <1>2, <1>3, <1>5, <1>6, <1>7, <1>8, <1>9, <1>10, <1>11, SMT

(* Characters.  What the first byte says of the others. *)
LEMMA CharShape ==
  ASSUME NEW s \in Seq(Byte), IsUtf8Char(s)
  PROVE  /\ Len(s) \in 1 .. 4 /\ Length(s[1]) = Len(s) /\ s[1] < 248
         /\ s[1] \in Byte /\ ~Trails(s[1])
         /\ \A i \in 2 .. Len(s) : s[i] \in Byte /\ Trails(s[i]) /\ Continues(s[i])
<1>1. Len(s) \in Nat /\ s # <<>> /\ \A i \in 1 .. Len(s) : s[i] \in Byte
  BY DEF IsUtf8Char
<1>2. Len(s) \in 1 .. 4 /\ s[1] \in Byte
  BY <1>1 DEF IsUtf8Char
<1>3. \A i \in 2 .. Len(s) : s[i] \in Byte /\ Trails(s[i])
  BY <1>1, <1>2 DEF IsUtf8Char
<1>4. \A x \in Nat : Trails(x) => Continues(x)
  BY SMT DEF Trails, Continues, High
<1>5. \A i \in 2 .. Len(s) : Continues(s[i])
  BY <1>3, <1>4 DEF Byte, Below
<1>6. Length(s[1]) = Len(s) /\ s[1] < 248 /\ ~Trails(s[1])
  BY <1>2, SMT DEF IsUtf8Char, Length, Trails, Byte, Below
<1> QED BY <1>2, <1>3, <1>5, <1>6

(* The codepoint of a character is one that its length stands for, and no  *)
(* surrogate; so it is where the last byte of four is used twice.          *)
(* Decoding gives the character back, if its last two bytes are alike      *)
(* where there are four; and one as long where they are not.               *)
LEMMA CodepointIs ==
  ASSUME NEW s \in Seq(Byte), IsUtf8Char(s)
  PROVE  LET n == codepoint(s) IN
         /\ Scalar(n)
         /\ Len(utf8(n)) = Len(s)
         /\ (Len(s) = 4 => s[3] = s[4]) => utf8(n) = s
<1> DEFINE n == codepoint(s)
<1>1. /\ Len(s) \in 1 .. 4 /\ s[1] \in Nat /\ s[1] < 256
      /\ \A i \in 2 .. Len(s) : s[i] \in Nat /\ Trails(s[i])
  BY CharShape DEF Byte, Below
<1>2. CASE Len(s) = 1
  <2>1. n = s[1] /\ n \in Nat /\ n < 128
    BY <1>1, <1>2, SMT DEF IsUtf8Char, codepoint
  <2>2. utf8(n) = <<n>>
    BY <2>1, SMT DEF utf8
  <2>3. utf8(n) = s
    BY <1>2, <2>1, <2>2
  <2>4. Scalar(n)
    BY <2>1, SMT DEF IsHigh, IsLow, Scalar
  <2> QED BY <2>1, <2>3, <2>4
<1>3. CASE Len(s) = 2
  <2>1. /\ s[1] \in Nat /\ 194 <= s[1] /\ s[1] < 224
        /\ s[2] \in Nat /\ Trails(s[2])
    BY <1>1, <1>3, SMT DEF IsUtf8Char
  <2>2. PICK a \in Nat, b \in Nat : a = s[1] /\ b = s[2]
    BY <2>1
  <2>3. n = Two(a, b)
    BY <1>3, <2>2, SMT DEF codepoint, Low, Two
  <2>4. /\ n \in Nat /\ 128 <= n /\ n < 2048
        /\ 192 + ((n \div 64) % 32) = a /\ 128 + (n % 64) = b
    BY <2>1, <2>2, <2>3, TwoIs
  <2> HIDE DEF n
  <2>5. Scalar(n)
    BY <2>4, SMT DEF IsHigh, IsLow, Scalar
  <2>6. utf8(n) = <<192 + ((n \div 64) % 32), 128 + (n % 64)>>
    BY <2>4, SMT DEF utf8, Low, High
  <2>7. utf8(n) = <<a, b>>
    BY <2>4, <2>6
  <2>8. s = <<a, b>>
    BY <1>3, <2>2
  <2> QED BY <2>4, <2>5, <2>7, <2>8 DEF n
<1>4. CASE Len(s) = 3
  <2>1. /\ s[1] \in Nat /\ 224 <= s[1] /\ s[1] < 240
        /\ s[2] \in Nat /\ Trails(s[2])
        /\ s[3] \in Nat /\ Trails(s[3])
        /\ s[1] = 224 => s[2] >= 160
        /\ s[1] = 237 => s[2] < 160
    BY <1>1, <1>4, SMT DEF IsUtf8Char
  <2>2. PICK a \in Nat, b \in Nat, d \in Nat : a = s[1] /\ b = s[2] /\ d = s[3]
    BY <2>1
  <2>3. n = Three(a, b, d)
    BY <1>4, <2>2, SMT DEF codepoint, Low, Three
  <2>4. /\ n \in Nat /\ 2048 <= n /\ n < 65536 /\ ~IsHigh(n) /\ ~IsLow(n)
        /\ 224 + ((n \div 4096) % 16) = a
        /\ 128 + ((n \div 64) % 64) = b
        /\ 128 + (n % 64) = d
    <3>1. 224 <= a /\ a < 240 /\ Trails(b) /\ Trails(d) /\ (a = 224 => b >= 160) /\ (a = 237 => b < 160)
      BY <2>1, <2>2
    <3> HIDE DEF n
    <3> QED BY <2>3, <3>1, ThreeIs
  <2> HIDE DEF n
  <2>5. Scalar(n)
    BY <2>4, SMT DEF Scalar
  <2>6. utf8(n) = <<224 + ((n \div 4096) % 16), 128 + ((n \div 64) % 64), 128 + (n % 64)>>
    BY <2>4, SMT DEF utf8, Low, High
  <2>7. utf8(n) = <<a, b, d>>
    BY <2>4, <2>6
  <2>8. s = <<a, b, d>>
    BY <1>4, <2>2
  <2> QED BY <2>4, <2>5, <2>7, <2>8 DEF n
<1>5. CASE Len(s) = 4
  <2>1. /\ s[1] \in Nat /\ 240 <= s[1] /\ s[1] < 245
        /\ s[2] \in Nat /\ Trails(s[2])
        /\ s[3] \in Nat
        /\ s[4] \in Nat /\ Trails(s[4])
        /\ s[1] = 240 => s[2] >= 144
        /\ s[1] = 244 => s[2] < 144
    BY <1>1, <1>5, SMT DEF IsUtf8Char
  <2>2. PICK a \in Nat, b \in Nat, e \in Nat : a = s[1] /\ b = s[2] /\ e = s[4]
    BY <2>1
  <2>3. n = Four(a, b, e, e)
    BY <1>5, <2>2, SMT DEF codepoint, Low, Four
  <2>4. /\ n \in Nat /\ 65536 <= n /\ n <= 1114111
        /\ 240 + ((n \div 262144) % 8) = a
        /\ 128 + ((n \div 4096) % 64) = b
        /\ 128 + ((n \div 64) % 64) = e
        /\ 128 + (n % 64) = e
    <3>1. 240 <= a /\ a < 245 /\ Trails(b) /\ Trails(e) /\ (a = 240 => b >= 144) /\ (a = 244 => b < 144)
      BY <2>1, <2>2
    <3> HIDE DEF n
    <3> QED BY <2>3, <3>1, FourIs
  <2> HIDE DEF n
  <2>5. Scalar(n)
    BY <2>4, SMT DEF IsHigh, IsLow, Scalar
  <2>6. utf8(n) = <<240 + ((n \div 262144) % 8), 128 + ((n \div 4096) % 64),
                    128 + ((n \div 64) % 64), 128 + (n % 64)>>
    BY <2>4, SMT DEF utf8, Low, High
  <2>7. utf8(n) = <<a, b, e, e>>
    BY <2>4, <2>6
  <2>8. s[3] = s[4] => s = <<a, b, e, e>>
    BY <1>5, <2>2
  <2> QED BY <1>5, <2>4, <2>5, <2>7, <2>8 DEF n
<1> QED BY <1>1, <1>2, <1>3, <1>4, <1>5

(* What decode_string() writes for a codepoint that is no surrogate is a   *)
(* character.                                                              *)
LEMMA Utf8IsChar ==
  ASSUME NEW n, Scalar(n)
  PROVE  utf8(n) \in Seq(Byte) /\ IsUtf8Char(utf8(n))
<1> n \in Nat
  BY DEF Scalar
<1>1. CASE n <= 127
  <2>1. utf8(n) = <<n>>
    BY <1>1, SMT DEF utf8
  <2> QED BY <1>1, <2>1, SMT DEF IsUtf8Char, Byte, Below
<1>2. CASE 127 < n /\ n <= 2047
  <2>1. PICK x \in Nat : x = n \div 64
    BY SMT
  <2>2. 2 <= x /\ x < 32
    BY <1>2, <2>1, SMT
  <2>3. PICK a \in Nat, b \in Nat : a = 192 + (x % 32) /\ b = 128 + (n % 64)
    BY SMT
  <2>4. 194 <= a /\ a < 224 /\ 128 <= b /\ b < 192
    BY <2>2, <2>3, SMT
  <2>5. utf8(n) = <<a, b>>
    BY <1>2, <2>1, <2>3, SMT DEF utf8, Low, High
  <2> QED BY <2>4, <2>5, SMT DEF IsUtf8Char, Trails, Byte, Below
<1>3. CASE 2047 < n /\ n <= 65535
  <2>1. PICK x \in Nat, y \in Nat : x = n \div 4096 /\ y = n \div 64
    BY SMT
  <2>2. x < 16 /\ 64 * x <= y /\ y < 64 * x + 64 /\ 32 <= y /\ ~(864 <= y /\ y < 896)
    BY <1>3, <2>1, SMT DEF IsHigh, IsLow, Scalar
  <2>3. PICK a \in Nat, b \in Nat, d \in Nat :
          a = 224 + (x % 16) /\ b = 128 + (y % 64) /\ d = 128 + (n % 64)
    BY SMT
  <2>4. a = 224 + x /\ b = 128 + (y - 64 * x)
    BY <2>2, <2>3, SMT
  <2>5. /\ 224 <= a /\ a < 240 /\ 128 <= b /\ b < 192 /\ 128 <= d /\ d < 192
        /\ a = 224 => b >= 160
        /\ a = 237 => b < 160
    BY <2>2, <2>3, <2>4, SMT
  <2>6. utf8(n) = <<a, b, d>>
    BY <1>3, <2>1, <2>3, SMT DEF utf8, Low, High
  <2> QED BY <2>5, <2>6, SMT DEF IsUtf8Char, Trails, Byte, Below
<1>4. CASE 65535 < n
  <2>1. PICK x \in Nat, y \in Nat, z \in Nat :
          x = n \div 262144 /\ y = n \div 4096 /\ z = n \div 64
    BY SMT
  <2>2. x < 5 /\ 64 * x <= y /\ y < 64 * x + 64 /\ 16 <= y /\ y < 272
    BY <1>4, <2>1, SMT DEF Scalar
  <2>3. PICK a \in Nat, b \in Nat, d \in Nat, e \in Nat :
          a = 240 + (x % 8) /\ b = 128 + (y % 64) /\ d = 128 + (z % 64) /\ e = 128 + (n % 64)
    BY SMT
  <2>4. a = 240 + x /\ b = 128 + (y - 64 * x)
    BY <2>2, <2>3, SMT
  <2>5. /\ 240 <= a /\ a < 245 /\ 128 <= b /\ b < 192 /\ 128 <= d /\ d < 192 /\ 128 <= e /\ e < 192
        /\ a = 240 => b >= 144
        /\ a = 244 => b < 144
    BY <2>2, <2>3, <2>4, SMT
  <2>6. utf8(n) = <<a, b, d, e>>
    BY <1>4, <2>1, <2>3, SMT DEF utf8, Low, High
  <2> QED BY <2>5, <2>6, SMT DEF IsUtf8Char, Trails, Byte, Below
<1> QED BY <1>1, <1>2, <1>3, <1>4, SMT

(* What the encoder writes for a codepoint is read as that codepoint: one  *)
(* character, one escape, or a pair of surrogates.                         *)
Pair(h, l) == (h - 55296) * 1024 + (l - 56320) + 65536

(* What the encoder writes for a code point the decoder turns into its     *)
(* bytes.                                                                  *)
LEMMA WrittenIs ==
  ASSUME NEW n, Scalar(n)
  PROVE  \/ /\ written(n) = <<<<"escape", n>>>> \/ (written(n) = <<<<"byte", n>>>> /\ 32 <= n)
            /\ n < 128 /\ utf8(n) = <<n>>
         \/ written(n) = <<<<"u", n>>>>
         \/ \E h, l \in Nat : /\ written(n) = <<<<"u", h>>, <<"u", l>>>>
                              /\ IsHigh(h) /\ IsLow(l) /\ Pair(h, l) = n
<1> n \in Nat
  BY DEF Scalar
<1>1. CASE n \in {Quote, Backslash}
  <2>1. n < 128
    BY <1>1, SMT DEF Quote, Backslash
  <2>2. written(n) = <<<<"escape", n>>>>
    BY <1>1 DEF written
  <2>3. utf8(n) = <<n>>
    BY <2>1, SMT DEF utf8
  <2> QED BY <2>1, <2>2, <2>3
<1>2. CASE n \notin {Quote, Backslash} /\ 32 <= n /\ n < 128
  <2>1. written(n) = <<<<"byte", n>>>>
    BY <1>2 DEF written
  <2>2. utf8(n) = <<n>>
    BY <1>2, SMT DEF utf8
  <2> QED BY <1>2, <2>1, <2>2
<1>3. CASE n \notin {Quote, Backslash} /\ ~(32 <= n /\ n < 128) /\ n < 65536
  <2>1. written(n) = <<<<"u", n>>>>
    BY ONLY <1>3, SMT DEF written
  <2> QED BY <1>3, <2>1
<1>4. CASE n \notin {Quote, Backslash} /\ ~(n < 65536)
  <2>1. PICK h \in Nat, l \in Nat : /\ h = ((n - 65536) \div 1024) + 55296
                                    /\ l = ((n - 65536) % 1024) + 56320
    BY <1>4, SMT
  <2>2. written(n) = <<<<"u", h>>, <<"u", l>>>>
    BY <1>4, <2>1, SMT DEF written, Low, High
  <2>3. IsHigh(h) /\ IsLow(l)
    BY <1>4, <2>1, SMT DEF IsHigh, IsLow, Scalar
  <2>4. Pair(h, l) = n
    BY <1>4, <2>1, SMT DEF Pair
  <2> QED BY <2>2, <2>3, <2>4
<1> QED BY <1>1, <1>2, <1>3, <1>4, SMT

(* A sequence of characters stays one when a character is appended. *)
LEMMA AppendsChar ==
  ASSUME NEW s \in Seq(Byte), IsUtf8(s), NEW x \in Seq(Byte), IsUtf8Char(x)
  PROVE  s \o x \in Seq(Byte) /\ IsUtf8(s \o x)
<1> DEFINE t == s \o x
<1>1. /\ t \in Seq(Byte) /\ Len(t) = Len(s) + Len(x)
      /\ \A i \in 1 .. Len(s) : t[i] = s[i]
      /\ \A i \in 1 .. Len(x) : t[Len(s) + i] = x[i]
  OBVIOUS
<1>2. Len(x) \in 1 .. 4 /\ ~Trails(x[1]) /\ \A i \in 2 .. Len(x) : Trails(x[i])
  BY CharShape
<1>3. Len(s) \in Nat
  OBVIOUS
<1> HIDE DEF t
<1>4. Begins(t, Len(s) + 1)
  BY <1>1, <1>2, <1>3 DEF Begins
<1>5. t # <<>> => Begins(t, 1)
  <2>1. CASE s = <<>>
    BY <1>4, <2>1
  <2>2. CASE s # <<>>
    BY <1>1, <1>2, <1>3, <2>2 DEF IsUtf8, Begins
  <2> QED BY <2>1, <2>2
<1>6. ASSUME NEW i \in 1 .. Len(t), Begins(t, i)
      PROVE  \E n \in 1 .. 4 :
               /\ i + n <= Len(t) + 1 /\ IsUtf8Char(SubSeq(t, i, i + n - 1))
               /\ i + n <= Len(t) => Begins(t, i + n)
  <2>1. CASE i <= Len(s)
    <3>1. i \in 1 .. Len(s) /\ Begins(s, i)
      BY <1>1, <1>3, <1>6, <2>1 DEF Begins
    <3>2. PICK n \in 1 .. 4 :
            /\ i + n <= Len(s) + 1 /\ IsUtf8Char(SubSeq(s, i, i + n - 1))
            /\ i + n <= Len(s) => Begins(s, i + n)
      BY <3>1 DEF IsUtf8
    <3>3. SubSeq(t, i, i + n - 1) = SubSeq(s, i, i + n - 1)
      BY <1>1, <1>3, <3>1, <3>2, SMTT(60)
    <3>4. Begins(t, i + n)
      <4>1. CASE i + n <= Len(s)
        BY <1>1, <1>2, <1>3, <3>2, <4>1 DEF Begins
      <4>2. CASE i + n = Len(s) + 1
        BY <1>4, <4>2
      <4> QED BY <1>3, <3>2, <4>1, <4>2
    <3>5. i + n <= Len(t) + 1
      BY <1>1, <1>2, <1>3, <3>2
    <3> QED BY <3>2, <3>3, <3>4, <3>5
  <2>2. CASE i > Len(s)
    <3>1. i = Len(s) + 1
      <4>1. PICK j \in 1 .. Len(x) : i = Len(s) + j
        <5>1. i - Len(s) \in 1 .. Len(x) /\ i = Len(s) + (i - Len(s))
          BY <1>1, <1>2, <1>3, <2>2
        <5> QED BY <5>1
      <4>2. ~Trails(x[j])
        BY <1>1, <1>6, <4>1 DEF Begins
      <4>3. j = 1
        BY <1>2, <4>1, <4>2
      <4> QED BY <4>1, <4>3
    <3>2. SubSeq(t, i, i + Len(x) - 1) = x
      BY <1>1, <1>2, <1>3, <3>1
    <3>3. Len(x) \in 1 .. 4 /\ i + Len(x) = Len(t) + 1
      BY <1>1, <1>2, <1>3, <3>1
    <3>4. IsUtf8Char(SubSeq(t, i, i + Len(x) - 1))
      BY <3>2
    <3>5. Len(t) \in Nat
      BY <1>1
    <3>6. ~(i + Len(x) <= Len(t)) /\ i + Len(x) <= Len(t) + 1
      BY <3>3, <3>5
    <3>7. Len(x) \in 1 .. 4
      BY <3>3
    <3> WITNESS Len(x) \in 1 .. 4
    <3> QED BY <3>4, <3>6
  <2> QED BY <1>3, <2>1, <2>2
<1> QED BY <1>1, <1>5, <1>6 DEF IsUtf8, t

-----------------------------------------------------------------------------
(* Types.  What the encoder writes for any bytes that it lets through is   *)
(* in the text's alphabet.                                                 *)
LEMMA WrittenType ==
  ASSUME NEW n, FitsFour(n)
  PROVE  written(n) \in Seq(Element)
<1> n \in Nat
  BY DEF FitsFour
<1>1. CASE n \in {Quote, Backslash}
  <2>1. n < 128
    BY <1>1, SMT DEF Quote, Backslash
  <2>2. written(n) = <<<<"escape", n>>>>
    BY <1>1 DEF written
  <2>3. <<"escape", n>> \in Element
    BY <2>1, SMT DEF Element, Below
  <2> QED BY <2>2, <2>3
<1>2. CASE n \notin {Quote, Backslash} /\ 32 <= n /\ n < 128
  <2>1. written(n) = <<<<"byte", n>>>>
    BY <1>2 DEF written
  <2>2. <<"byte", n>> \in Element
    BY <1>2, SMT DEF Element, Below
  <2> QED BY <2>1, <2>2
<1>3. CASE n \notin {Quote, Backslash} /\ ~(32 <= n /\ n < 128) /\ n < 65536
  <2>1. written(n) = <<<<"u", n>>>>
    BY ONLY <1>3, SMT DEF written
  <2>2. <<"u", n>> \in Element
    BY <1>3, SMT DEF Element, Below
  <2> QED BY <2>1, <2>2
<1>4. CASE n \notin {Quote, Backslash} /\ ~(n < 65536)
  <2>1. PICK h \in Nat, l \in Nat : /\ h = ((n - 65536) \div 1024) + 55296
                                    /\ l = ((n - 65536) % 1024) + 56320
    BY <1>4, SMT
  <2>2. written(n) = <<<<"u", h>>, <<"u", l>>>>
    BY <1>4, <2>1, SMT DEF written, Low, High
  <2>3. h < 65536 /\ l < 65536
    BY <1>4, <2>1, SMT DEF FitsFour
  <2>4. <<"u", h>> \in Element /\ <<"u", l>> \in Element
    BY <2>3, SMT DEF Element, Below
  <2> QED BY <2>2, <2>4
<1> QED BY <1>1, <1>2, <1>3, <1>4, SMT

(* decodep gives a code point that UTF-8 has bytes for. *)
LEMMA CodepointType ==
  ASSUME NEW s \in Seq(Byte), Len(s) \in 1 .. 4, Length(s[1]) = Len(s), s[1] < 248
  PROVE  FitsFour(codepoint(s))
<1>1. \A i \in 1 .. Len(s) : s[i] \in Nat
  BY DEF Byte, Below
<1>2. CASE Len(s) = 1
  <2>1. codepoint(s) = s[1]
    BY <1>2 DEF codepoint
  <2>2. PICK a \in Nat : a = s[1]
    BY <1>1, <1>2
  <2>3. a < 248 => FitsFour(a)
    BY SMT DEF FitsFour
  <2> QED BY <2>1, <2>2, <2>3
<1>3. CASE Len(s) = 2
  <2>1. PICK a \in Nat, b \in Nat : a = s[1] /\ b = s[2]
    BY <1>1, <1>3
  <2>2. codepoint(s) = Two(a, b)
    BY <1>3, <2>1, SMT DEF codepoint, Low, Two
  <2>3. FitsFour(Two(a, b))
    BY SMT DEF FitsFour, Two
  <2> QED BY <2>2, <2>3
<1>4. CASE Len(s) = 3
  <2>1. PICK a \in Nat, b \in Nat, d \in Nat : a = s[1] /\ b = s[2] /\ d = s[3]
    BY <1>1, <1>4
  <2>2. codepoint(s) = Three(a, b, d)
    BY <1>4, <2>1, SMT DEF codepoint, Low, Three
  <2>3. FitsFour(Three(a, b, d))
    BY SMT DEF FitsFour, Three
  <2> QED BY <2>2, <2>3
<1>5. CASE Len(s) = 4
  <2>1. PICK a \in Nat, b \in Nat, e \in Nat : a = s[1] /\ b = s[2] /\ e = s[4]
    BY <1>1, <1>5
  <2>2. codepoint(s) = Four(a, b, e, e)
    BY <1>5, <2>1, SMT DEF codepoint, Low, Four
  <2>3. FitsFour(Four(a, b, e, e))
    BY SMT DEF FitsFour, Four
  <2> QED BY <2>2, <2>3
<1> QED BY <1>2, <1>3, <1>4, <1>5

(* What an element of a text has in it. *)
LEMMA ElementIs ==
  ASSUME NEW e \in Element
  PROVE  /\ e = <<e[1], e[2]>> /\ e[1] \in {"byte", "escape", "u"}
         /\ e[2] \in Nat /\ e[2] < 65536
         /\ e[1] # "u" => e[2] < 128
BY SMT DEF Element, Below

Types ==
  /\ phase \in {"encode", "decode", "done", "refused"}
  /\ source \in Seq(Byte) /\ c \in Nat \ {0}
  /\ text \in Seq(Element) /\ bytes \in Seq(Byte)

(* Everything the decoder has written so far is UTF-8. *)
Utf8Inv == Types /\ IsUtf8(bytes)

(* A turn of the decoder that writes a character. *)
LEMMA TakesStep ==
  ASSUME Utf8Inv, NEW n, Scalar(n), NEW u \in 1 .. 2, takes(n, u)
  PROVE  Utf8Inv'
<1>1. utf8(n) \in Seq(Byte) /\ IsUtf8Char(utf8(n))
  BY Utf8IsChar
<1>2. bytes' \in Seq(Byte) /\ IsUtf8(bytes')
  BY <1>1, AppendsChar DEF takes, Utf8Inv, Types
<1>3. c' \in Nat \ {0}
  BY DEF takes, Utf8Inv, Types
<1> QED BY <1>2, <1>3 DEF takes, Utf8Inv, Types

(* The encoder keeps its place in the string. *)
LEMMA EncodeTypes ==
  ASSUME Types, encode_char
  PROVE  Types'
<1> DEFINE n == Length(source[c])
           s == SubSeq(source, c, c + n - 1)
<1>1. n \in 1 .. 4 /\ c \in 1 .. Len(source) /\ source[c] \in Byte
  BY DEF Types, encode_char, Length
<1>2. CASE refuse
  BY <1>2 DEF refuse, Types
<1>3. CASE ~refuse
  <2>1. /\ source[c] < 248 /\ c + n - 1 <= Len(source)
        /\ c' = c + n /\ text' = text \o written(codepoint(s)) /\ UNCHANGED <<phase, source, bytes>>
    <3>1. /\ ~(source[c] >= 248) /\ ~(c + n - 1 > Len(source))
          /\ c' = c + n /\ text' = text \o written(codepoint(s)) /\ UNCHANGED <<phase, source, bytes>>
      BY <1>3, Zenon DEF encode_char
    <3>2. source[c] \in Nat /\ c + n - 1 \in Int /\ Len(source) \in Nat
      BY <1>1, SMT DEF Types, Byte, Below
    <3> HIDE DEF n, s
    <3> QED BY <3>1, <3>2, SMT
  <2>2. s \in Seq(Byte) /\ Len(s) = n /\ s[1] = source[c]
    <3> HIDE DEF n
    <3> QED BY <1>1, <2>1 DEF Types
  <2>3. written(codepoint(s)) \in Seq(Element)
    <3> HIDE DEF s
    <3> QED BY <1>1, <2>1, <2>2, CodepointType, WrittenType DEF n
  <2> QED BY <1>1, <2>1, <2>3 DEF Types
<1> QED BY <1>2, <1>3

(* One round of the decoder keeps what is written UTF-8. *)
LEMMA Utf8Step ==
  ASSUME Utf8Inv, [StringNext]_stringVars
  PROVE  Utf8Inv'
<1>1. CASE encode_char
  <2>1. bytes' = bytes
    BY <1>1 DEF encode_char, refuse
  <2> QED BY <1>1, <2>1, EncodeTypes DEF Utf8Inv
<1>2. CASE encode_end
  BY <1>2 DEF encode_end, Utf8Inv, Types
<1>3. CASE decode_byte
  <2>1. text[c] \in Element /\ text[c][1] # "u"
    BY <1>3 DEF decode_byte, Utf8Inv, Types
  <2>2. text[c][2] \in Nat /\ text[c][2] < 128
    BY <2>1, ElementIs
  <2>3. CASE refuse
    BY <2>3 DEF refuse, Utf8Inv, Types
  <2>4. CASE ~refuse
    <3>1. utf8(text[c][2]) = <<text[c][2]>>
      BY <2>2, SMT DEF utf8
    <3>2. takes(text[c][2], 1)
      <4>1. /\ bytes' = Append(bytes, text[c][2])
            /\ c' = c + 1 /\ UNCHANGED <<phase, source, text>>
        BY <1>3, <2>4 DEF decode_byte
      <4>2. Append(bytes, text[c][2]) = bytes \o <<text[c][2]>>
        <5>1. \A b \in Byte : Append(bytes, b) = bytes \o <<b>>
          BY DEF Utf8Inv, Types
        <5>2. text[c][2] \in Byte
          BY <2>2, SMT DEF Byte, Below
        <5> QED BY <5>1, <5>2
      <4> QED BY <3>1, <4>1, <4>2 DEF takes
    <3>3. Scalar(text[c][2])
      BY <2>2, SMT DEF IsHigh, IsLow, Scalar
    <3> QED BY <3>2, <3>3, TakesStep
  <2> QED BY <2>3, <2>4
<1>4. CASE decode_escape
  <2> DEFINE n == text[c][2]
  <2>1. n \in Nat /\ n < 65536
    BY <1>4, ElementIs DEF decode_escape, Utf8Inv, Types
  <2>2. CASE refuse
    BY <2>2 DEF refuse, Utf8Inv, Types
  <2>3. CASE ~IsLow(n) /\ ~IsHigh(n) /\ takes(n, 1)
    <3>1. Scalar(n)
      BY <2>1, <2>3, SMT DEF Scalar
    <3> QED BY <2>3, <3>1, TakesStep
  <2>4. CASE /\ IsHigh(n) /\ c < Len(text) /\ IsLow(text[c + 1][2])
             /\ takes(Pair(n, text[c + 1][2]), 2)
    <3>1. text[c + 1][2] \in Nat
      BY <2>4, ElementIs DEF Utf8Inv, Types
    <3>2. PICK h \in Nat, l \in Nat : h = n /\ l = text[c + 1][2]
      BY <2>1, <3>1
    <3>3. IsHigh(h) /\ IsLow(l)
      BY <2>4, <3>2
    <3>4. Scalar(Pair(h, l))
      BY <3>3, SMT DEF IsHigh, IsLow, Pair, Scalar
    <3> QED BY <2>4, <3>2, <3>4, TakesStep
  <2> QED BY <1>4, <2>2, <2>3, <2>4 DEF decode_escape, Pair
<1>5. CASE decode_end
  BY <1>5 DEF decode_end, Utf8Inv, Types
<1>6. CASE UNCHANGED stringVars
  BY <1>6 DEF stringVars, Utf8Inv, Types
<1> QED BY <1>1, <1>2, <1>3, <1>4, <1>5, <1>6 DEF StringNext

(* It starts with nothing written. *)
LEMMA Utf8Init ==
  ASSUME StringInit
  PROVE  Utf8Inv
<1>1. IsUtf8(<<>>)
  BY DEF IsUtf8, Begins
<1>2. <<>> \in Seq(Byte) /\ <<>> \in Seq(Element) /\ 1 \in Nat \ {0}
  OBVIOUS
<1>3. c = 1 /\ bytes = <<>> /\ phase \in {"encode", "decode"}
  BY DEF StringInit
<1>4. source \in Seq(Byte) /\ text \in Seq(Element)
  BY <1>2, StringAssumption, ZenonT(60) DEF StringInit, Byte
<1> QED BY <1>1, <1>2, <1>3, <1>4 DEF Utf8Inv, Types

(* Whatever the escapes of a text, and whatever order surrogates come in,  *)
(* decode_string() refuses it or writes UTF-8.                             *)
THEOREM DecodesUtf8 == StringSpec => []DecodesToUtf8
<1>1. StringInit => Utf8Inv
  BY Utf8Init
<1>2. Utf8Inv /\ [StringNext]_stringVars => Utf8Inv'
  BY Utf8Step
<1>3. Utf8Inv => DecodesToUtf8
  BY DEF Utf8Inv, DecodesToUtf8
<1> QED BY <1>1, <1>2, <1>3, PTL DEF StringSpec

-----------------------------------------------------------------------------
(* A string of UTF-8, character by character: where one begins, what it is *)
(* and what is written for it.                                             *)
Border(p) == p = Len(source) \/ Begins(source, p + 1)
Size(p)   == Length(source[p + 1])
Char(p)   == SubSeq(source, p + 1, p + Size(p))
Out(p)    == written(codepoint(Char(p)))

(* The text holds what is written for the characters of the first e bytes; *)
(* at[p] is how much of it stands before the character behind p bytes.     *)
Encoded(at, e) ==
  /\ e \in 0 .. Len(source) /\ Border(e) /\ at[0] = 0 /\ at[e] = Len(text)
  /\ \A p \in 0 .. e - 1 : Begins(source, p + 1) =>
       /\ p + Size(p) <= e /\ at[p + Size(p)] = at[p] + Len(Out(p))
       /\ at[p] + Len(Out(p)) <= Len(text)
       /\ \A i \in 1 .. Len(Out(p)) : text[at[p] + i] = Out(p)[i]

(* The decoder stands behind d bytes of the string, and has written as     *)
(* many: these, where the last bytes of four are alike.                    *)
Decoded(at, d) ==
  /\ d \in 0 .. Len(source) /\ Border(d) /\ c = at[d] + 1 /\ Len(bytes) = d
  /\ Alike(source) => \A i \in 1 .. d : bytes[i] = source[i]

Positions == [0 .. Len(source) -> Nat]

Follows ==
  \/ /\ phase = "encode" /\ bytes = <<>>
     /\ \E at \in Positions : Encoded(at, c - 1)
  \/ /\ phase = "decode"
     /\ \E at \in Positions : Encoded(at, Len(source)) /\ Decoded(at, Len(bytes))
  \/ /\ phase = "done"
     /\ Alike(source) => bytes = source

(* Nothing is said of a text that the decoder was given as it is. *)
BackInv == Utf8Inv /\ (source # <<>> /\ IsUtf8(source) => Follows)

(* At the beginning of a character of a string in UTF-8. *)
LEMMA CharIs ==
  ASSUME Types, IsUtf8(source), NEW p \in Nat, p < Len(source), Border(p)
  PROVE  /\ Size(p) \in 1 .. 4 /\ p + Size(p) <= Len(source) /\ Border(p + Size(p))
         /\ source[p + 1] < 248 /\ Begins(source, p + 1)
         /\ Char(p) \in Seq(Byte) /\ Len(Char(p)) = Size(p) /\ IsUtf8Char(Char(p))
         /\ \A i \in 1 .. Size(p) : Char(p)[i] = source[p + i]
<1>1. p + 1 \in 1 .. Len(source) /\ Begins(source, p + 1)
  BY DEF Types, Border
<1>2. PICK n \in 1 .. 4 :
        /\ p + 1 + n <= Len(source) + 1 /\ IsUtf8Char(SubSeq(source, p + 1, p + 1 + n - 1))
        /\ p + 1 + n <= Len(source) => Begins(source, p + 1 + n)
  BY <1>1 DEF IsUtf8
<1>3. p + 1 + n - 1 = p + n /\ p + 1 + n = p + n + 1 /\ p + n <= Len(source) /\ Len(source) \in Nat
  BY <1>2 DEF Types
<1> DEFINE s == SubSeq(source, p + 1, p + n)
<1>4. /\ s \in Seq(Byte) /\ Len(s) = n
      /\ \A i \in 1 .. n : s[i] = source[p + i]
  <2>1. \A i \in 1 .. Len(source) : source[i] \in Byte
    BY DEF Types
  <2>2. \A i \in p + 1 .. p + n : source[i] \in Byte
    BY <1>3, <2>1
  <2>3. /\ s \in Seq(Byte)
        /\ Len(s) = IF p + 1 <= p + n THEN p + n - (p + 1) + 1 ELSE 0
        /\ \A i \in 1 .. p + n - (p + 1) + 1 : s[i] = source[p + 1 + i - 1]
    <3>1. p + 1 \in Int /\ p + n \in Int
      BY <1>3
    <3> QED BY <2>2, <3>1, SubSeqProperties
  <2>4. p + 1 <= p + n /\ p + n - (p + 1) + 1 = n /\ \A i \in 1 .. n : p + 1 + i - 1 = p + i
    OBVIOUS
  <2> HIDE DEF s
  <2> QED BY <2>3, <2>4
<1>5. IsUtf8Char(s)
  BY <1>2, <1>3
<1> HIDE DEF s
<1>6. Length(s[1]) = n /\ s[1] < 248
  BY <1>4, <1>5, CharShape
<1>7. Size(p) = n /\ source[p + 1] < 248
  BY <1>2, <1>4, <1>6 DEF Size
<1>8. Char(p) = s
  BY <1>7 DEF Char, s
<1>9. Border(p + n)
  BY <1>2, <1>3 DEF Border
<1> QED BY <1>1, <1>2, <1>3, <1>4, <1>5, <1>7, <1>8, <1>9

(* What is written for a character is one or two elements. *)
LEMMA OutIs ==
  ASSUME Types, IsUtf8(source), NEW p \in Nat, p < Len(source), Border(p)
  PROVE  /\ Scalar(codepoint(Char(p))) /\ Len(Out(p)) \in 1 .. 2
         /\ Len(utf8(codepoint(Char(p)))) = Size(p)
         /\ Alike(source) => utf8(codepoint(Char(p))) = Char(p)
<1>1. /\ Char(p) \in Seq(Byte) /\ Len(Char(p)) = Size(p) /\ IsUtf8Char(Char(p))
      /\ Size(p) \in 1 .. 4 /\ p + Size(p) <= Len(source)
      /\ \A i \in 1 .. Size(p) : Char(p)[i] = source[p + i]
  BY CharIs
<1>2. Scalar(codepoint(Char(p))) /\ Len(utf8(codepoint(Char(p)))) = Size(p)
  BY <1>1, CodepointIs
<1>3. Len(Out(p)) \in 1 .. 2
  <2> DEFINE n == codepoint(Char(p))
  <2> HIDE DEF n
  <2>1. Scalar(n)
    BY <1>2 DEF n
  <2>2. Len(written(n)) \in 1 .. 2
    BY <2>1, WrittenIs
  <2> QED BY <2>2 DEF Out, n
<1>4. ASSUME Alike(source)
      PROVE  utf8(codepoint(Char(p))) = Char(p)
  <2>1. ASSUME Size(p) = 4
        PROVE  Char(p)[3] = Char(p)[4]
    <3>1. Char(p)[1] >= 240
      BY <1>1, <2>1, SMT DEF IsUtf8Char
    <3>2. /\ Char(p)[1] = source[p + 1] /\ Char(p)[3] = source[p + 3] /\ Char(p)[4] = source[p + 4]
          /\ p + 1 \in 1 .. Len(source) /\ p + 1 + 2 = p + 3 /\ p + 1 + 3 = p + 4
      BY <1>1, <2>1, SMTT(60) DEF Types
    <3> QED BY <1>4, <3>1, <3>2 DEF Alike
  <2> QED BY <1>1, <2>1, CodepointIs
<1> QED BY <1>2, <1>3, <1>4

(* Positions depend on the source alone. *)
LEMMA SameSource ==
  ASSUME source' = source
  PROVE  /\ \A p : /\ Size(p)' = Size(p) /\ Out(p)' = Out(p) /\ Border(p)' = Border(p)
                   /\ Begins(source, p)' = Begins(source, p)
         /\ Alike(source)' = Alike(source) /\ Positions' = Positions
         /\ (source # <<>> /\ IsUtf8(source))' = (source # <<>> /\ IsUtf8(source))
BY DEF Size, Out, Char, Border, Begins, Alike, Positions, IsUtf8, IsUtf8Char

(* The encoder refuses no character, and what it writes for one is placed  *)
(* behind what it has written.                                             *)
LEMMA EncodeFollows ==
  ASSUME Types, Types', IsUtf8(source), phase = "encode", Follows, encode_char
  PROVE  Follows'
<1>1. PICK at \in Positions : Encoded(at, c - 1)
  BY DEF Follows
<1>2. PICK e \in Nat : e < Len(source) /\ Border(e) /\ c = e + 1 /\ c - 1 = e /\ Len(source) \in Nat
  <2>1. Border(c - 1)
    BY <1>1 DEF Encoded
  <2>2. c <= Len(source) /\ c \in Nat \ {0} /\ Len(source) \in Nat
    BY DEF encode_char, Types
  <2> QED BY <2>1, <2>2
<1>13. Encoded(at, e)
  BY <1>1, <1>2
<1>0. PICK n \in 1 .. 4 : n = Size(e)
  BY <1>2, CharIs DEF Types
<1>3. /\ n \in 1 .. 4 /\ e + n <= Len(source) /\ Border(e + n) /\ Begins(source, e + 1)
      /\ source[e + 1] < 248
      /\ Char(e) \in Seq(Byte) /\ Len(Char(e)) = n /\ IsUtf8Char(Char(e))
      /\ \A i \in 1 .. n : Char(e)[i] = source[e + i]
  BY <1>0, <1>2, CharIs
<1>4. Len(Out(e)) \in 1 .. 2 /\ FitsFour(codepoint(Char(e)))
  <2>1. Scalar(codepoint(Char(e))) /\ Len(Out(e)) \in 1 .. 2
    BY <1>2, OutIs
  <2>2. \A x : Scalar(x) => FitsFour(x)
    BY SMT DEF Scalar, FitsFour
  <2> QED BY <2>1, <2>2
<1>5. /\ c' = c + n /\ text' = text \o Out(e) /\ UNCHANGED <<phase, source, bytes>>
  <2>1. Length(source[c]) = n /\ SubSeq(source, c, c + n - 1) = Char(e)
    <3>1. c + n - 1 = e + n
      BY <1>2, <1>3
    <3> QED BY <1>0, <1>2, <3>1 DEF Size, Char
  <2>2. ~(source[c] >= 248) /\ ~(c + n - 1 > Len(source))
    <3>1. source[c] \in Nat
      BY <1>2 DEF Types, Byte, Below
    <3> QED BY <1>2, <1>3, <3>1, SMT
  <2>3. ~ \E i \in 2 .. n : ~Continues(Char(e)[i])
    BY <1>3, CharShape
  <2> QED BY <2>1, <2>2, <2>3 DEF encode_char, Out
<1>6. PICK at2 \in Positions :
        /\ at2[e + n] = at[e] + Len(Out(e))
        /\ \A p \in 0 .. Len(source) : p # e + n => at2[p] = at[p]
  <2> DEFINE f == [at EXCEPT ![e + n] = at[e] + Len(Out(e))]
  <2>1. /\ f \in Positions /\ f[e + n] = at[e] + Len(Out(e))
        /\ \A p \in 0 .. Len(source) : p # e + n => f[p] = at[p]
    BY <1>1, <1>2, <1>3, <1>4 DEF Positions
  <2> HIDE DEF f
  <2> QED BY <2>1
<1>7. Out(e) \in Seq(Element)
  BY <1>4, WrittenType DEF Out
<1>8. /\ Len(text') = Len(text) + Len(Out(e)) /\ Len(text) \in Nat /\ at[e] = Len(text)
      /\ \A i \in 1 .. Len(text) : text'[i] = text[i]
      /\ \A i \in 1 .. Len(Out(e)) : text'[Len(text) + i] = Out(e)[i]
  <2>1. text \in Seq(Element) /\ at[e] = Len(text)
    BY <1>13 DEF Types, Encoded
  <2> QED BY <1>5, <1>7, <2>1, SMTT(60)
<1>9. ASSUME NEW p \in 0 .. e + n - 1, Begins(source, p + 1)
      PROVE  /\ p + Size(p) <= e + n /\ at2[p + Size(p)] = at2[p] + Len(Out(p))
             /\ at2[p] + Len(Out(p)) <= Len(text')
             /\ \A i \in 1 .. Len(Out(p)) : text'[at2[p] + i] = Out(p)[i]
  <2>1. CASE p < e
    <3>1. /\ p + Size(p) <= e /\ at[p + Size(p)] = at[p] + Len(Out(p))
          /\ at[p] + Len(Out(p)) <= Len(text)
          /\ \A i \in 1 .. Len(Out(p)) : text[at[p] + i] = Out(p)[i]
      BY <1>1, <1>2, <1>9, <2>1 DEF Encoded
    <3>2. Size(p) \in 1 .. 4
      BY DEF Size, Length
    <3>3. at2[p] = at[p] /\ at2[p + Size(p)] = at[p + Size(p)] /\ at[p] \in Nat
      <4>1. /\ p \in 0 .. Len(source) /\ p # e + n
            /\ p + Size(p) \in 0 .. Len(source) /\ p + Size(p) # e + n
        BY <1>2, <1>3, <2>1, <3>1, <3>2, SMTT(60)
      <4> QED BY <1>1, <1>6, <4>1 DEF Positions
    <3>4. Len(Out(p)) \in Nat
      <4>1. Border(p)
        BY <1>9 DEF Border
      <4> QED BY <1>2, <2>1, <4>1, OutIs
    <3>5. \A i \in 1 .. Len(Out(p)) : text'[at2[p] + i] = Out(p)[i]
      <4>1. \A i \in 1 .. Len(Out(p)) : at[p] + i \in 1 .. Len(text)
        BY <1>8, <3>1, <3>3, <3>4
      <4> QED BY <1>8, <3>1, <3>3, <4>1
    <3>6. at2[p] + Len(Out(p)) <= Len(text') /\ p + Size(p) <= e + n
      <4>1. Len(Out(e)) \in Nat /\ Len(text) \in Nat /\ at[p] + Len(Out(p)) <= Len(text)
        BY <1>4, <1>8, <3>1
      <4>2. at2[p] + Len(Out(p)) <= Len(text')
        BY <1>8, <3>3, <3>4, <4>1
      <4>3. p + Size(p) <= e + n
        BY <1>2, <1>3, <3>1, <3>2
      <4> QED BY <4>2, <4>3
    <3> QED BY <3>1, <3>3, <3>5, <3>6
  <2>2. CASE p = e
    <3>1. at2[e] = at[e]
      BY <1>2, <1>3, <1>6
    <3>2. /\ e + Size(e) = e + n /\ at2[e] = Len(text) /\ at2[e + n] = Len(text) + Len(Out(e))
          /\ Len(text') = Len(text) + Len(Out(e))
      BY <1>0, <1>6, <1>8, <3>1
    <3>3. e + Size(e) <= e + n /\ at2[e] + Len(Out(e)) <= Len(text')
      BY <1>2, <1>3, <1>4, <1>8, <3>2
    <3> QED BY <1>8, <2>2, <3>2, <3>3
  <2>3. CASE p > e
    <3>1. PICK i \in 2 .. n : p + 1 = e + i
      <4>1. p + 1 - e \in 2 .. n /\ p + 1 = e + (p + 1 - e)
        BY <1>2, <1>3, <2>3
      <4> QED BY <4>1
    <3>2. Trails(Char(e)[i]) /\ Char(e)[i] = source[e + i]
      BY <1>3, <3>1, CharShape
    <3> QED BY <1>9, <3>1, <3>2 DEF Begins
  <2> QED BY <1>2, <1>3, <2>1, <2>2, <2>3
<1>10. Encoded(at2, e + n)'
  <2>1. e + n \in 0 .. Len(source) /\ at2[0] = 0 /\ at2[e + n] = Len(text')
    <3>1. at[0] = 0 /\ 0 # e + n /\ 0 \in 0 .. Len(source) /\ e + n \in 0 .. Len(source)
      <4>1. at[0] = 0
        BY <1>13 DEF Encoded
      <4> QED BY <1>2, <1>3, <4>1
    <3> QED BY <1>6, <1>8, <3>1
  <2>2. (e + n \in 0 .. Len(source))' /\ Border(e + n)' /\ at2[0] = 0
    BY <1>3, <1>5, <2>1, SameSource
  <2>3. ASSUME NEW p \in 0 .. e + n - 1, Begins(source, p + 1)'
        PROVE  (/\ p + Size(p) <= e + n /\ at2[p + Size(p)] = at2[p] + Len(Out(p))
                /\ at2[p] + Len(Out(p)) <= Len(text)
                /\ \A i \in 1 .. Len(Out(p)) : text[at2[p] + i] = Out(p)[i])'
    <3>1. Begins(source, p + 1)
      BY <1>5, <2>3, SameSource
    <3> QED BY <1>5, <1>9, <3>1, SameSource
  <2> QED BY <2>1, <2>2, <2>3 DEF Encoded
<1>11. c' - 1 = e + n /\ c - 1 = e /\ phase' = "encode" /\ bytes' = <<>>
  <2>1. bytes = <<>>
    BY DEF Follows
  <2> QED BY <1>2, <1>3, <1>5, <2>1
<1>12. at2 \in Positions'
  BY <1>5, <1>6, SameSource
<1> QED BY <1>10, <1>11, <1>12 DEF Follows

(* The decoder reads what was written for one character, refuses nothing   *)
(* and writes one character of the same length, or the same.               *)
LEMMA DecodeFollows ==
  ASSUME Types, Types', IsUtf8(source), phase = "decode", Follows, decode_byte \/ decode_escape
  PROVE  Follows'
<1>1. PICK at \in Positions : Encoded(at, Len(source)) /\ Decoded(at, Len(bytes))
  BY DEF Follows
<1>2. PICK d \in Nat : /\ d = Len(bytes) /\ d < Len(source) /\ Border(d) /\ c = at[d] + 1
                       /\ Len(source) \in Nat /\ at[d] \in Nat
  <2>1. /\ Len(bytes) \in 0 .. Len(source) /\ Border(Len(bytes)) /\ c = at[Len(bytes)] + 1
        /\ at[Len(source)] = Len(text) /\ Len(source) \in Nat /\ Len(text) \in Nat
    BY <1>1 DEF Decoded, Encoded, Types
  <2>2. at[Len(bytes)] \in Nat
    BY <1>1, <2>1 DEF Positions
  <2>3. c <= Len(text)
    BY DEF decode_byte, decode_escape
  <2>4. Len(bytes) # Len(source)
    BY <2>1, <2>3
  <2> QED BY <2>1, <2>2, <2>4
<1>3. PICK n \in 1 .. 4 : n = Size(d)
  BY <1>2, CharIs
<1>4. /\ d + n <= Len(source) /\ Border(d + n) /\ Begins(source, d + 1)
      /\ Char(d) \in Seq(Byte) /\ Len(Char(d)) = n /\ IsUtf8Char(Char(d))
      /\ \A i \in 1 .. n : Char(d)[i] = source[d + i]
  BY <1>2, <1>3, CharIs
<1>5. /\ at[d + n] = at[d] + Len(Out(d)) /\ at[d] + Len(Out(d)) <= Len(text)
      /\ \A i \in 1 .. Len(Out(d)) : text[at[d] + i] = Out(d)[i]
  <2>1. d \in 0 .. Len(source) - 1
    BY <1>2
  <2> QED BY <1>1, <1>3, <1>4, <2>1 DEF Encoded
<1>6. PICK x : /\ x = codepoint(Char(d)) /\ Scalar(x) /\ Out(d) = written(x) /\ Len(utf8(x)) = n
               /\ Alike(source) => utf8(x) = Char(d)
  BY <1>2, <1>3, OutIs DEF Out
<1>7. bytes' = bytes \o utf8(x) /\ c' = c + Len(Out(d)) /\ UNCHANGED <<phase, source, text>>
  <2>1. at[d] + 1 = c /\ at[d] + 2 = c + 1 /\ Len(text) \in Nat /\ c \in Nat
    BY <1>2, SMTT(60) DEF Types
  <2>2. CASE /\ written(x) = <<<<"escape", x>>>> \/ (written(x) = <<<<"byte", x>>>> /\ 32 <= x)
             /\ x < 128 /\ utf8(x) = <<x>>
    <3>1. Len(Out(d)) = 1 /\ text[c] = Out(d)[1]
      BY <1>5, <1>6, <2>1, <2>2
    <3>2. text[c][2] = x /\ (text[c][1] = "escape" \/ (text[c][1] = "byte" /\ 32 <= x))
      BY <1>6, <2>2, <3>1
    <3>3. x \in Byte
      BY <1>6, <2>2, SMT DEF Scalar, Byte, Below
    <3>4. decode_byte /\ ~(text[c][1] = "byte" /\ text[c][2] < 32)
      <4>1. "escape" # "u" /\ "byte" # "u" /\ "byte" # "escape"
        OBVIOUS
      <4>2. x \in Int
        BY <3>3, SMT DEF Byte, Below
      <4> QED BY <3>2, <4>1, <4>2 DEF decode_escape
    <3>5. bytes' = Append(bytes, x) /\ c' = c + 1 /\ UNCHANGED <<phase, source, text>>
      BY <3>2, <3>4 DEF decode_byte
    <3>6. Append(bytes, x) = bytes \o <<x>>
      BY <3>3 DEF Types
    <3> QED BY <2>2, <3>1, <3>5, <3>6
  <2>3. CASE written(x) = <<<<"u", x>>>>
    <3>1. Len(Out(d)) = 1 /\ text[c] = Out(d)[1]
      BY <1>5, <1>6, <2>1, <2>3
    <3>2. text[c][1] = "u" /\ text[c][2] = x
      BY <1>6, <2>3, <3>1
    <3>3. ~IsHigh(x) /\ ~IsLow(x)
      BY <1>6 DEF Scalar
    <3>4. decode_escape
      BY <3>2 DEF decode_byte
    <3>5. takes(x, 1)
      BY <3>2, <3>3, <3>4 DEF decode_escape
    <3> QED BY <3>1, <3>5 DEF takes
  <2>4. CASE \E h, l \in Nat : /\ written(x) = <<<<"u", h>>, <<"u", l>>>>
                              /\ IsHigh(h) /\ IsLow(l) /\ Pair(h, l) = x
    <3>1. PICK h \in Nat, l \in Nat : /\ written(x) = <<<<"u", h>>, <<"u", l>>>>
                                     /\ IsHigh(h) /\ IsLow(l) /\ Pair(h, l) = x
      BY <2>4
    <3>2. Len(Out(d)) = 2 /\ text[c] = Out(d)[1] /\ text[c + 1] = Out(d)[2] /\ c < Len(text)
      BY <1>5, <1>6, <2>1, <3>1, SMTT(60)
    <3>3. text[c][1] = "u" /\ text[c][2] = h /\ text[c + 1][1] = "u" /\ text[c + 1][2] = l
      BY <1>6, <3>1, <3>2
    <3>4. ~IsLow(h)
      BY <3>1, SMT DEF IsHigh, IsLow
    <3>5. decode_escape
      BY <3>3 DEF decode_byte
    <3>6. takes(Pair(h, l), 2)
      BY <3>1, <3>2, <3>3, <3>4, <3>5 DEF decode_escape, Pair
    <3> QED BY <3>1, <3>2, <3>6 DEF takes
  <2>5. Scalar(x)
    BY <1>6
  <2> QED BY <2>2, <2>3, <2>4, <2>5, WrittenIs, Zenon
<1>8. utf8(x) \in Seq(Byte)
  BY <1>6, Utf8IsChar
<1>9. /\ Len(bytes') = d + n
      /\ \A i \in 1 .. d : bytes'[i] = bytes[i]
      /\ \A i \in 1 .. n : bytes'[d + i] = utf8(x)[i]
  BY <1>2, <1>6, <1>7, <1>8, SMTT(60) DEF Types
<1>10. c' = at[d + n] + 1
  BY <1>2, <1>5, <1>6, <1>7, <1>8, SMTT(60) DEF Types
<1>11. ASSUME Alike(source), NEW i \in 1 .. d + n
       PROVE  bytes'[i] = source[i]
  <2>1. CASE i <= d
    BY <1>1, <1>2, <1>9, <1>11, <2>1 DEF Decoded
  <2>2. CASE i > d
    <3>1. PICK j \in 1 .. n : i = d + j
      <4>1. i - d \in 1 .. n /\ i = d + (i - d)
        BY <2>2
      <4> QED BY <4>1
    <3> QED BY <1>4, <1>6, <1>9, <1>11, <3>1
  <2> QED BY <2>1, <2>2
<1>12. Decoded(at, d + n)'
  <2>1. (d + n \in 0 .. Len(source))' /\ Border(d + n)'
    BY <1>4, <1>7, SameSource
  <2>2. Alike(source)' => \A i \in 1 .. d + n : bytes'[i] = source'[i]
    BY <1>7, <1>11, SameSource
  <2> QED BY <1>9, <1>10, <2>1, <2>2 DEF Decoded
<1>13. Encoded(at, Len(source))'
  BY <1>1, <1>7, SameSource, ZenonT(60) DEF Encoded
<1>14. Positions' = Positions /\ phase' = "decode"
  BY <1>7, SameSource
<1> QED BY <1>9, <1>12, <1>13, <1>14 DEF Follows

(* BackInv is kept by every turn of the two loops, *)
LEMMA BackStep ==
  ASSUME BackInv, [StringNext]_stringVars
  PROVE  BackInv'
<1>1. Utf8Inv /\ Utf8Inv' /\ Types /\ Types'
  BY Utf8Step DEF BackInv, Utf8Inv
<1>2. source' = source
  BY DEF StringNext, encode_char, encode_end, decode_byte, decode_escape, decode_end, takes, refuse, stringVars
<1>3. SUFFICES ASSUME source # <<>>, IsUtf8(source)
               PROVE  Follows'
  BY <1>1, <1>2, SameSource DEF BackInv
<1>4. Follows
  BY <1>3 DEF BackInv
<1>5. CASE encode_char
  BY <1>1, <1>3, <1>4, <1>5, EncodeFollows DEF encode_char
<1>6. CASE encode_end
  <2>1. PICK at \in Positions : Encoded(at, c - 1)
    BY <1>4, <1>6 DEF Follows, encode_end
  <2>2. c - 1 = Len(source)
    BY <1>1, <1>6, <2>1 DEF Encoded, encode_end, Types
  <2>3. Encoded(at, Len(source))'
    <3>1. Encoded(at, Len(source)) /\ text' = text
      BY <1>6, <2>1, <2>2 DEF encode_end
    <3> QED BY <1>2, <3>1, SameSource, SMTT(60) DEF Encoded
  <2>4. bytes' = <<>> /\ c' = 1 /\ phase' = "decode"
    BY <1>4, <1>6 DEF Follows, encode_end
  <2>5. Decoded(at, 0)'
    <3>1. at[0] = 0 /\ Len(source) \in Nat
      BY <1>1, <2>1 DEF Encoded, Types
    <3>2. Border(0)
      BY <1>3 DEF Border, IsUtf8
    <3>3. Border(0)'
      BY <1>2, <3>2, SameSource
    <3>4. (0 \in 0 .. Len(source))' /\ Len(bytes') = 0
      BY <1>2, <2>4, <3>1
    <3> QED BY <2>4, <3>1, <3>3, <3>4 DEF Decoded
  <2> QED BY <1>2, <2>3, <2>4, <2>5, SameSource DEF Follows
<1>7. CASE decode_byte \/ decode_escape
  BY <1>1, <1>3, <1>4, <1>7, DecodeFollows DEF decode_byte, decode_escape
<1>8. CASE decode_end
  <2>1. PICK at \in Positions : Encoded(at, Len(source)) /\ Decoded(at, Len(bytes))
    BY <1>4, <1>8 DEF Follows, decode_end
  <2>2. /\ Len(bytes) \in 0 .. Len(source) /\ Border(Len(bytes)) /\ c = at[Len(bytes)] + 1
        /\ at[Len(source)] = Len(text) /\ Len(source) \in Nat /\ Len(text) \in Nat
        /\ at[Len(bytes)] \in Nat
    BY <1>1, <2>1 DEF Decoded, Encoded, Types, Positions
  <2>3. ~(Len(bytes) < Len(source))
    <3>1. SUFFICES ASSUME Len(bytes) < Len(source)
                   PROVE  FALSE
      OBVIOUS
    <3>2. Begins(source, Len(bytes) + 1) /\ Len(Out(Len(bytes))) \in 1 .. 2
      BY <1>1, <1>3, <2>2, <3>1, CharIs, OutIs
    <3>3. at[Len(bytes)] + Len(Out(Len(bytes))) <= Len(text)
      <4>1. Len(bytes) \in 0 .. Len(source) - 1
        BY <2>2, <3>1
      <4> QED BY <2>1, <3>2, <4>1 DEF Encoded
    <3>4. c > Len(text)
      BY <1>8 DEF decode_end
    <3>5. at[Len(bytes)] + 1 > Len(text)
      BY <2>2, <3>4
    <3>6. PICK a \in Nat, o \in 1 .. 2, t \in Nat :
            a = at[Len(bytes)] /\ o = Len(Out(Len(bytes))) /\ t = Len(text)
      BY <2>2, <3>2
    <3>7. a + o <= t /\ a + 1 > t
      BY <3>3, <3>5, <3>6
    <3> QED BY ONLY <3>7, a \in Nat, o \in 1 .. 2, t \in Nat
  <2>4. Len(bytes) = Len(source)
    BY <2>2, <2>3
  <2>5. Alike(source) => bytes = source
    <3>1. Alike(source) => \A i \in 1 .. Len(source) : bytes[i] = source[i]
      BY <2>1, <2>4 DEF Decoded
    <3>2. bytes \in Seq(Byte) /\ source \in Seq(Byte)
      BY <1>1 DEF Types
    <3> QED BY <2>4, <3>1, <3>2, SeqEqual
  <2>6. phase' = "done" /\ bytes' = bytes
    BY <1>8 DEF decode_end
  <2> QED BY <1>2, <2>5, <2>6, SameSource DEF Follows
<1>9. CASE UNCHANGED stringVars
  <2>1. phase' = phase /\ c' = c /\ text' = text /\ bytes' = bytes
    BY <1>9 DEF stringVars
  <2>2. \A at, e : Encoded(at, e)' = Encoded(at, e)
    BY <1>2, <2>1, SameSource DEF Encoded
  <2>3. \A at, e : Decoded(at, e)' = Decoded(at, e)
    BY <1>2, <2>1, SameSource DEF Decoded
  <2> QED BY <1>2, <1>4, <2>1, <2>2, <2>3, SameSource DEF Follows
<1> QED BY <1>5, <1>6, <1>7, <1>8, <1>9 DEF StringNext

(* and holds at first. *)
LEMMA BackInit ==
  ASSUME StringInit
  PROVE  BackInv
<1>1. Utf8Inv
  BY Utf8Init
<1>2. ASSUME source # <<>>, IsUtf8(source)
      PROVE  Follows
  <2>1. phase = "encode" /\ text = <<>> /\ bytes = <<>> /\ c = 1
    BY <1>2 DEF StringInit
  <2> DEFINE at == [p \in 0 .. Len(source) |-> 0]
  <2>2. Len(source) \in Nat
    BY <1>1 DEF Utf8Inv, Types
  <2>3. at \in Positions /\ at[0] = 0
    BY <2>2 DEF Positions
  <2>4. Border(0)
    BY <1>2 DEF Border, IsUtf8
  <2> HIDE DEF at
  <2>5. Encoded(at, 0)
    BY <2>1, <2>2, <2>3, <2>4 DEF Encoded
  <2>6. c - 1 = 0
    BY <2>1
  <2> QED BY <2>1, <2>3, <2>5, <2>6 DEF Follows
<1> QED BY <1>1, <1>2 DEF BackInv

(* What is UTF-8 is never refused, and what the encoder writes is ASCII.   *)
THEOREM EncodesAllUtf8 == StringSpec => []EncodesUtf8
<1>1. StringInit => BackInv
  BY BackInit
<1>2. BackInv /\ [StringNext]_stringVars => BackInv'
  BY BackStep
<1>3. BackInv => EncodesUtf8
  <2>1. SUFFICES ASSUME BackInv
                 PROVE  EncodesUtf8
    OBVIOUS
  <2>2. phase = "refused" /\ source # <<>> => ~IsUtf8(source)
    BY <2>1 DEF BackInv, Follows
  <2>3. ASSUME NEW i \in 1 .. Len(text), text[i][1] = "byte"
        PROVE  text[i][2] < 128
    <3>1. text[i] \in Element /\ "byte" # "u"
      BY <2>1 DEF BackInv, Utf8Inv, Types
    <3> QED BY <2>3, <3>1, ElementIs
  <2> QED BY <2>2, <2>3 DEF EncodesUtf8
<1> QED BY <1>1, <1>2, <1>3, PTL DEF StringSpec

(* Every string in UTF-8 comes back as it was, if the last two bytes are   *)
(* alike wherever a character has four of them.                            *)
THEOREM StringsComeBack ==
  ASSUME \A s \in Strings : IsUtf8(s) /\ Alike(s)
  PROVE  StringSpec => []ComesBack
<1> DEFINE Inv == BackInv /\ source \in Strings \cup {<<>>}
<1>1. StringInit => Inv
  BY BackInit DEF StringInit
<1>2. Inv /\ [StringNext]_stringVars => Inv'
  <2>1. [StringNext]_stringVars => source' = source
    BY DEF StringNext, encode_char, encode_end, decode_byte, decode_escape, decode_end, takes, refuse, stringVars
  <2> QED BY <2>1, BackStep
<1>3. Inv => ComesBack
  BY DEF BackInv, Follows, ComesBack
<1> QED BY <1>1, <1>2, <1>3, PTL DEF StringSpec
=============================================================================
