-------------------------- MODULE CompletionProofs --------------------------
(***************************************************************************)
(* Proofs about Completion, for any environments, any order of their       *)
(* symbols, any JANET_MATCH_MAX and any screen: that the order of          *)
(* compare_bytes() is one, where the loop of check_match() puts a match,   *)
(* and what longest_common_prefix() returns.                               *)
(***************************************************************************)
EXTENDS Completion, FiniteSetTheorems, SequenceTheorems, WellFoundedInduction, TLAPS

Sym == Seq(Nat)

(* A set of numbers has a least one, and what holds of 0 and of the next   *)
(* number holds of all.                                                    *)
LEMMA LessWF == IsWellFoundedOn({p \in Nat \X Nat : p[1] < p[2]}, Nat)
<1>1. OpToRel(<, Nat) = {p \in Nat \X Nat : p[1] < p[2]}
  BY DEF OpToRel
<1> QED BY <1>1, NatLessThanWellFounded

(* A set of numbers that is not empty has a least one. *)
LEMMA Least == ASSUME NEW T, T \subseteq Nat, T # {} PROVE \E n \in T : \A m \in T : n <= m
<1>1. \E x \in T : \A y \in T : <<y, x>> \notin {p \in Nat \X Nat : p[1] < p[2]}
  BY LessWF, WFMin
<1>2. PICK x \in T : \A y \in T : <<y, x>> \notin {p \in Nat \X Nat : p[1] < p[2]}
  BY <1>1
<1>3. ASSUME NEW y \in T PROVE x <= y
  <2>1. x \in Nat /\ y \in Nat
    OBVIOUS
  <2>2. <<y, x>> \notin {p \in Nat \X Nat : p[1] < p[2]}
    BY <1>2
  <2>3. <<y, x>> \in Nat \X Nat /\ <<y, x>>[1] = y /\ <<y, x>>[2] = x
    BY <2>1
  <2>4. ~(y < x)
    BY <2>2, <2>3
  <2> QED BY <2>1, <2>4
<1> QED BY <1>3

(* What holds of 0, and of the number behind each it holds of, holds of    *)
(* all.                                                                    *)
LEMMA NatInd == ASSUME NEW S, 0 \in S, \A n \in Nat : n \in S => n + 1 \in S PROVE Nat \subseteq S
<1> SUFFICES ASSUME Nat \ S # {} PROVE FALSE
  OBVIOUS
<1>1. Nat \ S \subseteq Nat
  OBVIOUS
<1>2. PICK n \in Nat \ S : \A m \in Nat \ S : n <= m
  BY <1>1, Least
<1>3. n # 0 /\ n - 1 \in Nat /\ n - 1 + 1 = n
  BY <1>2
<1> QED BY <1>2, <1>3

-----------------------------------------------------------------------------
(* The first j bytes. *)
LEMMA FirstBytes ==
  ASSUME NEW a \in Sym, NEW j \in Nat, j <= Len(a)
  PROVE  /\ SubSeq(a, 1, j) \in Sym /\ Len(SubSeq(a, 1, j)) = j
         /\ \A k \in 1 .. j : SubSeq(a, 1, j)[k] = a[k]
<1>1. Len(a) \in Nat /\ \A k \in 1 .. Len(a) : a[k] \in Nat
  BY LenProperties DEF Sym
<1>2. \A k \in 1 .. j : a[k] \in Nat
  BY <1>1
<1>3. /\ SubSeq(a, 1, j) \in Seq(Nat)
      /\ Len(SubSeq(a, 1, j)) = (IF 1 <= j THEN j - 1 + 1 ELSE 0)
      /\ \A i \in 1 .. j - 1 + 1 : SubSeq(a, 1, j)[i] = a[1 + i - 1]
  <2>1. 1 \in Int /\ j \in Int
    OBVIOUS
  <2> QED BY <2>1, <1>2, SubSeqProperties
<1>4. ASSUME NEW k \in 1 .. j PROVE SubSeq(a, 1, j)[k] = a[k]
  <2>1. k \in 1 .. j - 1 + 1 /\ 1 + k - 1 = k
    OBVIOUS
  <2> QED BY <2>1, <1>3
<1>5. (IF 1 <= j THEN j - 1 + 1 ELSE 0) = j
  OBVIOUS
<1> QED BY <1>3, <1>4, <1>5 DEF Sym

(* The first j bytes of two symbols are equal byte by byte. *)
LEMMA SameFirst ==
  ASSUME NEW a \in Sym, NEW b \in Sym, NEW j \in Nat, j <= Len(a), j <= Len(b)
  PROVE  SubSeq(a, 1, j) = SubSeq(b, 1, j) <=> \A k \in 1 .. j : a[k] = b[k]
<1> DEFINE x == SubSeq(a, 1, j)
           y == SubSeq(b, 1, j)
<1>1. /\ x \in Seq(Nat) /\ Len(x) = j /\ \A k \in 1 .. j : x[k] = a[k]
      /\ y \in Seq(Nat) /\ Len(y) = j /\ \A k \in 1 .. j : y[k] = b[k]
  BY FirstBytes DEF Sym
<1> HIDE DEF x, y
<1>2. ASSUME \A k \in 1 .. j : a[k] = b[k] PROVE x = y
  BY <1>1, <1>2, SeqEqual
<1>3. ASSUME x = y PROVE \A k \in 1 .. j : a[k] = b[k]
  BY <1>1, <1>3
<1> QED BY <1>2, <1>3 DEF x, y

(* Symbols of one length with the same bytes are one symbol. *)
LEMMA EqualSyms ==
  ASSUME NEW a \in Sym, NEW b \in Sym, Len(a) = Len(b), \A k \in 1 .. Len(a) : a[k] = b[k]
  PROVE  a = b
BY SeqEqual DEF Sym

(* The order of compare_bytes(): the place where a comes before b. *)
Differ(a, b, n) ==
  /\ n <= Len(b) /\ n <= Len(a) + 1
  /\ \A k \in 1 .. n - 1 : a[k] = b[k]
  /\ n <= Len(a) => a[n] < b[n]

(* compare_bytes() is decided at the first place where a and b differ. *)
LEMMA LessIs ==
  ASSUME NEW a \in Sym, NEW b \in Sym
  PROVE  Less(a, b) <=> \E n \in Nat \ {0} : Differ(a, b, n)
<1>1. Len(a) \in Nat /\ Len(b) \in Nat
  BY LenProperties DEF Sym
<1>2. ASSUME IsStrictPrefix(a, b) PROVE \E n \in Nat \ {0} : Differ(a, b, n)
  <2>1. Len(a) <= Len(b) /\ SubSeq(a, 1, Len(a)) = SubSeq(b, 1, Len(a)) /\ a # b
    BY <1>2 DEF IsStrictPrefix, IsPrefix
  <2>2. \A k \in 1 .. Len(a) : a[k] = b[k]
    BY <1>1, <2>1, SameFirst
  <2>3. Len(a) # Len(b)
    BY <2>1, <2>2, EqualSyms
  <2>4. Differ(a, b, Len(a) + 1)
    BY <1>1, <2>1, <2>2, <2>3 DEF Differ
  <2> QED BY <1>1, <2>4
<1>3. ASSUME NEW n \in 1 .. Len(a), n <= Len(b), SubSeq(a, 1, n - 1) = SubSeq(b, 1, n - 1), a[n] < b[n]
      PROVE  \E m \in Nat \ {0} : Differ(a, b, m)
  <2>1. \A k \in 1 .. n - 1 : a[k] = b[k]
    <3>1. n - 1 \in Nat /\ n - 1 <= Len(a) /\ n - 1 <= Len(b)
      BY <1>1, <1>3
    <3> QED BY <3>1, <1>3, SameFirst
  <2>2. Differ(a, b, n)
    BY <1>1, <1>3, <2>1 DEF Differ
  <2> QED BY <2>2
<1>4. ASSUME NEW n \in Nat \ {0}, Differ(a, b, n) PROVE Less(a, b)
  <2>1. CASE n <= Len(a)
    <3>1. n \in 1 .. Len(a) /\ n <= Len(b) /\ a[n] < b[n]
      BY <1>1, <1>4, <2>1 DEF Differ
    <3>2. n - 1 \in Nat /\ n - 1 <= Len(a) /\ n - 1 <= Len(b)
      BY <1>1, <3>1
    <3>3. SubSeq(a, 1, n - 1) = SubSeq(b, 1, n - 1)
      BY <1>4, <3>2, SameFirst DEF Differ
    <3> QED BY <3>1, <3>3 DEF Less
  <2>2. CASE n = Len(a) + 1
    <3>1. Len(a) < Len(b) /\ \A k \in 1 .. Len(a) : a[k] = b[k]
      BY <1>1, <1>4, <2>2 DEF Differ
    <3>2. SubSeq(a, 1, Len(a)) = SubSeq(b, 1, Len(a)) /\ a # b /\ Len(a) <= Len(b)
      BY <1>1, <3>1, SameFirst
    <3> QED BY <3>2 DEF Less, IsStrictPrefix, IsPrefix
  <2> QED BY <1>1, <1>4, <2>1, <2>2 DEF Differ
<1> QED BY <1>2, <1>3, <1>4 DEF Less

(* compare_bytes() orders the symbols: strictly, *)
LEMMA LessIrreflexive == ASSUME NEW a \in Sym PROVE ~Less(a, a)
<1> SUFFICES ASSUME NEW n \in Nat \ {0}, Differ(a, a, n) PROVE FALSE
  BY LessIs
<1>1. Len(a) \in Nat /\ n <= Len(a)
  BY LenProperties DEF Differ, Sym
<1>2. a[n] \in Nat /\ a[n] < a[n]
  BY <1>1 DEF Differ, Sym
<1> QED BY <1>2

(* transitively, *)
LEMMA LessTransitive ==
  ASSUME NEW a \in Sym, NEW b \in Sym, NEW c \in Sym, Less(a, b), Less(b, c)
  PROVE  Less(a, c)
<1>1. PICK n \in Nat \ {0} : Differ(a, b, n)
  BY LessIs
<1>2. PICK m \in Nat \ {0} : Differ(b, c, m)
  BY LessIs
<1>3. /\ Len(a) \in Nat /\ Len(b) \in Nat /\ Len(c) \in Nat
      /\ \A k \in 1 .. Len(a) : a[k] \in Nat
      /\ \A k \in 1 .. Len(b) : b[k] \in Nat
      /\ \A k \in 1 .. Len(c) : c[k] \in Nat
  BY LenProperties DEF Sym
<1>4. CASE n < m
  <2>1. n <= Len(c) /\ n \in 1 .. m - 1
    BY <1>2, <1>3, <1>4 DEF Differ
  <2>2. \A k \in 1 .. n - 1 : a[k] = c[k]
    <3> TAKE k \in 1 .. n - 1
    <3>1. k \in 1 .. m - 1
      BY <2>1
    <3> QED BY <1>1, <1>2, <3>1 DEF Differ
  <2>3. b[n] = c[n]
    BY <1>2, <2>1 DEF Differ
  <2>4. Differ(a, c, n)
    BY <1>1, <2>1, <2>2, <2>3 DEF Differ
  <2> QED BY <2>4, LessIs
<1>5. CASE m < n
  <2>1. m <= Len(a) /\ m \in 1 .. n - 1 /\ m <= Len(b) /\ m <= Len(c)
    BY <1>1, <1>2, <1>3, <1>5 DEF Differ
  <2>2. \A k \in 1 .. m - 1 : a[k] = c[k]
    <3> TAKE k \in 1 .. m - 1
    <3>1. k \in 1 .. n - 1
      BY <2>1
    <3> QED BY <1>1, <1>2, <3>1 DEF Differ
  <2>3. a[m] = b[m] /\ b[m] < c[m]
    BY <1>1, <1>2, <2>1 DEF Differ
  <2>4. Differ(a, c, m)
    BY <1>3, <2>1, <2>2, <2>3 DEF Differ
  <2> QED BY <2>4, LessIs
<1>6. CASE n = m
  <2>1. n <= Len(c) /\ n <= Len(b) /\ n <= Len(a) + 1 /\ \A k \in 1 .. n - 1 : a[k] = c[k]
    BY <1>1, <1>2, <1>6 DEF Differ
  <2>2. ASSUME n <= Len(a) PROVE a[n] < c[n]
    <3>1. a[n] < b[n] /\ b[n] < c[n] /\ n \in 1 .. Len(a) /\ n \in 1 .. Len(b) /\ n \in 1 .. Len(c)
      BY <1>1, <1>2, <1>3, <1>6, <2>1, <2>2 DEF Differ
    <3>2. PICK x \in Nat, y \in Nat, z \in Nat : x = a[n] /\ y = b[n] /\ z = c[n]
      BY <3>1, <1>3
    <3> QED BY <3>1, <3>2
  <2>3. Differ(a, c, n)
    BY <2>1, <2>2 DEF Differ
  <2> QED BY <2>3, LessIs
<1> QED BY <1>4, <1>5, <1>6

(* and any two of them. *)
LEMMA LessTotal ==
  ASSUME NEW a \in Sym, NEW b \in Sym
  PROVE  Less(a, b) \/ a = b \/ Less(b, a)
<1> DEFINE T == {n \in Nat \ {0} : n > Len(a) \/ n > Len(b) \/ a[n] # b[n]}
<1>1. /\ Len(a) \in Nat /\ Len(b) \in Nat
      /\ \A k \in 1 .. Len(a) : a[k] \in Nat
      /\ \A k \in 1 .. Len(b) : b[k] \in Nat
  BY LenProperties DEF Sym
<1>2. Len(a) + 1 \in T
  BY <1>1
<1>3. PICK n \in T : \A m \in T : n <= m
  <2>1. T \subseteq Nat /\ T # {}
    BY <1>2
  <2> HIDE DEF T
  <2> QED BY <2>1, Least
<1>4. \A k \in 1 .. n - 1 : k <= Len(a) /\ k <= Len(b) /\ a[k] = b[k]
  <2> TAKE k \in 1 .. n - 1
  <2>1. k \in Nat \ {0} /\ ~(n <= k)
    BY <1>3
  <2>2. k \notin T
    BY <1>3, <2>1
  <2> QED BY <2>1, <2>2, <1>1
<1>5. n <= Len(a) + 1 /\ n <= Len(b) + 1 /\ n \in Nat \ {0}
  <2>1. n = 1 \/ n - 1 \in 1 .. n - 1
    BY <1>3
  <2> QED BY <1>1, <1>3, <1>4, <2>1
<1>6. CASE n > Len(a) /\ n > Len(b)
  <2>1. Len(a) = Len(b) /\ n - 1 = Len(a)
    BY <1>1, <1>5, <1>6
  <2> QED BY <2>1, <1>4, EqualSyms
<1>7. CASE n > Len(a) /\ n <= Len(b)
  <2>1. Differ(a, b, n)
    BY <1>1, <1>4, <1>5, <1>7 DEF Differ
  <2> QED BY <2>1, <1>5, LessIs
<1>8. CASE n <= Len(a) /\ n > Len(b)
  <2>1. Differ(b, a, n)
    BY <1>1, <1>4, <1>5, <1>8 DEF Differ
  <2> QED BY <2>1, <1>5, LessIs
<1>9. CASE n <= Len(a) /\ n <= Len(b)
  <2>1. n \in 1 .. Len(a) /\ n \in 1 .. Len(b) /\ a[n] # b[n]
    BY <1>1, <1>3, <1>5, <1>9
  <2>2. a[n] < b[n] \/ b[n] < a[n]
    <3>1. PICK x \in Nat, y \in Nat : x = a[n] /\ y = b[n]
      BY <2>1, <1>1
    <3> QED BY <2>1, <3>1
  <2>3. Differ(a, b, n) \/ Differ(b, a, n)
    BY <1>1, <1>4, <1>5, <1>9, <2>2 DEF Differ
  <2> QED BY <2>3, <1>5, LessIs
<1> QED BY <1>1, <1>5, <1>6, <1>7, <1>8, <1>9

-----------------------------------------------------------------------------
(* How many of the matches offered come before s, and how many not behind  *)
(* it.                                                                     *)
Smaller(O, s) == Cardinality({o \in O : Less(o[2], s)})
UpTo(O, s)    == Cardinality({o \in O : ~Less(s, o[2])})

Offers(O) == IsFiniteSet(O) /\ \A o \in O : o[2] \in Sym

(* The counts are numbers, and no larger than the offers. *)
LEMMA Counts ==
  ASSUME NEW O, Offers(O), NEW s \in Sym
  PROVE  /\ Smaller(O, s) \in Nat /\ UpTo(O, s) \in Nat /\ Cardinality(O) \in Nat
         /\ UpTo(O, s) <= Cardinality(O)
<1>1. {o \in O : Less(o[2], s)} \in SUBSET O /\ {o \in O : ~Less(s, o[2])} \in SUBSET O
  OBVIOUS
<1>2. IsFiniteSet(O)
  BY DEF Offers
<1> QED BY <1>1, <1>2, FS_Subset, FS_CardinalityType DEF Smaller, UpTo

(* Counts follow the order of the symbols they are counted for. *)
LEMMA CountsOrder ==
  ASSUME NEW O, Offers(O), NEW s \in Sym, NEW t \in Sym
  PROVE  /\ Less(t, s) => UpTo(O, t) <= Smaller(O, s)
         /\ ~Less(t, s) => Smaller(O, s) <= UpTo(O, t)
         /\ ~Less(s, t) => UpTo(O, t) <= UpTo(O, s)
<1> DEFINE ss == {o \in O : Less(o[2], s)}
           us == {o \in O : ~Less(s, o[2])}
           ut == {o \in O : ~Less(t, o[2])}
<1>1. IsFiniteSet(ss) /\ IsFiniteSet(us) /\ IsFiniteSet(ut)
  BY FS_Subset DEF Offers
<1>2. ASSUME Less(t, s) PROVE ut \subseteq ss
  <2>1. ASSUME NEW o \in O, ~Less(t, o[2]) PROVE Less(o[2], s)
    <3>1. o[2] \in Sym
      BY DEF Offers
    <3>2. o[2] = t \/ Less(o[2], t)
      BY <2>1, <3>1, LessTotal
    <3> QED BY <1>2, <3>1, <3>2, LessTransitive
  <2> QED BY <2>1
<1>3. ASSUME ~Less(t, s) PROVE ss \subseteq ut
  <2>1. ASSUME NEW o \in O, Less(o[2], s), Less(t, o[2]) PROVE FALSE
    <3>1. o[2] \in Sym
      BY DEF Offers
    <3> QED BY <1>3, <2>1, <3>1, LessTransitive
  <2> QED BY <2>1
<1>4. ASSUME ~Less(s, t) PROVE ut \subseteq us
  <2>1. ASSUME NEW o \in O, ~Less(t, o[2]), Less(s, o[2]) PROVE FALSE
    <3>1. o[2] \in Sym
      BY DEF Offers
    <3>2. o[2] = t \/ Less(o[2], t)
      BY <2>1, <3>1, LessTotal
    <3> QED BY <1>4, <2>1, <3>1, <3>2, LessTransitive
  <2> QED BY <2>1
<1> HIDE DEF ss, us, ut
<1>5. /\ Less(t, s) => Cardinality(ut) <= Cardinality(ss)
      /\ ~Less(t, s) => Cardinality(ss) <= Cardinality(ut)
      /\ ~Less(s, t) => Cardinality(ut) <= Cardinality(us)
  BY <1>1, <1>2, <1>3, <1>4, FS_Subset
<1> QED BY <1>5 DEF Smaller, UpTo, ss, us, ut

(* One more offer counts for the symbols it is not behind. *)
LEMMA CountsAdd ==
  ASSUME NEW O, Offers(O), NEW s \in Sym, NEW x, x[2] \in Sym, x \notin O
  PROVE  /\ Offers(O \cup {x}) /\ Cardinality(O \cup {x}) = Cardinality(O) + 1
         /\ Smaller(O \cup {x}, s) = Smaller(O, s) + (IF Less(x[2], s) THEN 1 ELSE 0)
         /\ UpTo(O \cup {x}, s) = UpTo(O, s) + (IF Less(s, x[2]) THEN 0 ELSE 1)
<1> DEFINE ss == {o \in O : Less(o[2], s)}
           us == {o \in O : ~Less(s, o[2])}
<1>1. IsFiniteSet(O) /\ IsFiniteSet(ss) /\ IsFiniteSet(us) /\ x \notin ss /\ x \notin us
  BY FS_Subset DEF Offers
<1>2. {o \in O \cup {x} : Less(o[2], s)} = IF Less(x[2], s) THEN ss \cup {x} ELSE ss
  OBVIOUS
<1>3. {o \in O \cup {x} : ~Less(s, o[2])} = IF Less(s, x[2]) THEN us ELSE us \cup {x}
  OBVIOUS
<1>4. Cardinality(ss) \in Nat /\ Cardinality(us) \in Nat
  BY <1>1, FS_CardinalityType
<1> HIDE DEF ss, us
<1>5. /\ Cardinality(ss \cup {x}) = Cardinality(ss) + 1
      /\ Cardinality(us \cup {x}) = Cardinality(us) + 1
      /\ Cardinality(O \cup {x}) = Cardinality(O) + 1
      /\ IsFiniteSet(O \cup {x})
  BY <1>1, FS_AddElement
<1>6. Smaller(O \cup {x}, s) = Cardinality(ss) + (IF Less(x[2], s) THEN 1 ELSE 0)
  <2>1. CASE Less(x[2], s)
    BY <2>1, <1>2, <1>5 DEF Smaller
  <2>2. CASE ~Less(x[2], s)
    BY <2>2, <1>2, <1>4 DEF Smaller
  <2> QED BY <2>1, <2>2
<1>7. UpTo(O \cup {x}, s) = Cardinality(us) + (IF Less(s, x[2]) THEN 0 ELSE 1)
  <2>1. CASE Less(s, x[2])
    <3>1. UpTo(O \cup {x}, s) = Cardinality(us)
      BY <2>1, <1>3 DEF UpTo
    <3> QED BY <2>1, <3>1, <1>4
  <2>2. CASE ~Less(s, x[2])
    BY <2>2, <1>3, <1>5 DEF UpTo
  <2> QED BY <2>1, <2>2
<1> QED BY <1>5, <1>6, <1>7 DEF Smaller, UpTo, Offers, ss, us

(* The array is the beginning of the matches offered, in their order: the  *)
(* i-th comes before s where at least i of them do.                        *)
Ranked(m, O, S) ==
  /\ m \in Seq(S)
  /\ Len(m) = IF Cardinality(O) < MatchMax THEN Cardinality(O) ELSE MatchMax
  /\ \A s \in S : \A i \in 1 .. Len(m) :
       /\ Less(m[i], s) <=> i <= Smaller(O, s)
       /\ ~Less(s, m[i]) <=> i <= UpTo(O, s)

(* Such an array is sorted. *)
LEMMA RankedSorted ==
  ASSUME NEW S, S \subseteq Sym, NEW O, Offers(O), NEW m, Ranked(m, O, S),
         NEW i \in 1 .. Len(m), NEW j \in 1 .. Len(m), i < j
  PROVE  ~Less(m[j], m[i])
<1> SUFFICES ASSUME Less(m[j], m[i]) PROVE FALSE
  OBVIOUS
<1>1. m[i] \in S /\ m[i] \in Sym
  BY DEF Ranked
<1>2. j <= Smaller(O, m[i]) /\ Smaller(O, m[i]) \in Nat
  BY <1>1, Counts DEF Ranked
<1>3. i <= Smaller(O, m[i])
  <2>1. i \in Nat /\ j \in Nat
    OBVIOUS
  <2> QED BY <1>2, <2>1
<1>4. Less(m[i], m[i])
  BY <1>1, <1>3 DEF Ranked
<1> QED BY <1>1, <1>4, LessIrreflexive

(* The loop of check_match(): up to where test belongs it is carried, and  *)
(* from there on the match that was there.                                 *)
LEMMA CarriedIs ==
  ASSUME NEW S, S \subseteq Sym, NEW O, Offers(O), Ranked(matches, O, S), NEW test \in S,
         NEW i \in 0 .. Len(matches)
  PROVE  Carried(test)[i] = IF i <= UpTo(O, test) THEN test ELSE matches[i]
<1>1. PICK n \in Nat, u \in Nat : n = Len(matches) /\ u = UpTo(O, test)
  <2>1. test \in Sym /\ Len(matches) \in Nat
    BY LenProperties DEF Ranked
  <2> QED BY <2>1, Counts
<1> DEFINE m == matches
           Next_(f, j) == IF j = 0 THEN test ELSE IF Less(f[j - 1], m[j]) THEN m[j] ELSE f[j - 1]
           g == [j \in 0 .. n |-> IF j <= u THEN test ELSE m[j]]
           c == CHOOSE f : f = [j \in 0 .. n |-> Next_(f, j)]
<1>2. Carried(test) = c
  BY <1>1 DEF Carried
<1>3. \A j \in 1 .. n : m[j] \in S /\ (Less(test, m[j]) <=> j > u)
  <2> TAKE j \in 1 .. n
  <2>1. m[j] \in S /\ (~Less(test, m[j]) <=> j <= u)
    BY <1>1 DEF Ranked
  <2> QED BY <2>1
<1>4. \A j \in 2 .. n : Less(m[j - 1], m[j]) \/ m[j - 1] = m[j]
  <2> TAKE j \in 2 .. n
  <2>1. j - 1 \in 1 .. n /\ j \in 1 .. n /\ j - 1 < j
    OBVIOUS
  <2>2. ~Less(m[j], m[j - 1])
    BY <1>1, <2>1, RankedSorted
  <2>3. m[j] \in Sym /\ m[j - 1] \in Sym
    BY <1>3, <2>1
  <2> QED BY <2>2, <2>3, LessTotal
<1>5. ASSUME NEW f, NEW j \in 1 .. n, f[j - 1] = IF j - 1 <= u THEN test ELSE m[j - 1]
      PROVE  Next_(f, j) = IF j <= u THEN test ELSE m[j]
  <2>1. CASE j <= u
    BY <1>3, <1>5, <2>1
  <2>2. CASE j = u + 1
    <3>1. f[j - 1] = test /\ Less(test, m[j]) /\ ~(j <= u) /\ j # 0
      BY <1>3, <1>5, <2>2
    <3> QED BY <3>1
  <2>3. CASE j > u + 1
    <3>1. f[j - 1] = m[j - 1] /\ ~(j <= u) /\ j \in 2 .. n /\ j # 0
      BY <1>1, <1>5, <2>3
    <3> QED BY <3>1, <1>4
  <2> QED BY <1>1, <2>1, <2>2, <2>3
<1>6. g = [j \in 0 .. n |-> Next_(g, j)]
  <2>1. ASSUME NEW j \in 0 .. n PROVE g[j] = Next_(g, j)
    <3>1. CASE j = 0
      BY <1>1, <3>1
    <3>2. CASE j \in 1 .. n
      <4>1. j - 1 \in 0 .. n
        BY <3>2
      <4>2. g[j - 1] = (IF j - 1 <= u THEN test ELSE m[j - 1]) /\ g[j] = (IF j <= u THEN test ELSE m[j])
        BY <4>1
      <4> HIDE DEF g, Next_
      <4> QED BY <1>5, <3>2, <4>2
    <3> QED BY <3>1, <3>2
  <2> HIDE DEF Next_
  <2> QED BY <2>1
<1>7. c = [j \in 0 .. n |-> Next_(c, j)]
  <2> HIDE DEF g, Next_
  <2> QED BY <1>6
<1> HIDE DEF c, g
<1> DEFINE P == {j \in Nat : j <= n => c[j] = IF j <= u THEN test ELSE m[j]}
<1>8. 0 \in P
  BY <1>1, <1>7
<1>9. ASSUME NEW j \in Nat, j \in P PROVE j + 1 \in P
  <2> SUFFICES ASSUME j + 1 <= n PROVE c[j + 1] = IF j + 1 <= u THEN test ELSE m[j + 1]
    OBVIOUS
  <2>1. j + 1 \in 1 .. n /\ (j + 1) - 1 = j /\ j <= n
    BY <1>1
  <2>2. c[j] = IF j <= u THEN test ELSE m[j]
    BY <1>9, <2>1
  <2> HIDE DEF P, Next_
  <2>3. Next_(c, j + 1) = IF j + 1 <= u THEN test ELSE m[j + 1]
    BY <1>5, <2>1, <2>2
  <2> QED BY <1>7, <2>1, <2>3
<1>10. Nat \subseteq P
  <2> HIDE DEF P
  <2> QED BY <1>8, <1>9, NatInd
<1> QED BY <1>1, <1>2, <1>10

(* So the new match goes behind those that are not behind it. *)
LEMMA InsertedIs ==
  ASSUME NEW S, S \subseteq Sym, NEW O, Offers(O), Ranked(matches, O, S), NEW test \in S
  PROVE  /\ Inserted(test) \in Seq(S)
         /\ Len(Inserted(test)) = IF Cardinality(O) + 1 < MatchMax THEN Cardinality(O) + 1 ELSE MatchMax
         /\ \A i \in 1 .. Len(Inserted(test)) :
              /\ i - 1 <= Len(matches)
              /\ i <= UpTo(O, test) => i \in 1 .. Len(matches) /\ Inserted(test)[i] = matches[i]
              /\ i = UpTo(O, test) + 1 => Inserted(test)[i] = test
              /\ i > UpTo(O, test) + 1 => i - 1 \in 1 .. Len(matches) /\ Inserted(test)[i] = matches[i - 1]
<1>1. PICK n \in Nat, u \in Nat, k \in Nat, mx \in Nat \ {0} :
        /\ n = Len(matches) /\ u = UpTo(O, test) /\ k = Cardinality(O) /\ mx = MatchMax
        /\ u <= k /\ n = IF k < mx THEN k ELSE mx
  <2>1. test \in Sym /\ Len(matches) \in Nat
    BY LenProperties DEF Ranked
  <2> QED BY <2>1, Counts, CompletionAssumption DEF Ranked
<1> DEFINE m == matches
           c == Carried(test)
           w == IF n = mx THEN mx ELSE n + 1
           v(i) == IF i > n THEN c[i - 1] ELSE IF Less(c[i - 1], m[i]) THEN c[i - 1] ELSE m[i]
<1>2. Inserted(test) = [i \in 1 .. w |-> v(i)]
  BY <1>1 DEF Inserted
<1>3. \A i \in 0 .. n : c[i] = IF i <= u THEN test ELSE m[i]
  BY <1>1, CarriedIs
<1>4. \A i \in 1 .. n : m[i] \in S /\ (Less(test, m[i]) <=> i > u)
  <2> TAKE i \in 1 .. n
  <2>1. m[i] \in S /\ (~Less(test, m[i]) <=> i <= u)
    BY <1>1 DEF Ranked
  <2> QED BY <2>1, <1>1
<1>5. \A i \in 2 .. n : Less(m[i - 1], m[i]) \/ m[i - 1] = m[i]
  <2> TAKE i \in 2 .. n
  <2>1. i - 1 \in 1 .. n /\ i \in 1 .. n /\ i - 1 < i
    BY <1>1
  <2>2. ~Less(m[i], m[i - 1])
    BY <1>1, <2>1, RankedSorted
  <2>3. m[i] \in Sym /\ m[i - 1] \in Sym
    BY <1>4, <2>1
  <2> QED BY <2>2, <2>3, LessTotal
<1>6. w \in Nat /\ w = (IF k + 1 < mx THEN k + 1 ELSE mx)
  BY <1>1
<1> HIDE DEF c
<1>7. ASSUME NEW i \in 1 .. w
      PROVE  /\ i - 1 <= n
             /\ i <= u => i \in 1 .. n /\ v(i) = m[i]
             /\ i = u + 1 => v(i) = test
             /\ i > u + 1 => i - 1 \in 1 .. n /\ v(i) = m[i - 1]
  <2>1. i - 1 \in 0 .. n /\ i \in Nat
    BY <1>1
  <2>2. c[i - 1] = IF i - 1 <= u THEN test ELSE m[i - 1]
    BY <1>3, <2>1
  <2>3. ASSUME i <= u PROVE i \in 1 .. n /\ v(i) = m[i]
    <3>1. i \in 1 .. n /\ i - 1 <= u
      BY <1>1, <2>1, <2>3
    <3>2. c[i - 1] = test /\ ~Less(test, m[i]) /\ ~(i > n)
      BY <2>2, <3>1, <1>1, <1>4, <2>3
    <3> QED BY <3>1, <3>2
  <2>4. ASSUME i = u + 1 PROVE v(i) = test
    <3>1. c[i - 1] = test
      BY <1>1, <2>2, <2>4
    <3>2. i > n \/ Less(test, m[i])
      <4>1. i > n \/ i \in 1 .. n
        BY <1>1
      <4>2. i > u
        BY <1>1, <2>4
      <4> QED BY <4>1, <4>2, <1>4
    <3> QED BY <3>1, <3>2
  <2>5. ASSUME i > u + 1 PROVE i - 1 \in 1 .. n /\ v(i) = m[i - 1]
    <3>1. i - 1 \in 1 .. n /\ ~(i - 1 <= u)
      BY <1>1, <2>1, <2>5
    <3>2. c[i - 1] = m[i - 1]
      BY <2>2, <3>1
    <3>3. i > n \/ i \in 2 .. n
      BY <1>1, <2>5
    <3>4. i > n \/ Less(m[i - 1], m[i]) \/ m[i - 1] = m[i]
      BY <3>3, <1>5
    <3> QED BY <3>1, <3>2, <3>4
  <2> QED BY <2>1, <2>3, <2>4, <2>5
<1>8. ASSUME NEW i \in 1 .. w PROVE v(i) \in S
  <2>1. i <= u \/ i = u + 1 \/ i > u + 1
    BY <1>1
  <2> HIDE DEF v
  <2> QED BY <2>1, <1>4, <1>7
<1> HIDE DEF v, w
<1>9. [i \in 1 .. w |-> v(i)] \in Seq(S) /\ Len([i \in 1 .. w |-> v(i)]) = w
  BY <1>6, <1>8
<1> QED BY <1>1, <1>2, <1>6, <1>7, <1>9

(* check_match() keeps it so: the match that is offered takes its place,   *)
(* and the last one goes where there is no room.                           *)
LEMMA RankedStays ==
  ASSUME NEW S, S \subseteq Sym, NEW O, Offers(O), Ranked(matches, O, S),
         NEW x, x[2] \in S, x \notin O
  PROVE  Ranked(Inserted(x[2]), O \cup {x}, S)
<1> DEFINE test == x[2]
           N == Inserted(test)
           Q == O \cup {x}
<1>1. test \in Sym /\ Cardinality(O) \in Nat /\ Cardinality(Q) = Cardinality(O) + 1
  BY Counts, CountsAdd
<1>2. /\ N \in Seq(S)
      /\ Len(N) = IF Cardinality(Q) < MatchMax THEN Cardinality(Q) ELSE MatchMax
      /\ \A i \in 1 .. Len(N) :
           /\ i - 1 <= Len(matches)
           /\ i <= UpTo(O, test) => i \in 1 .. Len(matches) /\ N[i] = matches[i]
           /\ i = UpTo(O, test) + 1 => N[i] = test
           /\ i > UpTo(O, test) + 1 => i - 1 \in 1 .. Len(matches) /\ N[i] = matches[i - 1]
  <2>1. /\ N \in Seq(S)
        /\ Len(N) = IF Cardinality(O) + 1 < MatchMax THEN Cardinality(O) + 1 ELSE MatchMax
        /\ \A i \in 1 .. Len(N) :
             /\ i - 1 <= Len(matches)
             /\ i <= UpTo(O, test) => i \in 1 .. Len(matches) /\ N[i] = matches[i]
             /\ i = UpTo(O, test) + 1 => N[i] = test
             /\ i > UpTo(O, test) + 1 => i - 1 \in 1 .. Len(matches) /\ N[i] = matches[i - 1]
    <3>1. PICK y \in S : y = test
      OBVIOUS
    <3>2. /\ Inserted(y) \in Seq(S)
          /\ Len(Inserted(y)) = IF Cardinality(O) + 1 < MatchMax THEN Cardinality(O) + 1 ELSE MatchMax
          /\ \A i \in 1 .. Len(Inserted(y)) :
               /\ i - 1 <= Len(matches)
               /\ i <= UpTo(O, y) => i \in 1 .. Len(matches) /\ Inserted(y)[i] = matches[i]
               /\ i = UpTo(O, y) + 1 => Inserted(y)[i] = y
               /\ i > UpTo(O, y) + 1 => i - 1 \in 1 .. Len(matches) /\ Inserted(y)[i] = matches[i - 1]
      BY ONLY S \subseteq Sym, Offers(O), Ranked(matches, O, S), y \in S, InsertedIs
    <3> QED BY <3>1, <3>2
  <2> HIDE DEF N, Q
  <2> QED BY <2>1, <1>1
<1>3. ASSUME NEW s \in S, NEW i \in 1 .. Len(N)
      PROVE  /\ Less(N[i], s) <=> i <= Smaller(Q, s)
             /\ ~Less(s, N[i]) <=> i <= UpTo(Q, s)
  <2>1. s \in Sym
    OBVIOUS
  <2>2. PICK u \in Nat, sm \in Nat, up \in Nat :
          /\ u = UpTo(O, test) /\ sm = Smaller(O, s) /\ up = UpTo(O, s)
    BY <1>1, <2>1, Counts
  <2>3. /\ Smaller(Q, s) = sm + (IF Less(test, s) THEN 1 ELSE 0)
        /\ UpTo(Q, s) = up + (IF Less(s, test) THEN 0 ELSE 1)
    BY <1>1, <2>1, <2>2, CountsAdd
  <2>4. /\ Less(test, s) => u <= sm
        /\ ~Less(test, s) => sm <= u
        /\ ~Less(s, test) => u <= up
        /\ ~Less(test, s) => up <= u
    BY <1>1, <2>1, <2>2, CountsOrder
  <2>5. ~(Less(test, s) /\ Less(s, test))
    BY <1>1, <2>1, LessTransitive, LessIrreflexive
  <2>6. PICK z : z = N[i]
    OBVIOUS
  <2>7. i \in Nat \ {0}
    OBVIOUS
  <2>8. CASE i <= u
    <3>1. i \in 1 .. Len(matches) /\ z = matches[i]
      BY <1>2, <2>2, <2>6, <2>8
    <3>2. (Less(z, s) <=> i <= sm) /\ (~Less(s, z) <=> i <= up)
      BY <2>2, <3>1 DEF Ranked
    <3> HIDE DEF N, Q, test
    <3> QED BY <2>2, <2>3, <2>4, <2>5, <2>6, <2>7, <2>8, <3>2
  <2>9. CASE i = u + 1
    <3>1. z = test
      BY <1>2, <2>2, <2>6, <2>9
    <3>2. Less(s, test) => up <= u
      BY <2>4, <2>5
    <3> HIDE DEF N, Q, test
    <3> QED BY <2>2, <2>3, <2>4, <2>5, <2>6, <2>7, <2>9, <3>1, <3>2
  <2>10. CASE i > u + 1
    <3>1. i - 1 \in 1 .. Len(matches) /\ z = matches[i - 1] /\ z \in S
      <4>1. i - 1 \in 1 .. Len(matches) /\ N[i] = matches[i - 1]
        BY <1>2, <2>2, <2>10
      <4>2. matches \in Seq(S)
        BY DEF Ranked
      <4> HIDE DEF N
      <4> QED BY <4>1, <4>2, <2>6
    <3>2. (Less(z, s) <=> i - 1 <= sm) /\ (~Less(s, z) <=> i - 1 <= up)
      BY <2>2, <3>1 DEF Ranked
    <3>3. Less(test, z)
      <4>1. ~Less(test, z) <=> i - 1 <= u
        BY <2>2, <3>1 DEF Ranked
      <4> QED BY <4>1, <2>2, <2>7, <2>10
    <3>4. Less(s, test) => Less(s, z)
      BY <1>1, <2>1, <3>1, <3>3, LessTransitive
    <3>5. ~Less(test, s) => ~Less(z, s)
      BY <1>1, <2>1, <3>1, <3>3, LessTransitive
    <3> HIDE DEF N, Q, test
    <3>6. Less(z, s) <=> i <= Smaller(Q, s)
      BY <2>2, <2>3, <2>4, <2>5, <2>7, <2>10, <3>2, <3>5
    <3>7. ~Less(s, z) <=> i <= UpTo(Q, s)
      BY <2>2, <2>3, <2>4, <2>5, <2>7, <2>10, <3>2, <3>4
    <3> QED BY <2>6, <3>6, <3>7
  <2> QED BY <2>2, <2>7, <2>8, <2>9, <2>10
<1> QED BY <1>2, <1>3 DEF Ranked

-----------------------------------------------------------------------------
(* The walk: what is left of a table is of that table, and the array has   *)
(* the first of the matches that were offered.                             *)
Walk ==
  /\ phase \in {"keys", "collect", "stopped", "away"} /\ prefix \in Sym
  /\ chain \in Seq(SUBSET Sym) /\ IsFiniteSet(Symbols)
  /\ left \in Seq(SUBSET Sym) /\ Len(left) <= Len(chain)
  /\ \A t \in 1 .. Len(left) : left[t] \subseteq chain[Len(chain) - Len(left) + t]

First == phase = "collect" => Ranked(matches, Offered, Symbols)

(* The symbols of the environment are symbols. *)
LEMMA SymbolsAre == ASSUME Walk PROVE Symbols \subseteq Sym /\ \A t \in 1 .. Len(chain) : chain[t] \subseteq Symbols
BY DEF Walk, Symbols

(* The offers are finitely many, each of a symbol. *)
LEMMA OffersAre == ASSUME Walk PROVE Offers(Offered)
<1>1. IsFiniteSet((1 .. Len(chain)) \X Symbols)
  <2>1. Len(chain) \in Nat
    BY LenProperties DEF Walk
  <2>2. IsFiniteSet(1 .. Len(chain))
    BY <2>1, FS_Interval
  <2> QED BY <2>2, FS_Product DEF Walk
<1>2. Offered \subseteq (1 .. Len(chain)) \X Symbols
  BY DEF Offered
<1>3. \A o \in Offered : o[2] \in Sym
  BY <1>2, SymbolsAre
<1> QED BY <1>1, <1>2, <1>3, FS_Subset DEF Offers

(* A pair that has been offered. *)
LEMMA OfferedIs ==
  ASSUME NEW o
  PROVE  o \in Offered <=> /\ o \in (1 .. Len(chain)) \X Symbols /\ o[2] \in chain[o[1]]
                           /\ IsPrefix(prefix, o[2])
                           /\ o[1] > Len(chain) - Len(left) => o[2] \notin left[o[1] - (Len(chain) - Len(left))]
BY DEF Offered

(* Tab starts the walk with nothing offered. *)
LEMMA TabWalks == ASSUME Walk, kshowcomp PROVE Walk' /\ First'
<1>1. PICK c \in Chains : chain' = Append(c, Specials)
  BY DEF kshowcomp
<1>2. c \in Seq(SUBSET Sym) /\ Specials \in SUBSET Sym /\ IsFiniteSet(Specials)
      /\ IsFiniteSet(UNION {c[t] : t \in 1 .. Len(c)})
  BY CompletionAssumption DEF Sym
<1>3. /\ chain' \in Seq(SUBSET Sym) /\ Len(chain') = Len(c) + 1 /\ Len(c) \in Nat
      /\ \A t \in 1 .. Len(c) : chain'[t] = c[t]
      /\ chain'[Len(c) + 1] = Specials
  BY <1>1, <1>2, LenProperties
<1>4. IsFiniteSet(Symbols')
  <2>1. UNION {chain'[t] : t \in 1 .. Len(chain')} = (UNION {c[t] : t \in 1 .. Len(c)}) \cup Specials
    <3>1. \A t \in 1 .. Len(chain') : t \in 1 .. Len(c) \/ t = Len(c) + 1
      BY <1>3
    <3>2. \A t \in 1 .. Len(c) : t \in 1 .. Len(chain')
      BY <1>3
    <3>3. Len(c) + 1 \in 1 .. Len(chain')
      BY <1>3
    <3>4. ASSUME NEW y PROVE (\E t \in 1 .. Len(chain') : y \in chain'[t])
                               <=> (\E t \in 1 .. Len(c) : y \in c[t]) \/ y \in Specials
      BY <3>1, <3>2, <3>3, <1>3
    <3> QED BY <3>4
  <2>2. IsFiniteSet((UNION {c[t] : t \in 1 .. Len(c)}) \cup Specials)
    BY <1>2, FS_Union
  <2>3. IsFiniteSet(UNION {chain'[t] : t \in 1 .. Len(chain')})
    BY <2>1, <2>2
  <2> QED BY <2>3 DEF Symbols
<1>5. left' = chain' /\ prefix' = prefix /\ matches' = <<>> /\ phase' = "collect"
  BY DEF kshowcomp
<1>6. Len(chain') \in Nat /\ Len(chain') - Len(left') = 0
  BY <1>3, <1>5
<1>7. Walk'
  <2>1. ASSUME NEW t \in 1 .. Len(left') PROVE left'[t] \subseteq chain'[Len(chain') - Len(left') + t]
    <3>1. Len(chain') - Len(left') + t = t
      BY <1>6
    <3> QED BY <3>1, <1>5
  <2> QED BY <1>3, <1>4, <1>5, <1>6, <2>1 DEF Walk
<1>8. Offered' = {}
  <2> SUFFICES ASSUME NEW o \in Offered' PROVE FALSE
    OBVIOUS
  <2>1. /\ o \in (1 .. Len(chain')) \X Symbols' /\ o[2] \in chain'[o[1]]
        /\ o[1] > Len(chain') - Len(left') => o[2] \notin left'[o[1] - (Len(chain') - Len(left'))]
    BY DEF Offered
  <2>2. o[1] \in 1 .. Len(chain')
    BY <2>1
  <2>3. o[1] > Len(chain') - Len(left') /\ o[1] - (Len(chain') - Len(left')) = o[1]
    BY <1>6, <2>2
  <2> QED BY <2>1, <2>3, <1>5
<1>9. Ranked(<<>>, {}, Symbols')
  <2>1. Len(<<>>) = 0 /\ 0 < MatchMax
    BY CompletionAssumption
  <2>2. Cardinality({}) = 0
    BY FS_EmptySet
  <2> QED BY <2>1, <2>2 DEF Ranked
<1>10. Ranked(matches', Offered', Symbols')
  BY <1>5, <1>8, <1>9
<1> QED BY <1>7, <1>10 DEF First, Ranked, Smaller, UpTo

(* check_match() offers one symbol of the table that is looked at. *)
LEMMA MatchWalks == ASSUME Walk, First, check_match PROVE Walk' /\ First'
<1>1. PICK s \in Head(left) :
         /\ left' = [left EXCEPT ![1] = left[1] \ {s}]
         /\ matches' = IF IsPrefix(prefix, s) THEN Inserted(s) ELSE matches
  BY DEF check_match
<1>2. /\ phase = "collect" /\ left # <<>> /\ UNCHANGED <<phase, prefix, chain>>
      /\ Symbols' = Symbols
  BY DEF check_match, Symbols
<1>3. PICK n \in Nat, l \in Nat \ {0} : n = Len(chain) /\ l = Len(left) /\ l <= n
  BY <1>2, LenProperties, EmptySeq DEF Walk
<1>4. 1 \in 1 .. l /\ s \in left[1] /\ left[1] \subseteq chain[n - l + 1] /\ n - l + 1 \in 1 .. n
      /\ left[1] \in SUBSET Sym
  <2>1. 1 \in 1 .. Len(left) /\ n - l + 1 \in 1 .. n
    BY <1>3
  <2>2. Head(left) = left[1]
    BY <1>2 DEF Walk
  <2>3. left[1] \subseteq chain[Len(chain) - Len(left) + 1] /\ left[1] \in SUBSET Sym
    BY <2>1 DEF Walk
  <2> QED BY <2>1, <2>2, <2>3, <1>3
<1>5. /\ left' \in Seq(SUBSET Sym) /\ Len(left') = l
      /\ left'[1] = left[1] \ {s} /\ \A t \in 2 .. l : left'[t] = left[t]
  BY <1>1, <1>3, <1>4 DEF Walk
<1>6. Walk'
  <2>1. ASSUME NEW t \in 1 .. l PROVE left'[t] \subseteq chain[n - l + t]
    <3>1. CASE t = 1
      BY <3>1, <1>4, <1>5
    <3>2. CASE t \in 2 .. l
      BY <3>2, <1>3, <1>5 DEF Walk
    <3> QED BY <3>1, <3>2
  <2> QED BY <1>2, <1>3, <1>5, <2>1 DEF Walk
<1>7. s \in Symbols /\ s \in Sym
  BY <1>4, <1>3, SymbolsAre
<1>8. PICK x : x = <<n - l + 1, s>>
  OBVIOUS
<1>9. x[1] = n - l + 1 /\ x[2] = s
  BY <1>8
<1>10. x \notin Offered
  <2>1. x[1] > n - l /\ x[1] - (n - l) = 1
    BY <1>9, <1>3
  <2> QED BY <2>1, <1>3, <1>4, <1>9, OfferedIs
<1>11. ASSUME NEW o \in (1 .. n) \X Symbols, o # x
       PROVE  (o[1] > n - l => o[2] \notin left'[o[1] - (n - l)]) <=> (o[1] > n - l => o[2] \notin left[o[1] - (n - l)])
  <2>1. o[1] \in 1 .. n /\ o = <<o[1], o[2]>>
    OBVIOUS
  <2>2. CASE o[1] = n - l + 1
    <3>1. o[2] # s
      BY <1>8, <1>11, <2>1, <2>2
    <3>2. o[1] - (n - l) = 1
      BY <1>3, <2>2
    <3> QED BY <3>1, <3>2, <1>5
  <2>3. CASE o[1] > n - l + 1
    <3>1. o[1] - (n - l) \in 2 .. l
      BY <1>3, <2>1, <2>3
    <3> QED BY <3>1, <1>5
  <2>4. CASE ~(o[1] > n - l)
    BY <2>4
  <2> QED BY <1>3, <2>1, <2>2, <2>3, <2>4
<1>12. ASSUME NEW o
       PROVE  o \in Offered' <=> o \in Offered \/ (o = x /\ IsPrefix(prefix, s))
  <2>1. o \in Offered' <=> /\ o \in (1 .. n) \X Symbols /\ o[2] \in chain[o[1]]
                           /\ IsPrefix(prefix, o[2])
                           /\ o[1] > n - l => o[2] \notin left'[o[1] - (n - l)]
    BY <1>2, <1>3, <1>5 DEF Offered
  <2>2. o \in Offered <=> /\ o \in (1 .. n) \X Symbols /\ o[2] \in chain[o[1]]
                          /\ IsPrefix(prefix, o[2])
                          /\ o[1] > n - l => o[2] \notin left[o[1] - (n - l)]
    BY <1>3, OfferedIs
  <2>3. CASE o # x
    BY <2>1, <2>2, <2>3, <1>11
  <2>4. CASE o = x
    <3>1. x \in (1 .. n) \X Symbols
      BY <1>4, <1>7, <1>8
    <3>2. x[2] \in chain[x[1]] /\ x[1] - (n - l) = 1
      BY <1>3, <1>4, <1>9
    <3> QED BY <2>1, <2>4, <3>1, <3>2, <1>5, <1>9, <1>10
  <2> QED BY <2>3, <2>4
<1>13. /\ Symbols \subseteq Sym /\ Offers(Offered) /\ Ranked(matches, Offered, Symbols)
  BY <1>2, SymbolsAre, OffersAre DEF First
<1>14. CASE IsPrefix(prefix, s)
  <2>1. Offered' = Offered \cup {x}
    BY <1>12, <1>14
  <2>2. matches' = Inserted(x[2])
    BY <1>1, <1>9, <1>14
  <2>3. x[2] \in Symbols
    BY <1>7, <1>9
  <2>4. Ranked(Inserted(x[2]), Offered \cup {x}, Symbols)
    BY <1>10, <1>13, <2>3, RankedStays
  <2>5. Ranked(matches', Offered', Symbols')
    BY <2>1, <2>2, <2>4, <1>2
  <2> QED BY <2>5, <1>6 DEF First, Ranked, Smaller, UpTo
<1>15. CASE ~IsPrefix(prefix, s)
  <2>1. Offered' = Offered
    BY <1>12, <1>15
  <2>2. matches' = matches
    BY <1>1, <1>15
  <2>3. Ranked(matches', Offered', Symbols')
    BY <2>1, <2>2, <1>2, <1>13
  <2> QED BY <2>3, <1>6 DEF First, Ranked, Smaller, UpTo
<1> QED BY <1>14, <1>15

(* The next table: nothing is offered that was not. *)
LEMMA TableWalks == ASSUME Walk, First, next_table PROVE Walk' /\ First'
<1>1. /\ left # <<>> /\ Head(left) = {} /\ left' = Tail(left)
      /\ UNCHANGED <<phase, prefix, chain, matches>> /\ Symbols' = Symbols
  BY DEF next_table, Symbols
<1>2. PICK n \in Nat, l \in Nat \ {0} : n = Len(chain) /\ l = Len(left) /\ l <= n
  BY <1>1, LenProperties, EmptySeq DEF Walk
<1>3. /\ left' \in Seq(SUBSET Sym) /\ Len(left') = l - 1
      /\ \A t \in 1 .. l - 1 : left'[t] = left[t + 1]
      /\ left[1] = {}
  <2>1. left \in Seq(SUBSET Sym)
    BY DEF Walk
  <2> QED BY <2>1, <1>1, <1>2, HeadTailProperties
<1>4. Walk'
  <2>1. ASSUME NEW t \in 1 .. l - 1 PROVE left'[t] \subseteq chain[n - (l - 1) + t]
    <3>1. t + 1 \in 1 .. l /\ n - (l - 1) + t = n - l + (t + 1)
      BY <1>2
    <3>2. left[t + 1] \subseteq chain[n - l + (t + 1)]
      BY <3>1, <1>2 DEF Walk
    <3> QED BY <3>1, <3>2, <1>3
  <2>2. l - 1 <= n
    BY <1>2
  <2> QED BY <1>1, <1>2, <1>3, <2>1, <2>2 DEF Walk
<1>5. ASSUME NEW o PROVE o \in Offered' <=> o \in Offered
  <2>1. o \in Offered' <=> /\ o \in (1 .. n) \X Symbols /\ o[2] \in chain[o[1]]
                           /\ IsPrefix(prefix, o[2])
                           /\ o[1] > n - (l - 1) => o[2] \notin left'[o[1] - (n - (l - 1))]
    BY <1>1, <1>2, <1>3 DEF Offered
  <2>2. o \in Offered <=> /\ o \in (1 .. n) \X Symbols /\ o[2] \in chain[o[1]]
                          /\ IsPrefix(prefix, o[2])
                          /\ o[1] > n - l => o[2] \notin left[o[1] - (n - l)]
    BY <1>2, OfferedIs
  <2>3. ASSUME o \in (1 .. n) \X Symbols
        PROVE  (o[1] > n - (l - 1) => o[2] \notin left'[o[1] - (n - (l - 1))]) <=> (o[1] > n - l => o[2] \notin left[o[1] - (n - l)])
    <3>1. o[1] \in 1 .. n
      BY <2>3
    <3>2. CASE o[1] = n - l + 1
      <4>1. o[1] - (n - l) = 1 /\ ~(o[1] > n - (l - 1))
        BY <1>2, <3>2
      <4> QED BY <4>1, <1>3
    <3>3. CASE o[1] > n - l + 1
      <4>1. /\ o[1] - (n - (l - 1)) \in 1 .. l - 1 /\ o[1] > n - (l - 1) /\ o[1] > n - l
            /\ o[1] - (n - (l - 1)) + 1 = o[1] - (n - l)
        BY <1>2, <3>1, <3>3
      <4> QED BY <4>1, <1>3
    <3>4. CASE o[1] <= n - l
      BY <1>2, <3>1, <3>4
    <3> QED BY <1>2, <3>1, <3>2, <3>3, <3>4
  <2> QED BY <2>1, <2>2, <2>3
<1>6. Offered' = Offered
  BY <1>5
<1>7. phase' = "collect" => Ranked(matches', Offered', Symbols')
  BY <1>1, <1>6 DEF First
<1> QED BY <1>4, <1>7 DEF First, Ranked, Smaller, UpTo

-----------------------------------------------------------------------------
(* A prefix, byte by byte. *)
LEMMA PrefixIs ==
  ASSUME NEW a \in Sym, NEW b \in Sym
  PROVE  IsPrefix(a, b) <=> Len(a) <= Len(b) /\ \A k \in 1 .. Len(a) : a[k] = b[k]
<1>1. Len(a) \in Nat /\ Len(b) \in Nat
  BY LenProperties DEF Sym
<1>2. CASE Len(a) <= Len(b)
  BY <1>1, <1>2, SameFirst DEF IsPrefix
<1>3. CASE ~(Len(a) <= Len(b))
  BY <1>3 DEF IsPrefix
<1> QED BY <1>2, <1>3

(* a and b agree in the first l bytes. *)
Agreeing(a, b, l) == l <= Len(a) /\ l <= Len(b) /\ \A k \in 1 .. l : a[k] = b[k]

(* The loop over two matches finds how far they agree. *)
LEMMA AgreeIs ==
  ASSUME NEW a \in Sym, NEW b \in Sym
  PROVE  Agree(a, b) \in Nat /\ \A l \in Nat : Agreeing(a, b, l) <=> l <= Agree(a, b)
<1> DEFINE T == {n \in Nat \ {0} : n > Len(a) \/ n > Len(b) \/ a[n] # b[n]}
           Is(n) == /\ n <= Len(b) /\ SubSeq(a, 1, n) = SubSeq(b, 1, n)
                    /\ n < Len(a) /\ n < Len(b) => a[n + 1] # b[n + 1]
<1>1. Len(a) \in Nat /\ Len(b) \in Nat
  BY LenProperties DEF Sym
<1>2. Len(a) + 1 \in T
  BY <1>1
<1>3. PICK n \in T : \A m \in T : n <= m
  <2>1. T \subseteq Nat /\ T # {}
    BY <1>2
  <2> HIDE DEF T
  <2> QED BY <2>1, Least
<1>4. \A k \in 1 .. n - 1 : k <= Len(a) /\ k <= Len(b) /\ a[k] = b[k]
  <2> TAKE k \in 1 .. n - 1
  <2>1. k \in Nat \ {0} /\ ~(n <= k)
    BY <1>3
  <2>2. k \notin T
    BY <1>3, <2>1
  <2> QED BY <2>1, <2>2, <1>1
<1>5. n - 1 \in 0 .. Len(a) /\ n - 1 <= Len(b) /\ n \in Nat \ {0}
  <2>1. n = 1 \/ n - 1 \in 1 .. n - 1
    BY <1>3
  <2> QED BY <1>1, <1>3, <1>4, <2>1
<1>6. Is(n - 1)
  <2>1. SubSeq(a, 1, n - 1) = SubSeq(b, 1, n - 1)
    BY <1>1, <1>4, <1>5, SameFirst
  <2>2. n - 1 < Len(a) /\ n - 1 < Len(b) => a[(n - 1) + 1] # b[(n - 1) + 1]
    BY <1>1, <1>3, <1>5
  <2> QED BY <1>5, <2>1, <2>2
<1>7. PICK g \in 0 .. Len(a) : g = Agree(a, b) /\ Is(g)
  <2>1. \E m \in 0 .. Len(a) : Is(m)
    BY <1>5, <1>6
  <2> QED BY <2>1 DEF Agree
<1>8. \A k \in 1 .. g : a[k] = b[k]
  BY <1>1, <1>7, SameFirst
<1>9. ASSUME NEW l \in Nat, Agreeing(a, b, l) PROVE l <= g
  <2> SUFFICES ASSUME g < l PROVE FALSE
    BY <1>1
  <2>1. g + 1 \in 1 .. l /\ g < Len(a) /\ g < Len(b)
    BY <1>1, <1>9 DEF Agreeing
  <2> QED BY <2>1, <1>7, <1>9 DEF Agreeing
<1>10. ASSUME NEW l \in Nat, l <= g PROVE Agreeing(a, b, l)
  BY <1>1, <1>7, <1>8, <1>10 DEF Agreeing
<1> QED BY <1>7, <1>9, <1>10

(* The first l bytes of the first of the matches are those of all of the   *)
(* first i.                                                                *)
Shared(m, i, l) == l <= Len(m[1]) /\ \A j \in 1 .. i : Agreeing(m[1], m[j], l)

(* What the first i matches share is bounded by the longest they share. *)
LEMMA SharedLongest ==
  ASSUME NEW m \in Seq(Sym), m # <<>>, NEW i \in 0 .. Len(m)
  PROVE  \E c \in Nat : \A l \in Nat : Shared(m, i, l) <=> l <= c
<1>1. Len(m) \in Nat \ {0} /\ m[1] \in Sym /\ \A j \in 1 .. i : m[j] \in Sym
  BY LenProperties, EmptySeq
<1>2. Len(m[1]) \in Nat /\ \A j \in 1 .. i : Len(m[j]) \in Nat
  BY <1>1, LenProperties DEF Sym
<1> DEFINE T == {n \in Nat : ~Shared(m, i, n)}
<1>3. Len(m[1]) + 1 \in T /\ T \subseteq Nat
  BY <1>2 DEF Shared
<1>4. PICK n \in T : \A x \in T : n <= x
  <2> HIDE DEF T
  <2> QED BY <1>3, Least
<1>5. Shared(m, i, 0)
  BY <1>2 DEF Shared, Agreeing
<1>6. n \in Nat /\ n # 0 /\ n - 1 \in Nat
  BY <1>4, <1>5
<1>7. ASSUME NEW l \in Nat PROVE Shared(m, i, l) <=> l <= n - 1
  <2>1. CASE l <= n - 1
    <3>1. ~(n <= l)
      BY <1>6, <2>1
    <3> QED BY <2>1, <3>1, <1>4
  <2>2. CASE l >= n
    <3>1. ASSUME Shared(m, i, l) PROVE Shared(m, i, n)
      <4>1. n <= Len(m[1])
        BY <1>2, <1>6, <2>2, <3>1 DEF Shared
      <4>2. \A j \in 1 .. i : Agreeing(m[1], m[j], n)
        <5> TAKE j \in 1 .. i
        <5>1. Agreeing(m[1], m[j], l)
          BY <3>1 DEF Shared
        <5> QED BY <5>1, <1>2, <1>6, <2>2 DEF Agreeing
      <4> QED BY <4>1, <4>2 DEF Shared
    <3> QED BY <1>4, <1>6, <2>2, <3>1
  <2> QED BY <1>6, <2>1, <2>2
<1> QED BY <1>6, <1>7

(* longest_common_prefix() gives the beginning of the first match that all *)
(* share, as long as it can be.                                            *)
LEMMA LcpIs ==
  ASSUME matches \in Seq(Sym), matches # <<>>
  PROVE  \E c \in Nat :
           /\ \A l \in Nat : Shared(matches, Len(matches), l) <=> l <= c
           /\ c <= Len(matches[1]) /\ longest_common_prefix = SubSeq(matches[1], 1, c)
<1> DEFINE m == matches
           C(i) == CHOOSE c \in Nat : \A l \in Nat : Shared(m, i, l) <=> l <= c
<1>1. PICK n \in Nat \ {0} : n = Len(m)
  BY LenProperties, EmptySeq
<1>2. /\ \A i \in 1 .. n : m[i] \in Sym /\ Len(m[i]) \in Nat
      /\ 1 \in 1 .. n
  BY <1>1, LenProperties DEF Sym
<1>3. \A i \in 0 .. n : C(i) \in Nat /\ \A l \in Nat : Shared(m, i, l) <=> l <= C(i)
  BY <1>1, SharedLongest
<1>4. \A i \in 0 .. n : C(i) <= Len(m[1])
  <2> TAKE i \in 0 .. n
  <2>1. Shared(m, i, C(i))
    BY <1>3
  <2> QED BY <2>1 DEF Shared
<1> HIDE DEF C
<1>5. ASSUME NEW i \in 1 .. n
      PROVE  SubSeq(SubSeq(m[1], 1, C(i - 1)), 1, Agree(SubSeq(m[1], 1, C(i - 1)), m[i]))
               = SubSeq(m[1], 1, C(i))
  <2>1. i - 1 \in 0 .. n /\ i \in 0 .. n /\ \A j : j \in 1 .. i <=> j \in 1 .. i - 1 \/ j = i
    BY <1>1
  <2>2. PICK a \in Sym : a = m[1]
    BY <1>2
  <2>3. PICK x \in Nat, y \in Nat : x = C(i - 1) /\ y = C(i) /\ x <= Len(a) /\ y <= Len(a)
    BY <1>3, <1>4, <2>1, <2>2
  <2>4. PICK g \in Sym : g = SubSeq(a, 1, x) /\ Len(g) = x /\ \A k \in 1 .. x : g[k] = a[k]
    BY <2>3, FirstBytes
  <2>5. PICK z \in Nat : z = Agree(g, m[i]) /\ \A l \in Nat : Agreeing(g, m[i], l) <=> l <= z
    BY <1>2, AgreeIs
  <2>6. \A l \in Nat : l <= y <=> l <= x /\ Agreeing(a, m[i], l)
    <3> TAKE l \in Nat
    <3>1. (l <= y <=> Shared(m, i, l)) /\ (l <= x <=> Shared(m, i - 1, l))
      BY <1>3, <2>1, <2>3
    <3>2. Shared(m, i, l) <=> Shared(m, i - 1, l) /\ Agreeing(a, m[i], l)
      BY <2>1, <2>2 DEF Shared
    <3> QED BY <3>1, <3>2
  <2>7. \A l \in Nat : l <= x => (Agreeing(a, m[i], l) <=> Agreeing(g, m[i], l))
    <3> SUFFICES ASSUME NEW l \in Nat, l <= x PROVE Agreeing(a, m[i], l) <=> Agreeing(g, m[i], l)
      OBVIOUS
    <3>1. \A k \in 1 .. l : g[k] = a[k]
      BY <2>4
    <3>2. l <= Len(a) /\ l <= Len(g)
      <4>1. Len(a) \in Nat
        BY LenProperties DEF Sym
      <4> QED BY <4>1, <2>3, <2>4
    <3> QED BY <3>1, <3>2 DEF Agreeing
  <2>8. \A l \in Nat : l <= z => l <= x
    <3> SUFFICES ASSUME NEW l \in Nat, l <= z PROVE l <= x
      OBVIOUS
    <3>1. Agreeing(g, m[i], l)
      BY <2>5
    <3> QED BY <3>1, <2>4 DEF Agreeing
  <2>9. \A l \in Nat : l <= y <=> l <= z
    BY <2>5, <2>6, <2>7, <2>8
  <2>10. y = z
    BY <2>9
  <2>11. z <= x
    BY <2>8
  <2>12. /\ SubSeq(g, 1, z) \in Sym /\ Len(SubSeq(g, 1, z)) = z /\ \A k \in 1 .. z : SubSeq(g, 1, z)[k] = g[k]
         /\ SubSeq(a, 1, y) \in Sym /\ Len(SubSeq(a, 1, y)) = y /\ \A k \in 1 .. y : SubSeq(a, 1, y)[k] = a[k]
    BY <2>3, <2>4, <2>11, FirstBytes
  <2>13. \A k \in 1 .. z : g[k] = a[k]
    BY <2>4, <2>11
  <2>14. SubSeq(g, 1, z) = SubSeq(a, 1, y)
    BY <2>10, <2>12, <2>13, EqualSyms
  <2> QED BY <2>2, <2>3, <2>4, <2>5, <2>14
<1>6. SubSeq(m[1], 1, C(0)) = m[1]
  <2>1. Shared(m, 0, Len(m[1]))
    BY <1>2 DEF Shared
  <2>2. PICK y \in Nat : y = C(0) /\ y <= Len(m[1]) /\ Len(m[1]) <= y
    BY <1>2, <1>3, <1>4, <2>1
  <2>3. y = Len(m[1]) /\ m[1] \in Sym
    BY <2>2, <1>2
  <2>4. /\ SubSeq(m[1], 1, y) \in Sym /\ Len(SubSeq(m[1], 1, y)) = y
        /\ \A k \in 1 .. y : SubSeq(m[1], 1, y)[k] = m[1][k]
    BY <2>2, <2>3, FirstBytes
  <2> QED BY <2>2, <2>3, <2>4, EqualSyms
<1> DEFINE N(f, i) == IF i = 0 THEN m[1] ELSE SubSeq(f[i - 1], 1, Agree(f[i - 1], m[i]))
           g == [i \in 0 .. n |-> SubSeq(m[1], 1, C(i))]
           bv == CHOOSE f : f = [i \in 0 .. n |-> N(f, i)]
<1>7. longest_common_prefix = bv[n]
  BY <1>1 DEF longest_common_prefix
<1>8. ASSUME NEW f, NEW i \in 1 .. n, f[i - 1] = SubSeq(m[1], 1, C(i - 1))
      PROVE  N(f, i) = SubSeq(m[1], 1, C(i))
  <2>1. i # 0
    OBVIOUS
  <2>2. N(f, i) = SubSeq(f[i - 1], 1, Agree(f[i - 1], m[i]))
    BY <2>1
  <2>3. SubSeq(f[i - 1], 1, Agree(f[i - 1], m[i]))
          = SubSeq(SubSeq(m[1], 1, C(i - 1)), 1, Agree(SubSeq(m[1], 1, C(i - 1)), m[i]))
    BY <1>8
  <2> QED BY <2>2, <2>3, <1>5
<1>9. N(g, 0) = SubSeq(m[1], 1, C(0)) /\ N(bv, 0) = SubSeq(m[1], 1, C(0))
  BY <1>6
<1>10. g = [i \in 0 .. n |-> N(g, i)]
  <2>1. ASSUME NEW i \in 0 .. n PROVE g[i] = N(g, i)
    <3>1. CASE i = 0
      <4>1. g[i] = SubSeq(m[1], 1, C(0))
        BY <3>1
      <4> HIDE DEF N, g
      <4> QED BY <3>1, <4>1, <1>9
    <3>2. CASE i \in 1 .. n
      <4>1. i - 1 \in 0 .. n
        BY <3>2
      <4>2. g[i - 1] = SubSeq(m[1], 1, C(i - 1)) /\ g[i] = SubSeq(m[1], 1, C(i))
        BY <4>1
      <4> HIDE DEF g, N
      <4> QED BY <1>8, <3>2, <4>2
    <3>3. i = 0 \/ i \in 1 .. n
      OBVIOUS
    <3> HIDE DEF g, N
    <3> QED BY <3>1, <3>2, <3>3
  <2> HIDE DEF N
  <2> QED BY <2>1
<1>11. bv = [i \in 0 .. n |-> N(bv, i)]
  <2> HIDE DEF g, N
  <2> QED BY <1>10
<1> HIDE DEF bv, g, N
<1> DEFINE P == {i \in Nat : i <= n => bv[i] = SubSeq(m[1], 1, C(i))}
<1>12. 0 \in P
  BY <1>9, <1>11
<1>13. ASSUME NEW i \in Nat, i \in P PROVE i + 1 \in P
  <2> SUFFICES ASSUME i + 1 <= n PROVE bv[i + 1] = SubSeq(m[1], 1, C(i + 1))
    OBVIOUS
  <2>1. i + 1 \in 1 .. n /\ (i + 1) - 1 = i /\ i <= n /\ i + 1 \in 0 .. n
    BY <1>1
  <2>2. bv[i] = SubSeq(m[1], 1, C(i))
    BY <1>13, <2>1
  <2> HIDE DEF P
  <2>3. N(bv, i + 1) = SubSeq(m[1], 1, C(i + 1))
    BY <1>8, <2>1, <2>2
  <2> QED BY <1>11, <2>1, <2>3
<1>14. Nat \subseteq P
  <2> HIDE DEF P
  <2> QED BY <1>12, <1>13, NatInd
<1>15. bv[n] = SubSeq(m[1], 1, C(n))
  BY <1>14
<1>16. n \in 0 .. n
  OBVIOUS
<1> HIDE DEF P
<1> QED BY <1>1, <1>3, <1>4, <1>7, <1>15, <1>16

-----------------------------------------------------------------------------
(* The array holds symbols. *)
LEMMA MatchesAreSymbols == ASSUME Walk, Ranked(matches, Offered, Symbols) PROVE matches \in Seq(Sym)
<1>1. matches \in Seq(Symbols) /\ Symbols \subseteq Sym
  BY SymbolsAre DEF Ranked
<1>2. Len(matches) \in Nat /\ \A i \in 1 .. Len(matches) : matches[i] \in Sym
  BY <1>1, LenProperties
<1>3. matches = [i \in 1 .. Len(matches) |-> matches[i]]
  BY <1>1
<1> QED BY <1>2, <1>3

(* What all matches share is a symbol, if an empty one. *)
LEMMA LcpIsSymbol ==
  ASSUME matches \in Seq(Sym) PROVE longest_common_prefix \in Sym
<1>1. CASE matches = <<>>
  BY <1>1 DEF longest_common_prefix, Sym
<1>2. CASE matches # <<>>
  <2>1. PICK c \in Nat : c <= Len(matches[1]) /\ longest_common_prefix = SubSeq(matches[1], 1, c)
    BY <1>2, LcpIs
  <2>2. matches[1] \in Sym
    BY <1>2, EmptySeq, LenProperties
  <2> QED BY <2>1, <2>2, FirstBytes
<1> QED BY <1>1, <1>2

LEMMA InitWalks == ASSUME Init PROVE Walk /\ First
<1>1. UNION {<< >>[t] : t \in 1 .. Len(<< >>)} = {}
  <2>1. 1 .. Len(<< >>) = {}
    OBVIOUS
  <2> QED BY <2>1
<1>2. Symbols = {}
  BY <1>1 DEF Init, Symbols
<1>3. IsFiniteSet(Symbols)
  BY <1>2, FS_EmptySet
<1>4. prefix \in Sym /\ chain \in Seq(SUBSET Sym) /\ left \in Seq(SUBSET Sym) /\ Len(left) = 0 /\ Len(chain) = 0
  BY DEF Init, Sym
<1> QED BY <1>3, <1>4 DEF Init, Walk, First

LEMMA CompleteWalks == ASSUME Walk, First, complete PROVE Walk' /\ First'
<1>1. matches \in Seq(Sym)
  BY MatchesAreSymbols DEF First, complete
<1>2. PICK x \in Sym : x = longest_common_prefix
  BY <1>1, LcpIsSymbol
<1>3. prefix' = IF Len(x) > Len(prefix) THEN x ELSE prefix
  BY <1>2 DEF complete
<1>4. phase' = "keys" /\ UNCHANGED <<chain, left>> /\ Symbols' = Symbols
  BY DEF complete, Symbols
<1>5. prefix' \in Sym
  BY <1>3 DEF Walk
<1> QED BY <1>4, <1>5 DEF Walk, First

(* Every call keeps it. *)
THEOREM WalkInvariant == Spec => [](Walk /\ First)
<1>1. Init => Walk /\ First
  BY InitWalks
<1>2. ASSUME Walk, First, [Next]_vars PROVE Walk' /\ First'
  <2>1. ASSUME NEW p \in Typed, move_to(p) PROVE Walk' /\ First'
    <3>1. p \in Sym /\ Symbols' = Symbols
      BY <2>1, CompletionAssumption DEF Sym, move_to, Symbols
    <3> QED BY <1>2, <2>1, <3>1 DEF move_to, Walk, First
  <2>2. CASE kshowcomp
    BY <1>2, <2>2, TabWalks
  <2>3. CASE check_match
    BY <1>2, <2>3, MatchWalks
  <2>4. CASE next_table
    BY <1>2, <2>4, TableWalks
  <2>5. CASE complete
    BY <1>2, <2>5, CompleteWalks
  <2>6. CASE ctrl_l \/ line_returns \/ line_fails \/ line_start \/ ctrl_z \/ continued \/ others_write
    <3>1. UNCHANGED <<chain, left>> /\ prefix' \in {prefix, <<>>} /\ phase' \in {"keys", "stopped", "away"}
      <4>1. UNCHANGED walking
        BY <2>6 DEF ctrl_l, line_returns, line_fails, line_start, ctrl_z, continued, others_write
      <4>2. prefix' \in {prefix, <<>>}
        BY <2>6 DEF ctrl_l, line_returns, line_fails, line_start, ctrl_z, continued, others_write
      <4>3. phase' \in {"keys", "stopped", "away"}
        BY <2>6 DEF ctrl_l, line_returns, line_fails, line_start, ctrl_z, continued, others_write
      <4> QED BY <4>1, <4>2, <4>3 DEF walking
    <3>2. prefix' \in Sym /\ Symbols' = Symbols
      <4>1. <<>> \in Sym /\ prefix \in Sym
        BY <1>2 DEF Sym, Walk
      <4>2. Symbols' = Symbols
        BY <3>1 DEF Symbols
      <4> QED BY <3>1, <4>1, <4>2
    <3> QED BY <1>2, <3>1, <3>2 DEF Walk, First
  <2>7. CASE UNCHANGED vars
    <3>1. UNCHANGED <<phase, prefix, chain, left, matches>>
      BY <2>7 DEF vars
    <3>2. Symbols' = Symbols /\ Offered' = Offered
      BY <3>1 DEF Symbols, Offered
    <3> QED BY <1>2, <3>1, <3>2 DEF Walk, First, Ranked, Smaller, UpTo
  <2> QED BY <1>2, <2>1, <2>2, <2>3, <2>4, <2>5, <2>6, <2>7 DEF Next
<1> QED BY <1>1, <1>2, PTL DEF Spec

(* Of the matches offered, those equal to s lie between those before it    *)
(* and those up to it.                                                     *)
LEMMA EqualCounts ==
  ASSUME NEW O, Offers(O), NEW s \in Sym
  PROVE  /\ Cardinality({o \in O : o[2] = s}) \in Nat
         /\ UpTo(O, s) = Smaller(O, s) + Cardinality({o \in O : o[2] = s})
<1> DEFINE ss == {o \in O : Less(o[2], s)}
           es == {o \in O : o[2] = s}
           us == {o \in O : ~Less(s, o[2])}
<1>1. IsFiniteSet(ss) /\ IsFiniteSet(es)
  BY FS_Subset DEF Offers
<1>2. ASSUME NEW o \in O PROVE ~Less(s, o[2]) <=> Less(o[2], s) \/ o[2] = s
  <2>1. o[2] \in Sym
    BY DEF Offers
  <2> QED BY <2>1, LessTotal, LessTransitive, LessIrreflexive
<1>3. us = ss \cup es
  BY <1>2
<1>4. ss \cap es = {}
  BY LessIrreflexive
<1> HIDE DEF ss, es, us
<1>5. Cardinality(ss \cup es) = Cardinality(ss) + Cardinality(es) - Cardinality(ss \cap es)
  BY <1>1, FS_Union
<1>6. Cardinality(ss) \in Nat /\ Cardinality(es) \in Nat /\ Cardinality(ss \cap es) = 0
  BY <1>1, <1>4, FS_CardinalityType, FS_EmptySet
<1>7. Cardinality(us) = Cardinality(ss) + Cardinality(es)
  BY <1>3, <1>5, <1>6
<1> QED BY <1>6, <1>7 DEF Smaller, UpTo, ss, es, us

(* Where s is in the array: behind what is before it. *)
LEMMA PlacesOf ==
  ASSUME NEW S, S \subseteq Sym, NEW O, Offers(O), NEW m, Ranked(m, O, S), NEW s \in S
  PROVE  \A i \in 1 .. Len(m) : m[i] = s <=> i > Smaller(O, s) /\ i <= UpTo(O, s)
<1> TAKE i \in 1 .. Len(m)
<1>1. m[i] \in Sym /\ s \in Sym
  BY DEF Ranked
<1>2. m[i] = s <=> ~Less(m[i], s) /\ ~Less(s, m[i])
  BY <1>1, LessTotal, LessIrreflexive
<1>3. (Less(m[i], s) <=> i <= Smaller(O, s)) /\ (~Less(s, m[i]) <=> i <= UpTo(O, s))
  BY DEF Ranked
<1>4. i \in Nat /\ Smaller(O, s) \in Nat
  BY <1>1, Counts
<1> QED BY <1>2, <1>3, <1>4

(* How often s is in the array. *)
LEMMA RankedKeeps ==
  ASSUME NEW S, S \subseteq Sym, NEW O, Offers(O), NEW m, Ranked(m, O, S), NEW s \in S
  PROVE  Cardinality({i \in 1 .. Len(m) : m[i] = s}) =
           IF Smaller(O, s) >= MatchMax THEN 0
           ELSE IF Smaller(O, s) + Cardinality({o \in O : o[2] = s}) > MatchMax
                THEN MatchMax - Smaller(O, s) ELSE Cardinality({o \in O : o[2] = s})
<1>1. PICK sm \in Nat, e \in Nat, k \in Nat, mx \in Nat, n \in Nat :
        /\ sm = Smaller(O, s) /\ e = Cardinality({o \in O : o[2] = s}) /\ k = Cardinality(O)
        /\ mx = MatchMax /\ n = Len(m)
        /\ UpTo(O, s) = sm + e /\ sm + e <= k /\ n = IF k < mx THEN k ELSE mx
  <2>1. s \in Sym
    OBVIOUS
  <2>2. MatchMax \in Nat /\ Len(m) = IF Cardinality(O) < MatchMax THEN Cardinality(O) ELSE MatchMax
    BY CompletionAssumption DEF Ranked
  <2>3. /\ Smaller(O, s) \in Nat /\ Cardinality(O) \in Nat /\ UpTo(O, s) <= Cardinality(O)
        /\ Cardinality({o \in O : o[2] = s}) \in Nat
        /\ UpTo(O, s) = Smaller(O, s) + Cardinality({o \in O : o[2] = s})
    BY <2>1, Counts, EqualCounts
  <2>4. Len(m) \in Nat
    BY LenProperties DEF Ranked
  <2>5. PICK sm \in Nat, e \in Nat, k \in Nat, mx \in Nat, n \in Nat :
        /\ sm = Smaller(O, s) /\ e = Cardinality({o \in O : o[2] = s}) /\ k = Cardinality(O)
        /\ mx = MatchMax /\ n = Len(m)
    BY <2>2, <2>3, <2>4
  <2>6. UpTo(O, s) = sm + e /\ sm + e <= k /\ n = IF k < mx THEN k ELSE mx
    BY <2>2, <2>3, <2>5
  <2> QED BY <2>5, <2>6
<1>2. \A i \in 1 .. n : m[i] = s <=> i > sm /\ i <= sm + e
  <2>1. \A i \in 1 .. Len(m) : m[i] = s <=> i > Smaller(O, s) /\ i <= UpTo(O, s)
    BY PlacesOf
  <2> QED BY <2>1, <1>1
<1>3. {i \in 1 .. Len(m) : m[i] = s} = (sm + 1) .. (IF n < sm + e THEN n ELSE sm + e)
  <2>1. \A i : i \in 1 .. n /\ i > sm /\ i <= sm + e <=> i \in (sm + 1) .. (IF n < sm + e THEN n ELSE sm + e)
    OBVIOUS
  <2> QED BY <1>1, <1>2, <2>1
<1>4. PICK b \in Nat : b = IF n < sm + e THEN n ELSE sm + e
  OBVIOUS
<1>5. Cardinality((sm + 1) .. b) = IF sm + 1 > b THEN 0 ELSE b - (sm + 1) + 1
  BY FS_Interval
<1>6. (IF sm + 1 > b THEN 0 ELSE b - (sm + 1) + 1) = IF sm >= mx THEN 0 ELSE IF sm + e > mx THEN mx - sm ELSE e
  BY <1>1, <1>4
<1> QED BY <1>1, <1>3, <1>4, <1>5, <1>6

(* At every moment of the walk the array holds the smallest of the matches *)
(* offered so far, in order, each as often as it was offered.              *)
THEOREM KeepsTheSmallest == Spec => []KeepsSmallest
<1>1. ASSUME Walk, First PROVE KeepsSmallest
  <2> SUFFICES ASSUME phase = "collect" PROVE KeepsSmallest
    BY DEF KeepsSmallest
  <2>1. Symbols \subseteq Sym /\ Offers(Offered) /\ Ranked(matches, Offered, Symbols)
    BY <1>1, SymbolsAre, OffersAre DEF First
  <2>2. \A i, j \in 1 .. Len(matches) : i < j => ~Less(matches[j], matches[i])
    BY <2>1, RankedSorted
  <2>3. \A s \in Symbols :
          Cardinality({i \in 1 .. Len(matches) : matches[i] = s}) =
            IF Smaller(Offered, s) >= MatchMax THEN 0
            ELSE IF Smaller(Offered, s) + Cardinality({o \in Offered : o[2] = s}) > MatchMax
                 THEN MatchMax - Smaller(Offered, s) ELSE Cardinality({o \in Offered : o[2] = s})
    BY <2>1, RankedKeeps
  <2> QED BY <2>2, <2>3 DEF KeepsSmallest, Smaller
<1> QED BY <1>1, WalkInvariant, PTL

-----------------------------------------------------------------------------
(* longest_common_prefix() is the longest common prefix of the matches. *)
LEMMA LcpIsCommon ==
  ASSUME matches \in Seq(Sym), matches # <<>>,
         NEW M, M = {matches[i] : i \in 1 .. Len(matches)}
  PROVE  longest_common_prefix = LongestCommonPrefix(M)
<1>1. PICK c \in Nat :
        /\ \A l \in Nat : Shared(matches, Len(matches), l) <=> l <= c
        /\ c <= Len(matches[1]) /\ longest_common_prefix = SubSeq(matches[1], 1, c)
  BY LcpIs
<1>2. PICK n \in Nat \ {0} : n = Len(matches)
  BY LenProperties, EmptySeq
<1>3. \A i \in 1 .. n : matches[i] \in Sym /\ Len(matches[i]) \in Nat
  BY <1>2, LenProperties DEF Sym
<1>4. PICK a \in Sym : a = matches[1]
  BY <1>3
<1>5. PICK x \in Sym : x = SubSeq(a, 1, c) /\ Len(x) = c /\ \A k \in 1 .. c : x[k] = a[k]
  BY <1>1, <1>4, FirstBytes
<1>6. \A t \in M : \E i \in 1 .. n : t = matches[i] /\ t \in Sym
  BY <1>2, <1>3
<1>7. a \in M
  BY <1>2, <1>4
<1>8. Len(a) \in Nat
  BY LenProperties DEF Sym
<1>9. x \in CommonPrefixes(M)
  <2>1. x \in Prefixes(a)
    BY <1>1, <1>4, <1>5, <1>8 DEF Prefixes
  <2>2. ASSUME NEW t \in M PROVE IsPrefix(x, t)
    <3>1. PICK i \in 1 .. n : t = matches[i] /\ t \in Sym
      BY <1>6
    <3>2. Agreeing(a, t, c)
      BY <1>1, <1>2, <1>4, <3>1 DEF Shared
    <3>3. c <= Len(t) /\ \A k \in 1 .. c : x[k] = t[k]
      BY <1>5, <3>2 DEF Agreeing
    <3>4. Len(x) <= Len(t) /\ \A k \in 1 .. Len(x) : x[k] = t[k]
      BY <1>5, <3>3
    <3> QED BY <3>1, <3>4, PrefixIs
  <2> QED BY <1>7, <2>1, <2>2 DEF CommonPrefixes
<1>10. ASSUME NEW y \in CommonPrefixes(M)
       PROVE  y \in Sym /\ Len(y) \in Nat /\ Len(y) <= c /\ \A k \in 1 .. Len(y) : y[k] = a[k]
  <2>1. PICK t \in M : y \in Prefixes(t)
    BY DEF CommonPrefixes
  <2>2. t \in Sym /\ Len(t) \in Nat
    BY <1>6, LenProperties DEF Sym
  <2>3. PICK l \in 0 .. Len(t) : y = SubSeq(t, 1, l)
    BY <2>1, <2>2 DEF Prefixes
  <2>4. y \in Sym /\ Len(y) \in Nat
    BY <2>2, <2>3, FirstBytes
  <2>5. \A u \in M : IsPrefix(y, u)
    BY DEF CommonPrefixes
  <2>6. \A u \in M : Len(y) <= Len(u) /\ \A k \in 1 .. Len(y) : y[k] = u[k]
    BY <1>6, <2>4, <2>5, PrefixIs
  <2>7. Len(y) <= Len(a) /\ \A k \in 1 .. Len(y) : y[k] = a[k]
    BY <1>7, <2>6
  <2>8. ASSUME NEW j \in 1 .. n PROVE Agreeing(a, matches[j], Len(y))
    <3>1. matches[j] \in M
      BY <1>2
    <3>2. Len(y) <= Len(matches[j]) /\ \A k \in 1 .. Len(y) : y[k] = matches[j][k]
      BY <2>6, <3>1
    <3> QED BY <2>7, <3>2 DEF Agreeing
  <2>9. Shared(matches, n, Len(y))
    BY <1>4, <2>7, <2>8 DEF Shared
  <2> QED BY <1>1, <1>2, <2>4, <2>7, <2>9
<1>11. ASSUME NEW y \in CommonPrefixes(M), \A other \in CommonPrefixes(M) : Len(other) <= Len(y)
       PROVE  y = x
  <2>1. Len(x) <= Len(y)
    BY <1>9, <1>11
  <2>2. y \in Sym /\ Len(y) \in Nat /\ Len(y) <= c /\ \A k \in 1 .. Len(y) : y[k] = a[k]
    BY <1>10
  <2>3. Len(y) = c
    BY <1>5, <2>1, <2>2
  <2> QED BY <1>5, <2>2, <2>3, EqualSyms
<1>12. \A other \in CommonPrefixes(M) : Len(other) <= Len(x)
  BY <1>5, <1>10
<1> HIDE DEF CommonPrefixes
<1>13. x = CHOOSE longest \in CommonPrefixes(M) : \A other \in CommonPrefixes(M) : Len(other) <= Len(longest)
  BY <1>9, <1>11, <1>12
<1> QED BY <1>1, <1>4, <1>5, <1>13 DEF LongestCommonPrefix

(* Where there is room for all, the array holds every match. *)
LEMMA HoldsAll ==
  ASSUME Walk, phase = "collect", left = <<>>, Ranked(matches, Offered, Symbols),
         Cardinality(Offered) \in 1 .. MatchMax
  PROVE  matches # <<>> /\ Matching = {matches[i] : i \in 1 .. Len(matches)}
<1>1. Symbols \subseteq Sym /\ Offers(Offered)
  BY SymbolsAre, OffersAre
<1>2. PICK n \in Nat \ {0} : n = Cardinality(Offered) /\ n = Len(matches)
  BY CompletionAssumption DEF Ranked
<1>3. PICK d \in Nat : d = Len(chain)
  BY LenProperties DEF Walk
<1>4. Len(left) = 0
  OBVIOUS
<1>5. ASSUME NEW o PROVE o \in Offered <=> /\ o \in (1 .. d) \X Symbols /\ o[2] \in chain[o[1]]
                                           /\ IsPrefix(prefix, o[2])
  <2>1. d - Len(left) = d
    BY <1>4
  <2>2. ASSUME o \in (1 .. d) \X Symbols PROVE ~(o[1] > d)
    BY <2>2
  <2> QED BY <1>3, <2>1, <2>2, OfferedIs
<1>6. ASSUME NEW s \in Symbols PROVE s \in Matching <=> \E o \in Offered : o[2] = s
  <2>1. PICK t \in 1 .. d : s \in chain[t]
    BY <1>3 DEF Symbols
  <2>2. <<t, s>> \in (1 .. d) \X Symbols /\ <<t, s>>[1] = t /\ <<t, s>>[2] = s
    OBVIOUS
  <2>3. ASSUME s \in Matching PROVE <<t, s>> \in Offered
    BY <2>1, <2>2, <2>3, <1>5 DEF Matching
  <2>4. ASSUME NEW o \in Offered, o[2] = s PROVE s \in Matching
    BY <2>4, <1>5 DEF Matching
  <2> QED BY <2>2, <2>3, <2>4
<1>7. ASSUME NEW s \in Symbols
      PROVE  /\ Smaller(Offered, s) \in Nat /\ UpTo(Offered, s) \in Nat /\ UpTo(Offered, s) <= n
             /\ Smaller(Offered, s) < UpTo(Offered, s) <=> s \in Matching
  <2>1. s \in Sym
    BY <1>1
  <2>2. /\ Smaller(Offered, s) \in Nat /\ UpTo(Offered, s) \in Nat /\ UpTo(Offered, s) <= n
        /\ Cardinality({o \in Offered : o[2] = s}) \in Nat
        /\ UpTo(Offered, s) = Smaller(Offered, s) + Cardinality({o \in Offered : o[2] = s})
    BY <1>1, <1>2, <2>1, Counts, EqualCounts
  <2>3. IsFiniteSet({o \in Offered : o[2] = s})
    BY <1>1, FS_Subset DEF Offers
  <2>4. Cardinality({o \in Offered : o[2] = s}) = 0 <=> {o \in Offered : o[2] = s} = {}
    BY <2>3, FS_EmptySet
  <2>5. {o \in Offered : o[2] = s} = {} <=> ~\E o \in Offered : o[2] = s
    OBVIOUS
  <2> QED BY <2>2, <2>4, <2>5, <1>6
<1>8. ASSUME NEW s \in Symbols, NEW i \in 1 .. n
      PROVE  matches[i] = s <=> i > Smaller(Offered, s) /\ i <= UpTo(Offered, s)
  BY <1>1, <1>2, PlacesOf
<1>9. ASSUME NEW s \in Matching PROVE \E i \in 1 .. n : matches[i] = s
  <2>1. s \in Symbols
    BY DEF Matching
  <2>2. PICK z \in Nat : z = Smaller(Offered, s) /\ z + 1 \in 1 .. n /\ z + 1 > z /\ z + 1 <= UpTo(Offered, s)
    BY <1>7, <2>1
  <2> QED BY <1>8, <2>1, <2>2
<1>10. ASSUME NEW i \in 1 .. n PROVE matches[i] \in Matching
  <2>1. PICK s \in Symbols : s = matches[i]
    BY <1>2 DEF Ranked
  <2>2. i > Smaller(Offered, s) /\ i <= UpTo(Offered, s)
    BY <1>8, <2>1
  <2> QED BY <1>7, <2>1, <2>2
<1>11. matches # <<>>
  BY <1>2
<1> QED BY <1>2, <1>9, <1>10, <1>11

(* Where the array has room for the matches, Tab adds exactly what all of  *)
(* them go on with.                                                        *)
THEOREM AddsTheCommon == Spec => AddsWhatIsCommon
<1>1. ASSUME Walk, First, complete, Cardinality(Offered) \in 1 .. MatchMax
      PROVE  prefix' = LongestCommonPrefix(Matching)
  <2>1. phase = "collect" /\ left = <<>> /\ Ranked(matches, Offered, Symbols)
    BY <1>1 DEF complete, First
  <2>2. matches # <<>> /\ Matching = {matches[i] : i \in 1 .. Len(matches)} /\ matches \in Seq(Sym)
    BY <1>1, <2>1, HoldsAll, MatchesAreSymbols
  <2>3. PICK c \in Nat :
          /\ \A l \in Nat : Shared(matches, Len(matches), l) <=> l <= c
          /\ c <= Len(matches[1]) /\ longest_common_prefix = SubSeq(matches[1], 1, c)
    BY <2>2, LcpIs
  <2>4. PICK n \in Nat \ {0} : n = Len(matches) /\ \A i \in 1 .. n : matches[i] \in Sym
    BY <2>2, LenProperties, EmptySeq
  <2>5. PICK a \in Sym : a = matches[1]
    BY <2>4
  <2>6. PICK x \in Sym : x = longest_common_prefix /\ Len(x) = c /\ \A k \in 1 .. c : x[k] = a[k]
    BY <2>3, <2>5, FirstBytes
  <2>7. prefix \in Sym /\ Len(prefix) \in Nat
    BY <1>1, LenProperties DEF Walk, Sym
  <2>8. ASSUME NEW i \in 1 .. n PROVE Len(prefix) <= Len(matches[i]) /\ \A k \in 1 .. Len(prefix) : prefix[k] = matches[i][k]
    <3>1. matches[i] \in Matching
      BY <2>2, <2>4
    <3>2. IsPrefix(prefix, matches[i])
      BY <3>1 DEF Matching
    <3> QED BY <2>4, <2>7, <3>2, PrefixIs
  <2>9. Len(prefix) <= Len(a) /\ \A k \in 1 .. Len(prefix) : prefix[k] = a[k]
    BY <2>4, <2>5, <2>8
  <2>10. Shared(matches, n, Len(prefix))
    BY <2>5, <2>8, <2>9 DEF Shared, Agreeing
  <2>11. Len(prefix) <= c
    BY <2>3, <2>4, <2>7, <2>10
  <2>12. Len(prefix) = c => prefix = x
    BY <2>6, <2>7, <2>9, EqualSyms
  <2>13. prefix' = IF Len(x) > Len(prefix) THEN x ELSE prefix
    BY <1>1, <2>6 DEF complete
  <2>14. prefix' = x
    BY <2>6, <2>7, <2>11, <2>12, <2>13
  <2> QED BY <2>2, <2>6, <2>14, LcpIsCommon
<1>2. ASSUME Walk, First
      PROVE  [complete /\ Cardinality(Offered) \in 1 .. MatchMax => prefix' = LongestCommonPrefix(Matching)]_vars
  BY <1>1, <1>2
<1> QED BY <1>2, WalkInvariant, PTL DEF AddsWhatIsCommon

-----------------------------------------------------------------------------
(* MaxLen is the length of one of the matches, and of the longest. *)
LEMMA MaxLenIs ==
  ASSUME matches \in Seq(Sym), matches # <<>>
  PROVE  /\ \E i \in 1 .. Len(matches) : MaxLen = Len(matches[i])
         /\ MaxLen \in Nat
<1>1. PICK n \in Nat \ {0} : n = Len(matches)
  BY LenProperties, EmptySeq
<1>2. \A i \in 1 .. n : Len(matches[i]) \in Nat
  BY <1>1, LenProperties DEF Sym
<1> DEFINE P == {k \in Nat : k <= n => \E b \in Nat : \A i \in 1 .. k : Len(matches[i]) <= b}
           T == {b \in Nat : \A i \in 1 .. n : Len(matches[i]) <= b}
<1>3. 0 \in P
  <2>1. \A i \in 1 .. 0 : Len(matches[i]) <= 0
    OBVIOUS
  <2> QED BY <2>1
<1>4. ASSUME NEW k \in Nat, k \in P PROVE k + 1 \in P
  <2> SUFFICES ASSUME k + 1 <= n PROVE \E b \in Nat : \A i \in 1 .. k + 1 : Len(matches[i]) <= b
    OBVIOUS
  <2>1. PICK b \in Nat : \A i \in 1 .. k : Len(matches[i]) <= b
    BY <1>1, <1>4
  <2>2. PICK l \in Nat : l = Len(matches[k + 1])
    BY <1>1, <1>2
  <2>3. PICK d \in Nat : b <= d /\ l <= d
    OBVIOUS
  <2>4. ASSUME NEW i \in 1 .. k + 1 PROVE Len(matches[i]) <= d
    <3>1. CASE i = k + 1
      BY <2>2, <2>3, <3>1
    <3>2. CASE i \in 1 .. k
      <4>1. Len(matches[i]) <= b /\ Len(matches[i]) \in Nat
        BY <1>1, <1>2, <2>1, <3>2
      <4> QED BY <4>1, <2>3
    <3> QED BY <3>1, <3>2
  <2> QED BY <2>4
<1>5. Nat \subseteq P
  <2> HIDE DEF P
  <2> QED BY <1>3, <1>4, NatInd
<1>6. T # {} /\ T \subseteq Nat
  <2>1. n \in P
    <3> HIDE DEF P
    <3> QED BY <1>1, <1>5
  <2>2. PICK b \in Nat : \A i \in 1 .. n : Len(matches[i]) <= b
    BY <2>1
  <2> QED BY <2>2
<1>7. PICK b \in T : \A x \in T : b <= x
  <2> HIDE DEF T
  <2> QED BY <1>6, Least
<1>8. \E i \in 1 .. n : b = Len(matches[i])
  <2> SUFFICES ASSUME \A i \in 1 .. n : b # Len(matches[i]) PROVE FALSE
    OBVIOUS
  <2>1. b \in Nat /\ b # 0
    <3>1. 1 \in 1 .. n
      OBVIOUS
    <3> QED BY <3>1, <1>2, <1>7
  <2>2. b - 1 \in T
    <3>1. ASSUME NEW i \in 1 .. n PROVE Len(matches[i]) <= b - 1
      BY <1>2, <1>7, <2>1
    <3> QED BY <2>1, <3>1
  <2>3. b <= b - 1
    <3> HIDE DEF T
    <3> QED BY <1>7, <2>2
  <2> QED BY <2>1, <2>3
<1>9. PICK j \in 1 .. Len(matches) : b = Len(matches[j])
  BY <1>1, <1>8
<1>10. \A i \in 1 .. Len(matches) : Len(matches[i]) <= b
  BY <1>1, <1>7
<1> DEFINE L == {Len(matches[i]) : i \in 1 .. Len(matches)}
<1>11. b \in L
  BY <1>9
<1> HIDE DEF L
<1>12. MaxLen \in L
  BY <1>10, <1>11 DEF MaxLen, L
<1>13. PICK i \in 1 .. Len(matches) : MaxLen = Len(matches[i])
  BY <1>12 DEF L
<1> QED BY <1>1, <1>2, <1>13

(* Rounding up gives one row at least. *)
LEMMA CeilIs ==
  ASSUME NEW x \in Nat \ {0}, NEW y \in Nat \ {0} PROVE Ceil(x, y) \in Nat \ {0}
<1>1. x + y - 1 >= y /\ x + y - 1 \in Nat
  OBVIOUS
<1>2. PICK z \in Nat : z = x + y - 1 /\ z >= y
  BY <1>1
<1>3. z \div y \in Nat /\ z \div y >= 1
  BY <1>2
<1> QED BY <1>2, <1>3 DEF Ceil

(* Where the cursor stands after n rows down and m up; up as many as there *)
(* was room for down, it is on a row that many can be gone down from.      *)
LEMMA DownUpIs ==
  ASSUME NEW from \in 0 .. Height - 1, NEW n \in Nat, NEW m \in Nat
  PROVE  /\ DownUp(from, n, m) \in 0 .. Height - 1
         /\ n < Height => DownUp(from, n, n) + n < Height
<1>1. PICK h \in Nat \ {0} : h = Height
  BY CompletionAssumption
<1>2. PICK d \in 0 .. h - 1 : d = Lesser(from + n, h - 1) /\ (d = from + n \/ d = h - 1)
  BY <1>1 DEF Lesser
<1>3. DownUp(from, n, m) = Greater(d - m, 0) /\ DownUp(from, n, n) = Greater(d - n, 0)
  BY <1>1, <1>2 DEF DownUp
<1>4. Greater(d - m, 0) \in 0 .. h - 1
  BY <1>1, <1>2 DEF Greater
<1>5. n < h => Greater(d - n, 0) + n < h
  BY <1>1, <1>2 DEF Greater
<1> QED BY <1>1, <1>3, <1>4, <1>5

(* The list on the screen: if it fits, its rows are those that are counted *)
(* and the cursor is back above them.                                      *)
LEMMA ListIs ==
  ASSUME NEW n \in Nat \ {0}, n = Len(matches), MaxLen \in Nat, NEW num_cols \in Nat \ {0}, list(num_cols),
         below \in Nat, row \in 0 .. Height - 1
  PROVE  /\ below' \in Nat /\ rows' \in Nat /\ row' \in 0 .. Height - 1 /\ printed' \in {"whole", "torn"}
         /\ printed' = "whole" => rows' = below' /\ row' + below' < Height
<1>1. PICK w \in Nat \ {0} : w = MaxLen + 4
  OBVIOUS
<1>2. PICK c \in Nat \ {0} : c = IF num_cols \div w = 0 THEN 1 ELSE num_cols \div w
  <2>1. num_cols \div w \in Nat
    OBVIOUS
  <2> QED BY <2>1
<1>3. PICK x \in Nat : x = Ceil(n, c)
  BY CeilIs
<1>4. PICK y \in Nat \ {0} : y = Ceil(w, num_cols)
  BY CeilIs
<1>5. PICK back \in 0 .. Height - 1 : back = DownUp(row, below, below)
  BY DownUpIs
<1>6. /\ below' = x
      /\ rows' = IF y = 1 THEN x ELSE x * y
      /\ row' = DownUp(back, rows', below')
      /\ printed' = IF y = 1 /\ rows' < Height THEN "whole" ELSE "torn"
  BY <1>1, <1>2, <1>3, <1>4, <1>5 DEF list
<1>7. x * y \in Nat
  OBVIOUS
<1>8. below' \in Nat /\ rows' \in Nat
  BY <1>6, <1>7
<1>9. row' \in 0 .. Height - 1
  BY <1>6, <1>8, DownUpIs
<1>10. ASSUME printed' = "whole" PROVE rows' = below' /\ row' + below' < Height
  <2>1. rows' = x /\ x < Height
    BY <1>6, <1>10
  <2>2. DownUp(back, x, x) + x < Height
    BY <2>1, DownUpIs
  <2> QED BY <1>6, <2>1, <2>2
<1> QED BY <1>6, <1>8, <1>9, <1>10

(* The screen, and the matches, which are symbols of the environment.      *)
Screen ==
  /\ matches \in Seq(Symbols) /\ Len(matches) <= MatchMax
  /\ below \in Nat /\ rows \in Nat /\ row \in 0 .. Height - 1
  /\ printed \in {"whole", "old", "torn"}
  /\ BackOnTheLine

(* clearlines() brings the cursor back to a row of the screen, and what it *)
(* leaves of the list is known to be torn.                                 *)
LEMMA ClearIs ==
  ASSUME Screen, NEW n \in Nat, clearlines(n), UNCHANGED matches, Symbols' = Symbols PROVE Screen'
<1>1. PICK b \in Nat, r \in Nat : b = below /\ r = rows
  BY DEF Screen
<1>2. Height \in Nat /\ Height # 0
  BY CompletionAssumption
<1>3. row' \in 0 .. Height - 1
  <2>1. PICK back \in 0 .. Height - 1 : back = DownUp(row, below, below)
    BY DownUpIs DEF Screen
  <2> QED BY <2>1, DownUpIs DEF clearlines
<1>4. /\ below' = 0 /\ rows' = Greater(r - b - n, 0)
      /\ printed' = IF rows' = 0 THEN "whole" ELSE "torn"
  BY <1>1 DEF clearlines
<1>5. rows' \in Nat
  BY <1>4 DEF Greater
<1>6. BackOnTheLine'
  <2>1. row' + 0 < Height
    <3>1. PICK h \in Nat : h = Height
      BY <1>2
    <3>2. PICK k \in 0 .. h - 1 : k = row'
      BY <1>3, <3>1
    <3>3. k + 0 < h
      OBVIOUS
    <3> QED BY <3>1, <3>2, <3>3
  <2>2. (IF rows' = 0 THEN "whole" ELSE "torn") = "whole" => rows' = 0
    OBVIOUS
  <2>3. printed' # "old"
    BY <1>4
  <2> QED BY <1>4, <2>1, <2>2, <2>3 DEF BackOnTheLine
<1> QED BY <1>3, <1>4, <1>5, <1>6 DEF Screen

(* Nobody else's writing makes the list longer. *)
LEMMA OthersKeep ==
  ASSUME Screen, UNCHANGED <<matches, below>>, Symbols' = Symbols,
         \/ \E n \in {0, 1} : newline(n)
         \/ clear /\ printed' \in {printed, Aged}
  PROVE  Screen'
<1>1. PICK h \in Nat \ {0}, b \in Nat, r \in Nat, k \in Nat :
         h = Height /\ b = below /\ r = rows /\ k = row /\ k \in 0 .. h - 1
  BY CompletionAssumption DEF Screen
<1>2. printed' \in {"whole", "old", "torn"}
  BY DEF Screen, newline, Aged
<1>3. CASE clear /\ printed' \in {printed, Aged}
  <2>1. row' = 0 /\ rows' = 0 /\ 0 \in 0 .. h - 1
    BY <1>1, <1>3 DEF clear
  <2>2. printed' = "whole" => printed = "whole"
    BY <1>3 DEF Aged
  <2>3. printed = "whole" => k + b < h
    BY <1>1 DEF Screen, BackOnTheLine
  <2>4. k + b < h => 0 + b < h
    BY <1>1
  <2>5. BackOnTheLine'
    BY <1>1, <2>1, <2>2, <2>3, <2>4 DEF BackOnTheLine
  <2> QED BY <1>1, <1>2, <2>1, <2>5 DEF Screen
<1>4. ASSUME NEW n \in {0, 1}, newline(n) PROVE Screen'
  <2>1. row' = DownUp(k, n, 0) /\ rows' = Greater(r - n, 0) /\ printed' = IF n = 0 THEN printed ELSE Aged
    BY <1>1, <1>4 DEF newline
  <2>2. row' \in 0 .. Height - 1
    BY <1>1, <2>1, DownUpIs
  <2>3. rows' \in Nat /\ rows' <= r
    BY <1>1, <2>1 DEF Greater
  <2>4. CASE n = 0
    <3>1. rows' = rows /\ row' = row
      <4>1. DownUp(k, 0, 0) = k
        BY <1>1 DEF DownUp, Lesser, Greater
      <4>2. Greater(r - 0, 0) = r
        BY DEF Greater
      <4> QED BY <1>1, <2>1, <2>4, <4>1, <4>2
    <3>2. BackOnTheLine'
      BY <2>1, <2>4, <3>1 DEF Screen, BackOnTheLine
    <3> QED BY <1>1, <1>2, <2>2, <2>3, <3>2 DEF Screen
  <2>5. CASE n = 1
    <3>1. printed' = Aged /\ printed' # "whole"
      BY <2>1, <2>5 DEF Aged
    <3>2. printed' = "old" => r <= b
      <4>1. printed' = "old" => printed \in {"whole", "old"}
        BY <3>1 DEF Aged, Screen
      <4>2. printed = "whole" => r \in {0, b}
        BY <1>1 DEF Screen, BackOnTheLine
      <4>3. printed = "old" => r <= b
        BY <1>1 DEF Screen, BackOnTheLine
      <4> QED BY <4>1, <4>2, <4>3
    <3>3. r <= b => rows' <= b
      BY <2>3
    <3>4. BackOnTheLine'
      BY <1>1, <3>1, <3>2, <3>3 DEF BackOnTheLine
    <3> QED BY <1>1, <1>2, <2>2, <2>3, <3>4 DEF Screen
  <2> QED BY <2>4, <2>5
<1> QED BY <1>3, <1>4

(* The array in the walk has no more than MatchMax symbols. *)
LEMMA InsertedFits ==
  ASSUME Walk', First', phase' = "collect"
  PROVE  matches' \in Seq(Symbols') /\ Len(matches') <= MatchMax
<1>1. Walk' => Symbols' \subseteq Sym /\ Offers(Offered')
  <2>1. Symbols' \subseteq Sym
    BY DEF Walk, Symbols
  <2>2. IsFiniteSet((1 .. Len(chain')) \X Symbols')
    <3>1. Len(chain') \in Nat
      BY LenProperties DEF Walk
    <3>2. IsFiniteSet(1 .. Len(chain'))
      BY <3>1, FS_Interval
    <3> QED BY <3>2, FS_Product DEF Walk
  <2>3. Offered' \subseteq (1 .. Len(chain')) \X Symbols'
    BY DEF Offered
  <2>4. \A o \in Offered' : o[2] \in Sym
    BY <2>1, <2>3
  <2> QED BY <2>1, <2>2, <2>3, <2>4, FS_Subset DEF Offers
<1>2. /\ matches' \in Seq(Symbols')
      /\ Len(matches') = IF Cardinality(Offered') < MatchMax THEN Cardinality(Offered') ELSE MatchMax
  BY DEF First, Ranked
<1>3. Cardinality(Offered') \in Nat
  BY <1>1, FS_CardinalityType DEF Offers
<1> QED BY <1>2, <1>3, CompletionAssumption

LEMMA ScreenStays ==
  ASSUME Walk, First, Screen, [Next]_vars, Walk', First' PROVE Screen'
<1>0. ASSUME UNCHANGED <<matches, screen>>, Symbols' = Symbols PROVE Screen'
  BY <1>0 DEF screen, Screen, BackOnTheLine
<1>1. ASSUME NEW p \in Typed, move_to(p) PROVE Screen'
  BY <1>0, <1>1 DEF move_to, Symbols
<1>2. CASE kshowcomp \/ check_match
  <2>1. phase' = "collect" /\ UNCHANGED screen
    BY <1>2 DEF kshowcomp, check_match
  <2>2. matches' \in Seq(Symbols') /\ Len(matches') <= MatchMax
    BY <2>1, InsertedFits
  <2> QED BY <2>1, <2>2 DEF screen, Screen, BackOnTheLine
<1>4. CASE next_table
  BY <1>0, <1>4 DEF next_table, Symbols
<1>5. CASE complete
  <2>1. UNCHANGED <<chain, matches>> /\ Symbols' = Symbols
    BY <1>5 DEF complete, Symbols
  <2>2. CASE UNCHANGED screen
    BY <1>0, <2>1, <2>2
  <2>3. CASE clearlines(0)
    BY <2>1, <2>3, ClearIs
  <2>4. ASSUME Len(matches) >= 2, NEW num_cols \in Widths, list(num_cols) PROVE Screen'
    <3>1. matches \in Seq(Sym) /\ matches # <<>>
      <4>1. phase = "collect"
        BY <1>5 DEF complete
      <4>2. Len(<<>>) = 0
        OBVIOUS
      <4> QED BY <4>1, <4>2, <2>4, MatchesAreSymbols DEF First
    <3>2. PICK n \in Nat \ {0} : n = Len(matches) /\ num_cols \in Nat \ {0} /\ MaxLen \in Nat
      BY <2>4, <3>1, MaxLenIs, LenProperties, CompletionAssumption
    <3>3. below \in Nat /\ row \in 0 .. Height - 1
      BY DEF Screen
    <3>4. /\ below' \in Nat /\ rows' \in Nat /\ row' \in 0 .. Height - 1 /\ printed' \in {"whole", "torn"}
          /\ printed' = "whole" => rows' = below' /\ row' + below' < Height
      BY <2>4, <3>2, <3>3, ListIs
    <3>5. BackOnTheLine'
      BY <3>4 DEF BackOnTheLine
    <3> QED BY <2>1, <3>4, <3>5 DEF Screen
  <2> QED BY <1>5, <2>2, <2>3, <2>4 DEF complete
<1>6. CASE ctrl_l \/ line_fails \/ others_write
  <2>1. UNCHANGED <<chain, matches, below>>
    BY <1>6 DEF ctrl_l, line_fails, others_write, walking, newline, clear
  <2>2. Symbols' = Symbols
    BY <2>1 DEF Symbols
  <2>3. \/ \E n \in {0, 1} : newline(n)
        \/ clear /\ printed' \in {printed, Aged}
    BY <1>6 DEF ctrl_l, line_fails, others_write
  <2> QED BY <2>1, <2>2, <2>3, OthersKeep
<1>7. CASE line_returns
  <2>1. UNCHANGED matches /\ Symbols' = Symbols
    BY <1>7 DEF line_returns, walking, Symbols
  <2>2. PICK n \in {0, 1} : clearlines(n)
    BY <1>7 DEF line_returns
  <2> QED BY <2>1, <2>2, ClearIs
<1>8. CASE line_start \/ ctrl_z \/ continued
  BY <1>0, <1>8 DEF line_start, ctrl_z, continued, walking, Symbols
<1>9. CASE UNCHANGED vars
  BY <1>0, <1>9 DEF vars, Symbols
<1> QED BY <1>1, <1>2, <1>4, <1>5, <1>6, <1>7, <1>8, <1>9 DEF Next

LEMMA InitScreen == ASSUME Init PROVE Screen
<1>1. Symbols = {}
  <2>1. 1 .. Len(<< >>) = {}
    OBVIOUS
  <2> QED BY <2>1 DEF Init, Symbols
<1>2. matches \in Seq(Symbols) /\ Len(matches) = 0 /\ 0 <= MatchMax
  BY CompletionAssumption DEF Init
<1>3. row + 0 < Height
  BY CompletionAssumption DEF Init
<1> QED BY <1>1, <1>2, <1>3 DEF Init, Screen, BackOnTheLine

(* Every step keeps the screen so. *)
THEOREM ScreenInvariant == Spec => []Screen
<1>1. Init => Screen
  BY InitScreen
<1>2. Walk /\ First /\ Screen /\ [Next]_vars /\ Walk' /\ First' => Screen'
  BY ScreenStays
<1> QED BY <1>1, <1>2, WalkInvariant, PTL DEF Spec

(* The array never holds more than JANET_MATCH_MAX matches, and the cursor *)
(* never leaves the screen.                                                *)
THEOREM CompletionTypes == Spec => []TypeOK
<1>1. Walk /\ Screen => TypeOK
  BY DEF Walk, Screen, TypeOK, Sym
<1> QED BY <1>1, WalkInvariant, ScreenInvariant, PTL

(* The rows clearlines() erases are those of the list, and it comes back   *)
(* to the line, if the list fits on the screen and nobody else has written *)
(* since; if somebody has, it still erases what is left of the list.       *)
THEOREM StaysOnTheLine == Spec => []BackOnTheLine
<1>1. Screen => BackOnTheLine
  BY DEF Screen
<1> QED BY <1>1, ScreenInvariant, PTL
=============================================================================
