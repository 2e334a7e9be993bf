------------------------- MODULE LineBufferProofs -------------------------
(***************************************************************************)
(* Proofs about LineBuffer, for every size of the array, every alphabet    *)
(* and every screen: first the array, then the row, and last the text that *)
(* TextField makes of the array.                                           *)
(***************************************************************************)
EXTENDS LineBuffer, SequenceTheorems, TLAPS

(* What every handler needs of the array and leaves behind: the counters   *)
(* are in range, gbl_len is the length of the string in gbl_buf, and the   *)
(* last cell is NUL.                                                       *)
BufferInv == BufferOK /\ Terminated

-----------------------------------------------------------------------------
(* What insert(), called for each character of w at a gap inside the line, *)
(* leaves in the array: fits of them are let in.                           *)
LEMMA PutShape ==
  ASSUME BufferInv,
         NEW p \in 0 .. len, NEW w \in Seq(Char),
         put(p, w)
  PROVE  \E fits \in 0 .. Len(w) :
           /\ len + fits <= LineMax - 1
           /\ fits = Len(w) \/ len + fits = LineMax - 1
           /\ buf' = [i \in Index |->
                        IF i = len + fits THEN NUL
                        ELSE IF i \in p .. p + fits - 1 THEN w[i - p + 1]
                        ELSE IF i \in p + fits .. len + fits - 1 THEN buf[i - fits]
                        ELSE buf[i]]
           /\ len' = len + fits /\ pos' = p + fits
<1> DEFINE fits == Smaller(Len(w), LineMax - 1 - len)
           after == [i \in Index |->
                   IF i = len + fits THEN NUL
                   ELSE IF i \in p .. p + fits - 1 THEN w[i - p + 1]
                   ELSE IF i \in p + fits .. len + fits - 1 THEN buf[i - fits]
                   ELSE buf[i]]
<1>1. /\ LineMax \in Nat /\ LineMax >= 2 /\ NUL \notin Char
      /\ buf \in [Index -> Cell] /\ DOMAIN buf = Index
      /\ len \in 0 .. LineMax - 1
      /\ fits \in 0 .. Len(w) /\ len + fits <= LineMax - 1
  BY BufferAssumption DEF BufferInv, BufferOK, Index, Smaller
<1>2. buf' = after /\ len' = len + fits /\ pos' = p + fits
  <2> DEFINE open  == memmove(buf, p + fits, p, len - p)
             typed == store(open, p, SubSeq(w, 1, fits))
  <2>1. /\ Len(SubSeq(w, 1, fits)) = fits
        /\ \A i \in 1 .. fits : SubSeq(w, 1, fits)[i] = w[i]
    BY <1>1
  <2>2. open = [i \in Index |-> IF i \in p + fits .. len + fits - 1 THEN buf[i - fits] ELSE buf[i]]
    <3>1. \A i \in Index : /\ i - (p + fits) + p = i - fits
                           /\ p + fits + (len - p) - 1 = len + fits - 1
      BY <1>1 DEF Index
    <3> QED
      BY <1>1, <3>1 DEF memmove
  <2>3. typed = [i \in Index |-> IF i \in p .. p + fits - 1 THEN w[i - p + 1] ELSE open[i]]
    <3>1. \A i \in Index : i \in p .. p + fits - 1 => SubSeq(w, 1, fits)[i - p + 1] = w[i - p + 1]
      BY <1>1, <2>1 DEF Index
    <3>2. DOMAIN open = Index
      BY <2>2
    <3> HIDE DEF open
    <3> QED
      BY <2>1, <3>1, <3>2 DEF store
  <2>4. buf' = [i \in Index |-> IF i = len + fits THEN NUL ELSE typed[i]]
    <3>1. DOMAIN typed = Index
      BY <2>3
    <3>2. buf' = store(typed, len + fits, <<NUL>>)
      BY DEF put
    <3> HIDE DEF typed
    <3>3. Len(<<NUL>>) = 1 /\ <<NUL>>[1] = NUL
      OBVIOUS
    <3>4. \A i \in Index : i \in len + fits .. len + fits + 1 - 1 <=> i = len + fits
      BY <1>1 DEF Index
    <3>5. \A i \in Index : i = len + fits => <<NUL>>[i - (len + fits) + 1] = NUL
      BY <1>1, <3>3 DEF Index
    <3> QED
      BY <3>1, <3>2, <3>3, <3>4, <3>5 DEF store
  <2>5. len' = len + fits /\ pos' = p + fits
    BY DEF put
  <2> HIDE DEF open, typed, fits
  <2>6. buf' = after
    BY <2>2, <2>3, <2>4
  <2> QED
    BY <2>5, <2>6
<1>3. fits = Len(w) \/ len + fits = LineMax - 1
  BY <1>1 DEF Smaller
<1> HIDE DEF fits
<1> QED
  BY <1>1, <1>2, <1>3

(* insert(), called for each character of w at a gap inside the line,      *)
(* keeps the invariant: the count n that fits leaves room for the NUL.     *)
LEMMA PutKeeps ==
  ASSUME BufferInv,
         NEW p \in 0 .. len, NEW w \in Seq(Char),
         put(p, w)
  PROVE  BufferInv'
<1>0. PICK fits \in 0 .. Len(w) :
        /\ len + fits <= LineMax - 1
        /\ buf' = [i \in Index |->
                     IF i = len + fits THEN NUL
                     ELSE IF i \in p .. p + fits - 1 THEN w[i - p + 1]
                     ELSE IF i \in p + fits .. len + fits - 1 THEN buf[i - fits]
                     ELSE buf[i]]
        /\ len' = len + fits /\ pos' = p + fits
  BY PutShape
<1> DEFINE after == [i \in Index |->
                   IF i = len + fits THEN NUL
                   ELSE IF i \in p .. p + fits - 1 THEN w[i - p + 1]
                   ELSE IF i \in p + fits .. len + fits - 1 THEN buf[i - fits]
                   ELSE buf[i]]
<1>1. /\ LineMax \in Nat /\ LineMax >= 2 /\ NUL \notin Char
      /\ buf \in [Index -> Cell] /\ DOMAIN buf = Index
      /\ len \in 0 .. LineMax - 1
      /\ fits \in 0 .. Len(w) /\ len + fits <= LineMax - 1
  BY <1>0, BufferAssumption DEF BufferInv, BufferOK, Index
<1>2. buf' = after /\ len' = len + fits /\ pos' = p + fits
  BY <1>0
<1>3. \A i \in 1 .. Len(w) : w[i] \in Char
  OBVIOUS
<1>4. buf' \in [Index -> Cell]
  <2> SUFFICES ASSUME NEW i \in Index PROVE after[i] \in Cell
    BY <1>2
  <2>1. CASE i \in p .. p + fits - 1 /\ i # len + fits
    <3>1. i - p + 1 \in 1 .. Len(w) /\ after[i] = w[i - p + 1]
      BY <1>1, <2>1 DEF Index
    <3> QED
      BY <1>3, <3>1 DEF Cell
  <2>2. CASE i \in p + fits .. len + fits - 1
    <3>1. i - fits \in Index /\ after[i] = buf[i - fits]
      BY <1>1, <2>2 DEF Index
    <3> QED
      BY <1>1, <3>1
  <2>3. CASE /\ i \notin p + fits .. len + fits - 1
             /\ ~(i \in p .. p + fits - 1 /\ i # len + fits)
    <3>1. after[i] \in {NUL, buf[i]}
      BY <2>3
    <3> QED
      BY <1>1, <3>1 DEF Cell
  <2> QED
    BY <2>1, <2>2, <2>3
<1>5. strlenIs(buf', len')
  <2>0. after[len + fits] = NUL
    BY <1>1 DEF Index
  <2>1. \A j \in 0 .. len - 1 : buf[j] # NUL
    BY DEF BufferInv, Terminated, strlenIs
  <2>2. ASSUME NEW i \in 0 .. len + fits - 1 PROVE after[i] # NUL
    <3>2. CASE i \in 0 .. p - 1
      BY <1>1, <2>1, <3>2 DEF Index
    <3>3. CASE i \in p .. p + fits - 1
      <4>1. i - p + 1 \in 1 .. Len(w) /\ after[i] = w[i - p + 1]
        BY <1>1, <3>3 DEF Index
      <4> QED
        BY <1>1, <1>3, <4>1
    <3>4. CASE i \in p + fits .. len + fits - 1
      <4>1. i - fits \in 0 .. len - 1 /\ after[i] = buf[i - fits]
        BY <1>1, <3>4 DEF Index
      <4> QED
        BY <2>1, <4>1
    <3> QED
      BY <1>1, <3>2, <3>3, <3>4
  <2> HIDE DEF after
  <2> QED
    BY <1>1, <1>2, <2>0, <2>2 DEF strlenIs
<1>6. buf'[LineMax - 1] = NUL
  BY <1>1, <1>2 DEF BufferInv, Terminated, Index
<1> QED
  BY <1>1, <1>2, <1>4, <1>5, <1>6 DEF BufferInv, BufferOK, Terminated, Index

(* What kbackspace() or kdelete(), called as often as there are cells      *)
(* between gaps p and q, leave in the array.                               *)
LEMMA EraseShape ==
  ASSUME BufferInv,
         NEW p \in 0 .. len, NEW q \in p .. len,
         erase(p, q)
  PROVE  /\ buf' = [i \in Index |->
                      IF i \in len - (q - p) .. len - 1 THEN NUL
                      ELSE IF i \in p .. len - (q - p) - 1 THEN buf[i + (q - p)]
                      ELSE buf[i]]
         /\ len' = len - (q - p) /\ pos' = p
<1> DEFINE gone  == q - p
           moved == memmove(buf, p, q, len - q)
           after == [i \in Index |->
                       IF i \in len - gone .. len - 1 THEN NUL
                       ELSE IF i \in p .. len - gone - 1 THEN buf[i + gone]
                       ELSE buf[i]]
<1>1. /\ LineMax \in Nat /\ LineMax >= 2 /\ NUL \notin Char
      /\ buf \in [Index -> Cell] /\ DOMAIN buf = Index
      /\ len \in 0 .. LineMax - 1 /\ p \in 0 .. len /\ q \in 0 .. len
      /\ gone \in 0 .. len - p
  BY BufferAssumption DEF BufferInv, BufferOK, Index
<1>2. buf' = after
  <2>1. moved = [i \in Index |-> IF i \in p .. len - gone - 1 THEN buf[i + gone] ELSE buf[i]]
    <3>1. \A i \in Index : i - p + q = i + gone
      BY <1>1 DEF Index
    <3>2. p + (len - q) - 1 = len - gone - 1
      BY <1>1
    <3> QED
      BY <1>1, <3>1, <3>2 DEF memmove
  <2>2. /\ Len(Nuls(gone)) = gone
        /\ \A i \in 1 .. gone : Nuls(gone)[i] = NUL
    BY <1>1 DEF Nuls
  <2>3. buf' = store(moved, len - gone, Nuls(gone))
    BY DEF erase
  <2>4. DOMAIN moved = Index
    BY <2>1
  <2>5. \A i \in Index : /\ i \in len - gone .. len - gone + gone - 1 <=> i \in len - gone .. len - 1
                         /\ i \in len - gone .. len - 1 => i - (len - gone) + 1 \in 1 .. gone
    BY <1>1 DEF Index
  <2> HIDE DEF moved, gone
  <2>6. buf' = [i \in Index |-> IF i \in len - gone .. len - 1 THEN NUL ELSE moved[i]]
    BY <2>2, <2>3, <2>4, <2>5 DEF store
  <2> QED
    BY <2>1, <2>6
<1>3. len' = len - gone /\ pos' = p
  BY DEF erase
<1> QED
  BY <1>2, <1>3

(* kbackspace() and kdelete(), called as often as there are cells between  *)
(* gaps p and q: the cells the tail left are NUL, up to the old terminator. *)
LEMMA EraseKeeps ==
  ASSUME BufferInv,
         NEW p \in 0 .. len, NEW q \in p .. len,
         erase(p, q)
  PROVE  BufferInv'
<1> DEFINE gone  == q - p
           after == [i \in Index |->
                       IF i \in len - gone .. len - 1 THEN NUL
                       ELSE IF i \in p .. len - gone - 1 THEN buf[i + gone]
                       ELSE buf[i]]
<1>1. /\ LineMax \in Nat /\ LineMax >= 2 /\ NUL \notin Char
      /\ buf \in [Index -> Cell] /\ DOMAIN buf = Index
      /\ len \in 0 .. LineMax - 1 /\ p \in 0 .. len /\ q \in 0 .. len
      /\ gone \in 0 .. len - p
  BY BufferAssumption DEF BufferInv, BufferOK, Index
<1>2. /\ strlenIs(buf, len) /\ buf[LineMax - 1] = NUL
      /\ buf[len] = NUL /\ \A i \in 0 .. len - 1 : buf[i] # NUL
  BY DEF BufferInv, Terminated, strlenIs
<1>3. buf' = after
  BY EraseShape
<1>4. len' = len - gone /\ pos' = p
  BY EraseShape
<1> HIDE DEF gone
<1>5. buf' \in [Index -> Cell]
  <2> SUFFICES ASSUME NEW i \in Index PROVE after[i] \in Cell
    BY <1>3
  <2>1. CASE i \in p .. len - gone - 1
    <3>1. i + gone \in Index /\ after[i] = buf[i + gone]
      BY <1>1, <2>1 DEF Index
    <3> QED
      BY <1>1, <3>1
  <2>2. CASE i \notin p .. len - gone - 1
    <3>1. after[i] \in {NUL, buf[i]}
      BY <2>2
    <3> QED
      BY <1>1, <3>1 DEF Cell
  <2> QED
    BY <2>1, <2>2
<1>6. after[len - gone] = NUL
  <2>1. len - gone \in Index
    BY <1>1 DEF Index
  <2>2. CASE gone = 0
    <3>1. len - gone = len
      BY <1>1, <2>2
    <3>2. after[len] \in {NUL, buf[len]}
      BY <1>1, <2>1, <2>2, <3>1
    <3> QED
      BY <1>2, <3>1, <3>2
  <2>3. CASE gone # 0
    BY <1>1, <2>1, <2>3
  <2> QED
    BY <2>2, <2>3
<1>7. ASSUME NEW i \in 0 .. len - gone - 1 PROVE after[i] # NUL
  <2>1. CASE i \in p .. len - gone - 1
    <3>1. i + gone \in 0 .. len - 1 /\ i \in Index /\ after[i] = buf[i + gone]
      BY <1>1, <2>1 DEF Index
    <3> QED
      BY <1>2, <3>1
  <2>2. CASE i \in 0 .. p - 1
    <3>1. i \in 0 .. len - 1 /\ i \in Index /\ after[i] = buf[i]
      BY <1>1, <2>2 DEF Index
    <3> QED
      BY <1>2, <3>1
  <2> QED
    BY <1>1, <2>1, <2>2
<1>8. after[LineMax - 1] = NUL
  BY <1>1, <1>2 DEF Index
<1> HIDE DEF after
<1>9. strlenIs(buf', len') /\ buf'[LineMax - 1] = NUL
  BY <1>3, <1>4, <1>6, <1>7, <1>8 DEF strlenIs
<1> QED
  BY <1>1, <1>4, <1>5, <1>9 DEF BufferInv, BufferOK, Terminated, Index

(* The motions leave the array alone. *)
LEMMA GotoKeeps ==
  ASSUME BufferInv, NEW p \in 0 .. len, goto(p)
  PROVE  BufferInv'
BY DEF BufferInv, BufferOK, Terminated, strlenIs, goto

(* Ctrl-k puts the terminator under the cursor. *)
LEMMA CtrlKKeeps ==
  ASSUME BufferInv, ctrl_k
  PROVE  BufferInv'
<1>1. /\ LineMax \in Nat /\ LineMax >= 2
      /\ buf \in [Index -> Cell] /\ DOMAIN buf = Index
      /\ len \in 0 .. LineMax - 1 /\ pos \in 0 .. len
      /\ \A i \in 0 .. len - 1 : buf[i] # NUL
      /\ buf[LineMax - 1] = NUL
  BY BufferAssumption DEF BufferInv, BufferOK, Terminated, strlenIs, Index
<1>2. buf' = [i \in Index |-> IF i = pos THEN NUL ELSE buf[i]]
  <2>1. Len(<<NUL>>) = 1 /\ <<NUL>>[1] = NUL
    OBVIOUS
  <2>2. \A i \in Index : i \in pos .. pos + 1 - 1 <=> i = pos
    BY <1>1 DEF Index
  <2>3. \A i \in Index : i = pos => i - pos + 1 = 1
    BY <1>1 DEF Index
  <2> QED
    BY <1>1, <2>1, <2>2, <2>3 DEF ctrl_k, store
<1>3. len' = pos /\ pos' = pos
  BY DEF ctrl_k
<1>4. buf' \in [Index -> Cell]
  BY <1>1, <1>2 DEF Cell
<1>5. strlenIs(buf', len') /\ buf'[LineMax - 1] = NUL
  BY <1>1, <1>2, <1>3 DEF strlenIs, Index
<1> QED
  BY <1>1, <1>3, <1>4, <1>5 DEF BufferInv, BufferOK, Terminated, Index

(* What Ctrl-u leaves in the array. *)
LEMMA CtrlUShape ==
  ASSUME BufferInv, ctrl_u
  PROVE  /\ buf' = [i \in Index |->
                      IF i = len - pos THEN NUL
                      ELSE IF i \in 0 .. len - pos - 1 THEN buf[i + pos]
                      ELSE buf[i]]
         /\ len' = len - pos /\ pos' = 0
<1> DEFINE rest  == len - pos
           moved == memmove(buf, 0, pos, rest)
           after == [i \in Index |->
                       IF i = rest THEN NUL
                       ELSE IF i \in 0 .. rest - 1 THEN buf[i + pos]
                       ELSE buf[i]]
<1>1. /\ LineMax \in Nat /\ LineMax >= 2
      /\ buf \in [Index -> Cell] /\ DOMAIN buf = Index
      /\ len \in 0 .. LineMax - 1 /\ pos \in 0 .. len /\ rest \in 0 .. len
      /\ \A i \in 0 .. len - 1 : buf[i] # NUL
      /\ buf[LineMax - 1] = NUL
  BY BufferAssumption DEF BufferInv, BufferOK, Terminated, strlenIs, Index
<1>2. buf' = after
  <2>1. moved = [i \in Index |-> IF i \in 0 .. rest - 1 THEN buf[i + pos] ELSE buf[i]]
    <3>1. \A i \in Index : i - 0 + pos = i + pos
      BY <1>1 DEF Index
    <3> QED
      BY <1>1, <3>1 DEF memmove
  <2>2. Len(<<NUL>>) = 1 /\ <<NUL>>[1] = NUL
    OBVIOUS
  <2>3. \A i \in Index : /\ i \in rest .. rest + 1 - 1 <=> i = rest
                         /\ i = rest => i - rest + 1 = 1
    BY <1>1 DEF Index
  <2>4. DOMAIN moved = Index
    BY <2>1
  <2>5. buf' = store(moved, rest, <<NUL>>)
    BY DEF ctrl_u
  <2> HIDE DEF moved, rest
  <2>6. buf' = [i \in Index |-> IF i = rest THEN NUL ELSE moved[i]]
    BY <2>2, <2>3, <2>4, <2>5 DEF store
  <2> QED
    BY <2>1, <2>6
<1>3. len' = rest /\ pos' = 0
  BY DEF ctrl_u
<1> QED
  BY <1>2, <1>3

(* Ctrl-u moves what is right of the cursor to the front. *)
LEMMA CtrlUKeeps ==
  ASSUME BufferInv, ctrl_u
  PROVE  BufferInv'
<1> DEFINE rest  == len - pos
           after == [i \in Index |->
                       IF i = rest THEN NUL
                       ELSE IF i \in 0 .. rest - 1 THEN buf[i + pos]
                       ELSE buf[i]]
<1>1. /\ LineMax \in Nat /\ LineMax >= 2
      /\ buf \in [Index -> Cell] /\ DOMAIN buf = Index
      /\ len \in 0 .. LineMax - 1 /\ pos \in 0 .. len /\ rest \in 0 .. len
      /\ \A i \in 0 .. len - 1 : buf[i] # NUL
      /\ buf[LineMax - 1] = NUL
  BY BufferAssumption DEF BufferInv, BufferOK, Terminated, strlenIs, Index
<1>2. buf' = after
  BY CtrlUShape
<1>3. len' = rest /\ pos' = 0
  BY CtrlUShape
<1> HIDE DEF rest
<1>4. ASSUME NEW i \in 0 .. rest - 1
      PROVE  i + pos \in 0 .. len - 1 /\ i + pos \in Index /\ after[i] = buf[i + pos]
  BY <1>1 DEF Index, rest
<1>5. buf' \in [Index -> Cell]
  <2> SUFFICES ASSUME NEW i \in Index PROVE after[i] \in Cell
    BY <1>2
  <2>1. CASE i \in 0 .. rest - 1
    BY <1>1, <1>4, <2>1
  <2>2. CASE i \notin 0 .. rest - 1
    <3>1. after[i] \in {NUL, buf[i]}
      BY <2>2
    <3> QED
      BY <1>1, <3>1 DEF Cell
  <2> QED
    BY <2>1, <2>2
<1>6. after[rest] = NUL
  BY <1>1 DEF Index
<1>7. \A i \in 0 .. rest - 1 : after[i] # NUL
  BY <1>1, <1>4
<1>8. after[LineMax - 1] = NUL
  BY <1>1 DEF Index
<1> HIDE DEF after
<1>9. strlenIs(buf', len') /\ buf'[LineMax - 1] = NUL
  BY <1>2, <1>3, <1>6, <1>7, <1>8 DEF strlenIs
<1> QED
  BY <1>1, <1>3, <1>5, <1>9 DEF BufferInv, BufferOK, Terminated, Index

(* historymove(): strncpy() leaves the last cell alone, which is NUL, so   *)
(* there is a string to measure even if the slot filled the other cells.   *)
LEMMA LoadKeeps ==
  ASSUME BufferInv, NEW t \in Recall, historyload(t)
  PROVE  BufferInv'
<1> DEFINE copy == strncpy(buf, t, LineMax - 1)
<1>1. /\ LineMax \in Nat /\ LineMax >= 2
      /\ buf \in [Index -> Cell] /\ DOMAIN buf = Index
      /\ buf[LineMax - 1] = NUL
      /\ t \in Seq(Char)
  BY BufferAssumption DEF BufferInv, BufferOK, Terminated, Index
<1>2. \A i \in 1 .. Len(t) : t[i] \in Char
  BY <1>1
<1>3. /\ copy \in [Index -> Cell] /\ DOMAIN copy = Index
      /\ copy[LineMax - 1] = NUL
  <2>1. ASSUME NEW i \in Index
        PROVE  (IF i >= LineMax - 1 THEN buf[i] ELSE IF i < Len(t) THEN t[i + 1] ELSE NUL) \in Cell
    <3>1. i < Len(t) => i + 1 \in 1 .. Len(t)
      BY <1>1 DEF Index
    <3> QED
      BY <1>1, <1>2, <3>1 DEF Cell
  <2> QED
    BY <1>1, <2>1 DEF strncpy, Index
<1>4. PICK n \in Index : /\ strlenIs(copy, n)
                         /\ buf' = store(copy, n, <<NUL>>)
                         /\ len' = n /\ pos' = n
  BY DEF historyload
<1> HIDE DEF copy
<1>5. buf' = copy
  <2>1. copy[n] = NUL
    BY <1>4 DEF strlenIs
  <2>2. Len(<<NUL>>) = 1 /\ <<NUL>>[1] = NUL
    OBVIOUS
  <2>3. \A i \in Index : /\ i \in n .. n + 1 - 1 <=> i = n
                         /\ i = n => i - n + 1 = 1
    BY <1>1 DEF Index
  <2>4. buf' = [i \in Index |-> IF i = n THEN NUL ELSE copy[i]]
    BY <1>3, <1>4, <2>2, <2>3 DEF store
  <2> QED
    BY <1>3, <2>1, <2>4
<1> QED
  BY <1>1, <1>3, <1>4, <1>5 DEF BufferInv, BufferOK, Terminated, Index

(* line() stores a terminator at the front of what the last line left. *)
LEMMA StartKeeps ==
  ASSUME BufferInv, line_start
  PROVE  BufferInv'
<1>1. /\ LineMax \in Nat /\ LineMax >= 2
      /\ buf \in [Index -> Cell] /\ DOMAIN buf = Index
      /\ buf[LineMax - 1] = NUL
  BY BufferAssumption DEF BufferInv, BufferOK, Terminated, Index
<1>2. buf' = [i \in Index |-> IF i = 0 THEN NUL ELSE buf[i]]
  <2>1. Len(<<NUL>>) = 1 /\ <<NUL>>[1] = NUL
    OBVIOUS
  <2>2. \A i \in Index : i \in 0 .. 0 + 1 - 1 <=> i = 0
    BY <1>1 DEF Index
  <2>3. \A i \in Index : i = 0 => i - 0 + 1 = 1
    OBVIOUS
  <2> QED
    BY <1>1, <2>1, <2>2, <2>3 DEF line_start, store
<1>3. len' = 0 /\ pos' = 0
  BY DEF line_start
<1> QED
  BY <1>1, <1>2, <1>3 DEF BufferInv, BufferOK, Terminated, strlenIs, Index, Cell

-----------------------------------------------------------------------------
(* The array a program starts with, all NUL: gbl_buf is a static of         *)
(* super.c, so the first line finds a string of length 0 and a terminator. *)
THEOREM InitBuffer == Init => BufferInv
<1> SUFFICES ASSUME Init PROVE BufferInv
  OBVIOUS
<1>1. LineMax \in Nat /\ LineMax >= 2
  BY BufferAssumption
<1> QED
  BY <1>1 DEF Init, BufferInv, BufferOK, Terminated, strlenIs, Index, Cell

(* One step per handler.  The painting of the row does not matter here. *)
THEOREM NextBuffer == BufferInv /\ [Next]_vars => BufferInv'
<1> SUFFICES ASSUME BufferInv, [Next]_vars PROVE BufferInv'
  OBVIOUS
<1>1. /\ LineMax \in Nat /\ LineMax >= 2 /\ NUL \notin Char
      /\ Blank \in Char /\ Symbol \subseteq Char /\ Words \subseteq Seq(Char)
      /\ buf \in [Index -> Cell]
      /\ len \in 0 .. LineMax - 1 /\ pos \in 0 .. len
      /\ buf[len] = NUL
  BY BufferAssumption DEF BufferInv, BufferOK, Terminated, strlenIs, Index
<1>2. CASE line_start
  BY <1>2, StartKeeps
<1>3. ASSUME NEW c \in Char, insert(c) PROVE BufferInv'
  <2>1. <<c>> \in Seq(Char) /\ put(pos, <<c>>)
    BY <1>3 DEF insert
  <2> QED
    BY <1>1, <2>1, PutKeeps
<1>4. CASE kbackspace
  <2>1. /\ erase(pos - 1, pos)
        /\ pos - 1 \in 0 .. len /\ pos \in pos - 1 .. len
    BY <1>1, <1>4 DEF kbackspace
  <2> QED
    BY <2>1, EraseKeeps
<1>5. CASE kdelete
  <2>1. /\ erase(pos, pos + 1)
        /\ pos \in 0 .. len /\ pos + 1 \in pos .. len
    BY <1>1, <1>5 DEF kdelete
  <2> QED
    BY <2>1, EraseKeeps
<1>6. CASE kbackspacew
  <2>1. PICK p \in 0 .. pos : erase(p, pos)
    BY <1>6 DEF kbackspacew
  <2>2. p \in 0 .. len /\ pos \in p .. len
    BY <1>1
  <2> QED
    BY <2>1, <2>2, EraseKeeps
<1>7. CASE kdeletew
  <2>1. PICK q \in pos .. len : erase(pos, q)
    BY <1>7 DEF kdeletew
  <2> QED
    BY <1>1, <2>1, EraseKeeps
<1>8. ASSUME NEW p \in 0 .. len, goto(p) PROVE BufferInv'
  BY <1>8, GotoKeeps
<1>9. CASE kleft \/ kright \/ ctrl_a \/ ctrl_e \/ ctrl_l
  <2>1. \E p \in 0 .. len : goto(p)
    BY <1>1, <1>9 DEF kleft, kright, ctrl_a, ctrl_e, ctrl_l
  <2> QED
    BY <1>8, <2>1
<1>10. CASE kleftw
  <2>1. PICK p \in 0 .. pos : goto(p)
    BY <1>10 DEF kleftw
  <2> QED
    BY <1>1, <1>8, <2>1
<1>11. CASE krightw
  <2>1. PICK q \in pos .. len : goto(q)
    BY <1>11 DEF krightw
  <2> QED
    BY <1>1, <1>8, <2>1
<1>12. CASE ctrl_k
  BY <1>12, CtrlKKeeps
<1>13. CASE ctrl_u
  BY <1>13, CtrlUKeeps
<1>14. CASE kshowcomp_blank
  <2>1. <<Blank, Blank>> \in Seq(Char) /\ put(pos, <<Blank, Blank>>)
    BY <1>1, <1>14 DEF kshowcomp_blank
  <2> QED
    BY <1>1, <2>1, PutKeeps
<1>15. ASSUME NEW w \in Words, kshowcomp(w) PROVE BufferInv'
  <2>1. PICK q \in pos .. LineMax - 1 :
          /\ \A i \in pos .. q - 1 : buf[i] \in Symbol
          /\ put(q, w)
    BY <1>15 DEF kshowcomp
  <2>2. q \in 0 .. len
    <3>1. CASE q > len
      <4>1. len \in pos .. q - 1
        BY <1>1, <2>1, <3>1
      <4> QED
        BY <1>1, <2>1, <4>1
    <3> QED
      BY <1>1, <2>1, <3>1
  <2> QED
    BY <1>1, <2>1, <2>2, PutKeeps
<1>16. ASSUME NEW t \in Recall, historyload(t) PROVE BufferInv'
  BY <1>16, LoadKeeps
<1>17. CASE UNCHANGED vars
  BY <1>17 DEF vars, BufferInv, BufferOK, Terminated, strlenIs
<1> QED
  BY <1>2, <1>3, <1>4, <1>5, <1>6, <1>7, <1>9, <1>10, <1>11, <1>12, <1>13, <1>14,
     <1>15, <1>16, <1>17 DEF Next

(* gbl_len is strlen(gbl_buf) and the last cell is NUL, after any sequence *)
(* of keys: what sdup(), strcmp() and strncpy() in the history code take   *)
(* for granted.                                                            *)
THEOREM StaysTerminated == Spec => []Terminated
<1>1. BufferInv => Terminated
  BY DEF BufferInv
<1> QED
  BY <1>1, InitBuffer, NextBuffer, PTL DEF Spec

-----------------------------------------------------------------------------
(* The screen.  Painted says that a row r and a cursor in column c show a  *)
(* line of l cells of b, cursor at gap p, behind a prompt of pl columns on *)
(* a screen of co: the row starts with cell pl + p - c and goes on to the  *)
(* end of the line or of the screen.                                       *)
Painted(b, l, p, pl, co, r, c) ==
  /\ c \in Int
  /\ r = Wild \/ r \in Seq(Cell)
  /\ pl < co =>
       /\ pl + p - c \in 0 .. p
       /\ r \in Seq(Cell)
       /\ Len(r) = Smaller(l - (pl + p - c), co - pl)
       /\ \A i \in 1 .. Len(r) : r[i] = b[(pl + p - c) + i - 1]
       /\ c < co

ScreenInv ==
  /\ plen \in Prompts /\ cols \in Widths
  /\ Painted(buf, len, pos, plen, cols, row, col)

(* What refresh() writes shows the line, whatever was on screen before: s  *)
(* is how far its first loop steps the row right, n what its second loop   *)
(* leaves of it.                                                           *)
LEMMA WindowPaints ==
  ASSUME NEW b \in [Index -> Cell],
         NEW l \in Index, NEW p \in 0 .. l,
         NEW pl \in Nat, NEW co \in Nat, co > 0,
         NEW s, s = IF pl + p >= co THEN pl + p - co + 1 ELSE 0,
         NEW n, n = Smaller(l - s, co - pl),
         NEW r, r = IF n < 0 THEN Wild ELSE [i \in 1 .. n |-> b[s + i - 1]],
         NEW c, c = pl + p - s
  PROVE  Painted(b, l, p, pl, co, r, c)
<1>1. LineMax \in Nat /\ l \in Nat /\ l <= LineMax - 1 /\ p \in Nat
  BY BufferAssumption DEF Index
<1>2. /\ s \in Nat /\ n \in Int /\ n <= l - s
      /\ pl < co => s \in 0 .. p /\ n >= 0 /\ pl + p - s < co
  <2>1. s \in Nat
    BY <1>1
  <2>2. n \in Int /\ n <= l - s
    BY <1>1, <2>1 DEF Smaller
  <2>3. pl < co => s \in 0 .. p /\ pl + p - s < co
    BY <1>1
  <2>4. pl < co => n >= 0
    BY <1>1, <2>1, <2>3 DEF Smaller
  <2> QED
    BY <2>1, <2>2, <2>3, <2>4
<1>3. c \in Int /\ pl + p - c = s
  BY <1>1, <1>2
<1>4. ASSUME n >= 0
      PROVE  /\ r \in Seq(Cell) /\ Len(r) = n
             /\ \A i \in 1 .. n : r[i] = b[s + i - 1]
  <2>1. r = [i \in 1 .. n |-> b[s + i - 1]]
    BY <1>2, <1>4
  <2>2. ASSUME NEW i \in 1 .. n PROVE b[s + i - 1] \in Cell
    <3>1. s + i - 1 \in Index
      BY <1>1, <1>2 DEF Index
    <3> QED
      BY <3>1
  <2>3. n \in Nat
    BY <1>2, <1>4
  <2> HIDE <1>2, <1>3
  <2> QED
    BY <2>1, <2>2, <2>3
<1>5. r = Wild \/ r \in Seq(Cell)
  BY <1>2, <1>4
<1> QED
  BY <1>2, <1>3, <1>4, <1>5 DEF Painted

(* refresh() leaves a row that shows the line and the cursor, whatever the *)
(* handler before it did to them and whatever the row showed.              *)
LEMMA RefreshKeeps ==
  ASSUME BufferInv', plen \in Prompts, cols \in Widths, refresh
  PROVE  ScreenInv'
<1>1. /\ plen \in Nat /\ cols \in Nat /\ cols > 0
      /\ plen' = plen /\ cols' = cols
  BY BufferAssumption DEF refresh, geometry
<1>2. buf' \in [Index -> Cell] /\ len' \in Index /\ pos' \in 0 .. len'
  BY DEF BufferInv, BufferOK
<1>3. PICK s, n :
        /\ s = IF plen + pos' >= cols THEN plen + pos' - cols + 1 ELSE 0
        /\ n = Smaller(len' - s, cols - plen)
        /\ row' = IF n < 0 THEN Wild ELSE [i \in 1 .. n |-> buf'[s + i - 1]]
        /\ col' = plen + pos' - s
  BY DEF refresh
<1>4. Painted(buf', len', pos', plen, cols, row', col')
  BY <1>1, <1>2, <1>3, WindowPaints
<1> QED
  BY <1>1, <1>4 DEF ScreenInv

(* So does the one character insert() writes at the end of the line: the   *)
(* row ends where the line ends, and the cursor is there.                  *)
LEMMA OvertypePaints ==
  ASSUME NEW b, NEW l \in Nat, NEW pl \in Nat, NEW co \in Nat, pl + l + 1 < co,
         NEW r, NEW c, Painted(b, l, l, pl, co, r, c),
         NEW d, NEW x \in Cell, d[l] = x, \A i \in 0 .. l - 1 : d[i] = b[i]
  PROVE  Painted(d, l + 1, l + 1, pl, co,
                 SubSeq(r, 1, c - pl) \o <<x>> \o SubSeq(r, c - pl + 2, Len(r)), c + 1)
<1> DEFINE f  == pl + l - c
           k  == c - pl
           r2 == SubSeq(r, 1, k) \o <<x>> \o SubSeq(r, k + 2, Len(r))
<1>1. /\ c \in Int /\ f \in 0 .. l /\ r \in Seq(Cell)
      /\ Len(r) = Smaller(l - f, co - pl)
      /\ \A i \in 1 .. Len(r) : r[i] = b[f + i - 1]
  BY DEF Painted
<1>2. Len(r) = l - f /\ k = l - f /\ k \in Nat
  BY <1>1 DEF Smaller
<1>3. /\ r2 \in Seq(Cell) /\ Len(r2) = k + 1
      /\ \A i \in 1 .. k : r2[i] = r[i]
      /\ r2[k + 1] = x
  <2> HIDE DEF f, k
  <2>1. SubSeq(r, 1, k) = r
    BY <1>1, <1>2
  <2>2. SubSeq(r, k + 2, Len(r)) = <<>>
    BY <1>1, <1>2
  <2>3. r2 = r \o <<x>> \o <<>>
    BY <2>1, <2>2
  <2> HIDE DEF r2
  <2> QED
    BY <1>1, <1>2, <2>3
<1>4. ASSUME NEW i \in 1 .. k + 1 PROVE r2[i] = d[f + i - 1]
  <2> HIDE DEF f, k, r2
  <2>1. CASE i = k + 1
    <3>1. f + i - 1 = l
      BY <1>1, <1>2, <2>1
    <3> QED
      BY <1>3, <2>1, <3>1
  <2>2. CASE i # k + 1
    <3>1. i \in 1 .. k /\ f + i - 1 \in 0 .. l - 1
      BY <1>1, <1>2, <2>2
    <3> QED
      BY <1>1, <1>2, <1>3, <3>1
  <2> QED
    BY <2>1, <2>2
<1>5. pl + (l + 1) - (c + 1) = f
  BY <1>1
<1>6. k + 1 = Smaller((l + 1) - f, co - pl) /\ c + 1 < co
  BY <1>1, <1>2 DEF Smaller
<1>7. f \in 0 .. l + 1 /\ c + 1 \in Int
  BY <1>1
<1> HIDE DEF f, k, r2
<1>8. Painted(d, l + 1, l + 1, pl, co, r2, c + 1)
  BY <1>3, <1>4, <1>5, <1>6, <1>7 DEF Painted
<1> QED
  BY <1>8 DEF r2, k

(* What insert() leaves in the array when the cursor is at the end. *)
LEMMA PutAtEnd ==
  ASSUME BufferInv, NEW c \in Char, len < LineMax - 1, put(len, <<c>>)
  PROVE  /\ len' = len + 1 /\ pos' = len + 1
         /\ buf'[len] = c /\ \A i \in 0 .. len - 1 : buf'[i] = buf[i]
<1>1. /\ LineMax \in Nat /\ len \in 0 .. LineMax - 1 /\ DOMAIN buf = Index
  BY BufferAssumption DEF BufferInv, BufferOK, Index
<1>2. Smaller(Len(<<c>>), LineMax - 1 - len) = 1
  BY <1>1 DEF Smaller
<1>3. /\ SubSeq(<<c>>, 1, 1) = <<c>> /\ Len(<<c>>) = 1 /\ <<c>>[1] = c
      /\ Len(<<NUL>>) = 1
  <2>1. <<c>> \in Seq(Char) /\ Len(<<c>>) = 1 /\ <<c>>[1] = c /\ Len(<<NUL>>) = 1
    OBVIOUS
  <2>2. \A s \in Seq(Char) : SubSeq(s, 1, Len(s)) = s
    OBVIOUS
  <2> QED
    BY <2>1, <2>2
<1>4. /\ buf' = store(store(memmove(buf, len + 1, len, len - len), len, <<c>>), len + 1, <<NUL>>)
      /\ len' = len + 1 /\ pos' = len + 1
  BY <1>2, <1>3 DEF put
<1>5. ASSUME NEW i \in 0 .. len PROVE buf'[i] = IF i = len THEN c ELSE buf[i]
  <2>1. i \in Index /\ i \notin len + 1 .. len + 1 + 1 - 1 /\ i \notin len + 1 .. len + 1 + (len - len) - 1
    BY <1>1 DEF Index
  <2>2. i \in len .. len + 1 - 1 <=> i = len
    BY <1>1
  <2>3. i = len => i - len + 1 = 1
    BY <1>1
  <2> QED
    BY <1>1, <1>3, <1>4, <2>1, <2>2, <2>3 DEF store, memmove
<1> QED
  BY <1>1, <1>4, <1>5

-----------------------------------------------------------------------------
Inv == BufferInv /\ ScreenInv

(* The first line of the program, as line() paints it, satisfies the        *)
(* invariant: what the array holds and what the row shows.                 *)
THEOREM InitInv == Init => Inv
<1> SUFFICES ASSUME Init PROVE ScreenInv
  BY InitBuffer DEF Inv
<1>1. plen \in Nat /\ cols \in Nat /\ cols > 0
  BY BufferAssumption DEF Init
<1>2. row = <<>> /\ len = 0 /\ pos = 0 /\ col = plen
  BY DEF Init
<1>3. plen + 0 - plen = 0 /\ (plen < cols => Smaller(0 - 0, cols - plen) = 0)
  BY <1>1 DEF Smaller
<1>4. Painted(buf, 0, 0, plen, cols, <<>>, plen)
  BY <1>1, <1>3 DEF Painted
<1> QED
  BY <1>2, <1>4 DEF ScreenInv, Init

(* Every handler but insert() and the start of a line ends in refresh(). *)
THEOREM NextInv == Inv /\ [Next]_vars => Inv'
<1> SUFFICES ASSUME Inv, [Next]_vars PROVE ScreenInv'
  BY NextBuffer DEF Inv
<1>1. /\ BufferInv /\ ScreenInv /\ BufferInv'
      /\ plen \in Prompts /\ cols \in Widths
  BY NextBuffer DEF Inv, ScreenInv
<1>2. ASSUME refresh PROVE ScreenInv'
  BY <1>1, <1>2, RefreshKeeps
<1>3. CASE line_start
  <2>1. PICK p \in Prompts, w \in Widths :
          len' = 0 /\ pos' = 0 /\ plen' = p /\ cols' = w /\ row' = <<>> /\ col' = p
    BY <1>3 DEF line_start
  <2>2. p \in Nat /\ w \in Nat /\ w > 0
    BY BufferAssumption
  <2>3. p + 0 - p = 0 /\ (p < w => Smaller(0 - 0, w - p) = 0)
    BY <2>2 DEF Smaller
  <2>4. \A b : Painted(b, 0, 0, p, w, <<>>, p)
    BY <2>2, <2>3 DEF Painted
  <2> QED
    BY <2>1, <2>4 DEF ScreenInv
<1>4. ASSUME NEW c \in Char, insert(c) PROVE ScreenInv'
  <2>1. CASE pos = len /\ plen + len + 1 < cols
    <3>1. len < LineMax - 1 /\ put(len, <<c>>) /\ overtype(c)
      BY <1>4, <2>1 DEF insert
    <3>2. /\ len' = len + 1 /\ pos' = len + 1
          /\ buf'[len] = c /\ \A i \in 0 .. len - 1 : buf'[i] = buf[i]
      BY <1>1, <3>1, PutAtEnd
    <3>3. /\ row' = SubSeq(row, 1, col - plen) \o <<c>> \o SubSeq(row, col - plen + 2, Len(row))
          /\ col' = col + 1 /\ plen' = plen /\ cols' = cols
      BY <3>1 DEF overtype, geometry
    <3>4. len \in Nat /\ plen \in Nat /\ cols \in Nat /\ c \in Cell
      BY <1>1, BufferAssumption DEF BufferInv, BufferOK, Index, Cell
    <3>5. Painted(buf, len, len, plen, cols, row, col)
      BY <1>1, <2>1 DEF ScreenInv
    <3>6. Painted(buf', len + 1, len + 1, plen, cols,
                  SubSeq(row, 1, col - plen) \o <<c>> \o SubSeq(row, col - plen + 2, Len(row)),
                  col + 1)
      BY <2>1, <3>2, <3>4, <3>5, OvertypePaints
    <3> QED
      BY <1>1, <3>2, <3>3, <3>6 DEF ScreenInv
  <2>2. CASE ~(pos = len /\ plen + len + 1 < cols)
    BY <1>2, <1>4, <2>2 DEF insert
  <2> QED
    BY <2>1, <2>2
<1>5. CASE kbackspace \/ kdelete \/ kbackspacew \/ kdeletew
  BY <1>2, <1>5 DEF kbackspace, kdelete, kbackspacew, kdeletew
<1>6. CASE kleft \/ kright \/ kleftw \/ krightw \/ ctrl_a \/ ctrl_e \/ ctrl_l
  BY <1>2, <1>6 DEF kleft, kright, kleftw, krightw, ctrl_a, ctrl_e, ctrl_l
<1>7. CASE ctrl_k \/ ctrl_u \/ kshowcomp_blank
  BY <1>2, <1>7 DEF ctrl_k, ctrl_u, kshowcomp_blank
<1>8. ASSUME NEW w \in Words, kshowcomp(w) PROVE ScreenInv'
  BY <1>2, <1>8 DEF kshowcomp
<1>9. ASSUME NEW t \in Recall, historyload(t) PROVE ScreenInv'
  BY <1>2, <1>9 DEF historyload
<1>10. CASE UNCHANGED vars
  BY <1>1, <1>10 DEF vars, ScreenInv
<1> QED
  BY <1>3, <1>4, <1>5, <1>6, <1>7, <1>8, <1>9, <1>10 DEF Next

(* The array and the row agree whenever line() waits for a key.             *)
THEOREM InvAlways == Spec => []Inv
BY InitInv, NextInv, PTL DEF Spec

(* The counters stay within the array, the cursor within the line, and the *)
(* array and the row hold characters.                                      *)
THEOREM StaysTyped == Spec => []TypeOK
<1>1. Inv => TypeOK
  BY DEF Inv, BufferInv, ScreenInv, Painted, TypeOK, ScreenOK
<1> QED
  BY <1>1, InvAlways, PTL

(* Wherever the prompt leaves a column free, the row shows the part of the *)
(* line the cursor is in and the cursor stands on its character, for       *)
(* every length of line and every screen.                                  *)
THEOREM CursorStaysOnScreen == Spec => [](plen < cols => CursorInWindow /\ RowFits)
<1>1. Inv => (plen < cols => CursorInWindow /\ RowFits)
  <2> SUFFICES ASSUME Inv, plen < cols PROVE CursorInWindow /\ RowFits
    OBVIOUS
  <2> DEFINE f == plen + pos - col
  <2>1. /\ plen \in Nat /\ cols \in Nat /\ len \in Nat /\ pos \in 0 .. len /\ col \in Int
        /\ f \in 0 .. pos /\ row \in Seq(Cell) /\ col < cols
        /\ Len(row) = Smaller(len - f, cols - plen)
        /\ \A i \in 1 .. Len(row) : row[i] = buf[f + i - 1]
    BY BufferAssumption DEF Inv, BufferInv, BufferOK, ScreenInv, Painted, Index
  <2>2. row # Wild
    BY <2>1, BufferAssumption DEF Cell
  <2>3. col = plen + pos - f
    BY <2>1
  <2> HIDE DEF f
  <2>4. /\ f + Len(row) <= len /\ plen + Len(row) <= cols
        /\ plen + Len(row) = cols \/ f + Len(row) = len
    BY <2>1 DEF Smaller
  <2>5. row = [i \in 1 .. Len(row) |-> buf[f + i - 1]]
    BY <2>1
  <2>6. CursorInWindow
    BY <2>1, <2>2, <2>3, <2>4, <2>5 DEF CursorInWindow
  <2>7. RowFits
    BY <2>1, <2>3, <2>4 DEF RowFits
  <2> QED
    BY <2>6, <2>7
<1> QED
  BY <1>1, InvAlways, PTL

(* What refresh() paints never goes beyond the right edge, and the cursor  *)
(* does not either.                                                        *)
THEOREM RowStaysInside == Spec => []RowFits
<1>1. (plen < cols => CursorInWindow /\ RowFits) => RowFits
  BY DEF RowFits
<1> QED
  BY <1>1, CursorStaysOnScreen, PTL

-----------------------------------------------------------------------------
(* The text. *)

(* The characters of the line are those of the array before the NUL. *)
LEMMA StringIs ==
  ASSUME NEW b \in [Index -> Cell], NEW l \in Index, strlenIs(b, l),
         NEW t, t = [i \in 1 .. l |-> b[i - 1]]
  PROVE  /\ t \in Seq(Char) /\ Len(t) = l
         /\ \A i \in 1 .. l : t[i] = b[i - 1]
         /\ l \in Nat /\ LineMax \in Nat /\ l <= LineMax - 1
<1>1. /\ l \in Nat /\ LineMax \in Nat /\ l <= LineMax - 1
      /\ \A i \in 0 .. l - 1 : b[i] # NUL
  BY BufferAssumption DEF strlenIs, Index
<1>2. ASSUME NEW i \in 1 .. l PROVE b[i - 1] \in Char
  <2>1. i - 1 \in 0 .. l - 1 /\ i - 1 \in Index
    BY <1>1 DEF Index
  <2> QED BY <1>1, <2>1 DEF Cell
<1>3. t \in [1 .. l -> Char]
  BY <1>2
<1>4. t \in Seq(Char) /\ Len(t) = l
  BY <1>1, <1>3
<1> QED BY <1>1, <1>4

(* The line, cell by cell, in a state of the invariant, *)
LEMMA LineIs ==
  ASSUME BufferInv
  PROVE  /\ Line \in Seq(Char) /\ Len(Line) = len
         /\ \A i \in 1 .. len : Line[i] = buf[i - 1]
         /\ len \in Nat /\ LineMax \in Nat /\ len <= LineMax - 1
  BY StringIs DEF BufferInv, BufferOK, Terminated, Line

(* and after a step that keeps it. *)
LEMMA NextLineIs ==
  ASSUME BufferInv'
  PROVE  Line' \in Seq(Char) /\ Len(Line') = len' /\ \A i \in 1 .. len' : Line'[i] = buf'[i - 1]
<1>1. buf' \in [Index -> Cell] /\ len' \in Index /\ strlenIs(buf', len')
  BY DEF BufferInv, BufferOK, Terminated
<1>2. Line' = [i \in 1 .. len' |-> buf'[i - 1]]
  BY DEF Line
<1> QED BY <1>1, <1>2, StringIs

(* A text with a stretch replaced, cell by cell. *)
LEMMA SpliceIs ==
  ASSUME BufferInv, NEW p \in 0 .. len, NEW q \in p .. len, NEW w \in Seq(Char)
  PROVE  /\ Text!Splice(p, q, w) \in Seq(Char)
         /\ Len(Text!Splice(p, q, w)) = p + Len(w) + (len - q)
         /\ \A i \in 1 .. p : Text!Splice(p, q, w)[i] = buf[i - 1]
         /\ \A i \in 1 .. Len(w) : Text!Splice(p, q, w)[p + i] = w[i]
         /\ \A i \in 1 .. len - q : Text!Splice(p, q, w)[p + Len(w) + i] = buf[q + i - 1]
<1> DEFINE x == SubSeq(Line, 1, p)
           y == SubSeq(Line, q + 1, Len(Line))
           s == Text!Splice(p, q, w)
<1>1. /\ Line \in Seq(Char) /\ Len(Line) = len
      /\ \A i \in 1 .. len : Line[i] = buf[i - 1] /\ Line[i] \in Char
      /\ len \in Nat /\ p \in Nat /\ q \in Nat /\ p <= q /\ q <= len /\ Len(w) \in Nat
  BY LineIs, LenProperties
<1>2. x \in Seq(Char) /\ Len(x) = p /\ \A i \in 1 .. p : x[i] = buf[i - 1]
  <2>1. \A i \in 1 .. p : Line[i] \in Char
    BY <1>1
  <2>2. /\ x \in Seq(Char) /\ Len(x) = IF 1 <= p THEN p - 1 + 1 ELSE 0
        /\ \A i \in 1 .. p - 1 + 1 : x[i] = Line[1 + i - 1]
    BY <1>1, <2>1, SubSeqProperties
  <2>3. \A i \in 1 .. p : i \in 1 .. p - 1 + 1 /\ 1 + i - 1 = i /\ i \in 1 .. len
    BY <1>1
  <2> HIDE DEF x
  <2> QED BY <1>1, <2>2, <2>3
<1>3. y \in Seq(Char) /\ Len(y) = len - q /\ \A i \in 1 .. len - q : y[i] = buf[q + i - 1]
  <2>1. \A i \in q + 1 .. len : Line[i] \in Char
    BY <1>1
  <2>2. /\ y \in Seq(Char) /\ Len(y) = IF q + 1 <= len THEN len - (q + 1) + 1 ELSE 0
        /\ \A i \in 1 .. len - (q + 1) + 1 : y[i] = Line[q + 1 + i - 1]
    BY <1>1, <2>1, SubSeqProperties
  <2>3. \A i \in 1 .. len - q :
          i \in 1 .. len - (q + 1) + 1 /\ q + 1 + i - 1 = q + i /\ q + i \in 1 .. len
    BY <1>1
  <2> HIDE DEF y
  <2> QED BY <1>1, <2>2, <2>3
<1>4. s = (x \o w) \o y
  BY DEF Text!Splice
<1> HIDE DEF x, y, s
<1>5. /\ x \o w \in Seq(Char) /\ Len(x \o w) = p + Len(w)
      /\ \A i \in 1 .. p + Len(w) : (x \o w)[i] = IF i <= p THEN x[i] ELSE w[i - p]
  BY <1>2, ConcatProperties
<1>6. /\ s \in Seq(Char) /\ Len(s) = p + Len(w) + (len - q)
      /\ \A i \in 1 .. p + Len(w) + (len - q) :
           s[i] = IF i <= p + Len(w) THEN (x \o w)[i] ELSE y[i - (p + Len(w))]
  <2>1. /\ s \in Seq(Char) /\ Len(s) = Len(x \o w) + Len(y)
        /\ \A i \in 1 .. Len(x \o w) + Len(y) :
             s[i] = IF i <= Len(x \o w) THEN (x \o w)[i] ELSE y[i - Len(x \o w)]
    BY <1>3, <1>4, <1>5, ConcatProperties
  <2> QED BY <1>3, <1>5, <2>1
<1>7. ASSUME NEW i \in 1 .. p PROVE s[i] = buf[i - 1]
  <2>1. i \in 1 .. p + Len(w) /\ i \in 1 .. p + Len(w) + (len - q) /\ i <= p /\ i <= p + Len(w)
    BY <1>1
  <2> QED BY <1>2, <1>5, <1>6, <2>1
<1>8. ASSUME NEW i \in 1 .. Len(w) PROVE s[p + i] = w[i]
  <2>1. /\ p + i \in 1 .. p + Len(w) /\ p + i \in 1 .. p + Len(w) + (len - q)
        /\ ~(p + i <= p) /\ p + i <= p + Len(w) /\ p + i - p = i
    BY <1>1
  <2> QED BY <1>5, <1>6, <2>1
<1>9. ASSUME NEW i \in 1 .. len - q PROVE s[p + Len(w) + i] = buf[q + i - 1]
  <2>1. /\ p + Len(w) + i \in 1 .. p + Len(w) + (len - q)
        /\ ~(p + Len(w) + i <= p + Len(w)) /\ p + Len(w) + i - (p + Len(w)) = i
    BY <1>1
  <2> QED BY <1>3, <1>6, <2>1
<1> QED BY <1>6, <1>7, <1>8, <1>9 DEF s

(* How an edit of the array is recognised as one of the text. *)
LEMMA LineIsSplice ==
  ASSUME BufferInv, BufferInv', NEW p \in 0 .. len, NEW q \in p .. len, NEW w \in Seq(Char),
         len' = p + Len(w) + (len - q),
         \A i \in 1 .. p : buf'[i - 1] = buf[i - 1],
         \A i \in 1 .. Len(w) : buf'[p + i - 1] = w[i],
         \A i \in 1 .. len - q : buf'[p + Len(w) + i - 1] = buf[q + i - 1]
  PROVE  Line' = Text!Splice(p, q, w)
<1> DEFINE s == Text!Splice(p, q, w)
           t == Line'
<1>1. /\ s \in Seq(Char) /\ Len(s) = p + Len(w) + (len - q)
      /\ \A i \in 1 .. p : s[i] = buf[i - 1]
      /\ \A i \in 1 .. Len(w) : s[p + i] = w[i]
      /\ \A i \in 1 .. len - q : s[p + Len(w) + i] = buf[q + i - 1]
  BY SpliceIs
<1>2. t \in Seq(Char) /\ Len(t) = len' /\ \A i \in 1 .. len' : t[i] = buf'[i - 1]
  BY NextLineIs
<1>3. len \in Nat /\ p \in Nat /\ q \in Nat /\ q <= len /\ Len(w) \in Nat
  BY LineIs, LenProperties
<1> HIDE DEF s, t
<1>4. ASSUME NEW i \in 1 .. len' PROVE t[i] = s[i]
  <2>1. CASE i <= p
    BY <1>1, <1>2, <1>3, <2>1
  <2>2. CASE p < i /\ i <= p + Len(w)
    <3>1. i - p \in 1 .. Len(w) /\ p + (i - p) = i
      BY <1>3, <2>2
    <3>2. buf'[p + (i - p) - 1] = w[i - p] /\ s[p + (i - p)] = w[i - p]
      BY <1>1, <3>1
    <3> QED BY <1>2, <3>1, <3>2
  <2>3. CASE p + Len(w) < i
    <3>1. i - (p + Len(w)) \in 1 .. len - q /\ p + Len(w) + (i - (p + Len(w))) = i
      BY <1>3, <2>3
    <3> DEFINE k == i - (p + Len(w))
    <3>2. buf'[p + Len(w) + k - 1] = buf[q + k - 1] /\ s[p + Len(w) + k] = buf[q + k - 1]
      BY <1>1, <3>1
    <3> QED BY <1>2, <3>1, <3>2
  <2> QED BY <1>3, <2>1, <2>2, <2>3
<1>5. t = s
  BY <1>1, <1>2, <1>4, SeqEqual
<1> QED BY <1>5 DEF s, t

(* Typing is TextField's insertion. *)
LEMMA PutIsInsert ==
  ASSUME BufferInv, NEW p \in 0 .. len, NEW w \in Seq(Char), put(p, w)
  PROVE  Text!InsertAt(p, w)
<1>1. PICK n \in 0 .. Len(w) :
        /\ len + n <= LineMax - 1
        /\ n = Len(w) \/ len + n = LineMax - 1
        /\ buf' = [i \in Index |->
                     IF i = len + n THEN NUL
                     ELSE IF i \in p .. p + n - 1 THEN w[i - p + 1]
                     ELSE IF i \in p + n .. len + n - 1 THEN buf[i - n]
                     ELSE buf[i]]
        /\ len' = len + n /\ pos' = p + n
  BY PutShape
<1>2. BufferInv'
  BY PutKeeps
<1>3. /\ len \in Nat /\ LineMax \in Nat /\ p \in Nat /\ p <= len /\ n \in Nat /\ n <= Len(w)
      /\ Len(w) \in Nat /\ Len(Line) = len
  BY LineIs, LenProperties
<1> DEFINE v == SubSeq(w, 1, n)
<1>4. v \in Seq(Char) /\ Len(v) = n /\ \A i \in 1 .. n : v[i] = w[i]
  <2>1. \A i \in 1 .. n : w[i] \in Char
    BY <1>3
  <2>2. /\ v \in Seq(Char) /\ Len(v) = IF 1 <= n THEN n - 1 + 1 ELSE 0
        /\ \A i \in 1 .. n - 1 + 1 : v[i] = w[1 + i - 1]
    BY <1>3, <2>1, SubSeqProperties
  <2>3. \A i \in 1 .. n : i \in 1 .. n - 1 + 1 /\ 1 + i - 1 = i
    BY <1>3
  <2> HIDE DEF v
  <2> QED BY <1>3, <2>2, <2>3
<1> HIDE DEF v
<1>5. ASSUME NEW i \in 1 .. p PROVE buf'[i - 1] = buf[i - 1]
  <2>1. /\ i - 1 \in Index /\ i - 1 # len + n
        /\ i - 1 \notin p .. p + n - 1 /\ i - 1 \notin p + n .. len + n - 1
    BY <1>1, <1>3 DEF Index
  <2> QED BY <1>1, <2>1
<1>6. ASSUME NEW i \in 1 .. n PROVE buf'[p + i - 1] = v[i]
  <2>1. /\ p + i - 1 \in Index /\ p + i - 1 # len + n
        /\ p + i - 1 \in p .. p + n - 1 /\ p + i - 1 - p + 1 = i
    BY <1>1, <1>3 DEF Index
  <2> QED BY <1>1, <1>4, <2>1
<1>7. ASSUME NEW i \in 1 .. len - p PROVE buf'[p + n + i - 1] = buf[p + i - 1]
  <2>1. /\ p + n + i - 1 \in Index /\ p + n + i - 1 # len + n
        /\ p + n + i - 1 \notin p .. p + n - 1 /\ p + n + i - 1 \in p + n .. len + n - 1
        /\ p + n + i - 1 - n = p + i - 1
    BY <1>1, <1>3 DEF Index
  <2> QED BY <1>1, <2>1
<1>8. p \in p .. len /\ len' = p + Len(v) + (len - p)
  BY <1>1, <1>3, <1>4
<1>9. Line' = Text!Splice(p, p, v)
  BY <1>2, <1>4, <1>5, <1>6, <1>7, <1>8, LineIsSplice
<1> QED BY <1>1, <1>3, <1>9 DEF Text!InsertAt, v

(* Closing up is TextField's erasing. *)
LEMMA EraseIsErase ==
  ASSUME BufferInv, NEW p \in 0 .. len, NEW q \in p .. len, erase(p, q)
  PROVE  Text!Erase(p, q)
<1>1. /\ buf' = [i \in Index |->
                  IF i \in len - (q - p) .. len - 1 THEN NUL
                  ELSE IF i \in p .. len - (q - p) - 1 THEN buf[i + (q - p)]
                  ELSE buf[i]]
      /\ len' = len - (q - p) /\ pos' = p
  BY EraseShape
<1>2. BufferInv'
  BY EraseKeeps
<1>3. /\ len \in Nat /\ LineMax \in Nat /\ len <= LineMax - 1
      /\ p \in Nat /\ q \in Nat /\ p <= q /\ q <= len
  BY LineIs
<1>4. <<>> \in Seq(Char) /\ Len(<<>>) = 0
  OBVIOUS
<1>5. ASSUME NEW i \in 1 .. p PROVE buf'[i - 1] = buf[i - 1]
  <2>1. /\ i - 1 \in Index /\ i - 1 \notin len - (q - p) .. len - 1
        /\ i - 1 \notin p .. len - (q - p) - 1
    BY <1>3 DEF Index
  <2> QED BY <1>1, <2>1
<1>6. ASSUME NEW i \in 1 .. len - q PROVE buf'[p + 0 + i - 1] = buf[q + i - 1]
  <2>1. /\ p + 0 + i - 1 \in Index /\ p + 0 + i - 1 \notin len - (q - p) .. len - 1
        /\ p + 0 + i - 1 \in p .. len - (q - p) - 1
        /\ p + 0 + i - 1 + (q - p) = q + i - 1
    BY <1>3 DEF Index
  <2> QED BY <1>1, <2>1
<1>7. len' = p + 0 + (len - q)
  BY <1>1, <1>3
<1>8. Line' = Text!Splice(p, q, <<>>)
  <2>1. \A i \in 1 .. Len(<<>>) : buf'[p + i - 1] = <<>>[i]
    BY <1>4
  <2> QED BY <1>2, <1>4, <1>5, <1>6, <1>7, <2>1, LineIsSplice
<1> QED BY <1>1, <1>8 DEF Text!Erase

(* Ctrl-k stores a NUL under the cursor: the text ends there. *)
LEMMA CtrlKIsKill == ASSUME BufferInv, ctrl_k PROVE Text!KillToEnd
<1>1. /\ len \in Nat /\ LineMax \in Nat /\ len <= LineMax - 1 /\ DOMAIN buf = Index
      /\ pos \in 0 .. len /\ pos \in Nat /\ pos <= len /\ Len(Line) = len
  BY LineIs DEF BufferInv, BufferOK
<1>2. BufferInv'
  BY CtrlKKeeps
<1>3. len' = pos /\ pos' = pos /\ buf' = store(buf, pos, <<NUL>>)
  BY DEF ctrl_k
<1>4. ASSUME NEW i \in 1 .. pos PROVE buf'[i - 1] = buf[i - 1]
  <2>1. i - 1 \in Index /\ i - 1 \notin pos .. pos + Len(<<NUL>>) - 1
    BY <1>1 DEF Index
  <2> QED BY <1>1, <1>3, <2>1 DEF store
<1>5. <<>> \in Seq(Char) /\ Len(<<>>) = 0
  OBVIOUS
<1>6. len \in pos .. len /\ len' = pos + 0 + (len - len)
  BY <1>1, <1>3
<1>7. /\ \A i \in 1 .. len - len : buf'[pos + 0 + i - 1] = buf[len + i - 1]
      /\ \A i \in 1 .. 0 : buf'[pos + i - 1] = <<>>[i]
  BY <1>1
<1>8. Line' = Text!Splice(pos, len, <<>>)
  BY <1>1, <1>2, <1>4, <1>5, <1>6, <1>7, LineIsSplice
<1> QED BY <1>1, <1>3, <1>8 DEF Text!KillToEnd, Text!Erase

(* Ctrl-u leaves the text that was right of the cursor. *)
LEMMA CtrlUIsKill == ASSUME BufferInv, ctrl_u PROVE Text!KillToStart
<1>1. /\ buf' = [i \in Index |->
                  IF i = len - pos THEN NUL
                  ELSE IF i \in 0 .. len - pos - 1 THEN buf[i + pos]
                  ELSE buf[i]]
      /\ len' = len - pos /\ pos' = 0
  BY CtrlUShape
<1>2. /\ len \in Nat /\ LineMax \in Nat /\ len <= LineMax - 1
      /\ pos \in 0 .. len /\ pos \in Nat /\ pos <= len
  BY LineIs DEF BufferInv, BufferOK
<1>3. BufferInv'
  BY CtrlUKeeps
<1>4. <<>> \in Seq(Char) /\ Len(<<>>) = 0 /\ 0 \in 0 .. len
  BY <1>2
<1>5. ASSUME NEW i \in 1 .. len - pos PROVE buf'[0 + 0 + i - 1] = buf[pos + i - 1]
  <2>1. /\ 0 + 0 + i - 1 \in Index /\ 0 + 0 + i - 1 # len - pos
        /\ 0 + 0 + i - 1 \in 0 .. len - pos - 1 /\ 0 + 0 + i - 1 + pos = pos + i - 1
    BY <1>2 DEF Index
  <2> QED BY <1>1, <2>1
<1>6. /\ \A i \in 1 .. 0 : buf'[i - 1] = buf[i - 1]
      /\ \A i \in 1 .. 0 : buf'[0 + i - 1] = <<>>[i]
      /\ len' = 0 + 0 + (len - pos)
  BY <1>1, <1>2
<1>7. Line' = Text!Splice(0, pos, <<>>)
  BY <1>2, <1>3, <1>4, <1>5, <1>6, LineIsSplice
<1> QED BY <1>1, <1>7 DEF Text!KillToStart, Text!Erase

-----------------------------------------------------------------------------
(* The motions.  The array is what it was. *)
LEMMA GotoIsMove == ASSUME NEW p, goto(p) PROVE Text!MoveTo(p)
  BY DEF goto, Text!MoveTo, Line

(* A loop over cells stops where a loop over characters does: S and T are  *)
(* one set of characters, whatever else is in them.                        *)
LEMMA LeftIsLeft ==
  ASSUME BufferInv, NEW S, NEW T, \A c \in Char : c \in S <=> c \in T,
         NEW p \in 0 .. len, NEW q \in 0 .. len, Leftmost(S, p, q)
  PROVE  Text!LeftOver(T, p, q)
<1>1. /\ \A i \in 1 .. len : Line[i] = buf[i - 1] /\ Line[i] \in Char
      /\ len \in Nat /\ p \in Nat /\ q \in Nat /\ q <= len
  BY LineIs
<1>2. p <= q /\ (\A i \in p .. q - 1 : buf[i] \in S) /\ (p > 0 => buf[p - 1] \notin S)
  BY DEF Leftmost
<1>3. ASSUME NEW i \in p + 1 .. q PROVE Line[i] \in T
  <2>1. i \in 1 .. len /\ i - 1 \in p .. q - 1
    BY <1>1
  <2> QED BY <1>1, <1>2, <2>1
<1>4. ASSUME p > 0 PROVE Line[p] \notin T
  <2>1. p \in 1 .. len
    BY <1>1, <1>2, <1>4
  <2> QED BY <1>1, <1>2, <1>4, <2>1
<1> QED BY <1>2, <1>3, <1>4 DEF Text!LeftOver, Text!Run

(* The same for the loops that run to the right. *)
LEMMA RightIsRight ==
  ASSUME BufferInv, NEW S, NEW T, \A c \in Char : c \in S <=> c \in T,
         NEW p \in 0 .. len, NEW q \in 0 .. len, Rightmost(S, p, q)
  PROVE  Text!RightOver(T, p, q)
<1>1. /\ \A i \in 1 .. len : Line[i] = buf[i - 1] /\ Line[i] \in Char
      /\ len \in Nat /\ p \in Nat /\ q \in Nat /\ q <= len /\ Len(Line) = len
  BY LineIs
<1>2. p <= q /\ (\A i \in p .. q - 1 : buf[i] \in S) /\ (q < len => buf[q] \notin S)
  BY DEF Rightmost
<1>3. ASSUME NEW i \in p + 1 .. q PROVE Line[i] \in T
  <2>1. i \in 1 .. len /\ i - 1 \in p .. q - 1
    BY <1>1
  <2> QED BY <1>1, <1>2, <2>1
<1>4. ASSUME q < len PROVE Line[q + 1] \notin T
  <2>1. q + 1 \in 1 .. len /\ q + 1 - 1 = q
    BY <1>1, <1>4
  <2> QED BY <1>1, <1>2, <1>4, <2>1
<1> QED BY <1>1, <1>2, <1>3, <1>4 DEF Text!RightOver, Text!Run

(* Among characters, those that are not blank are those of a word: the     *)
(* code's test lets the NUL pass too.                                      *)
LEMMA WordsAre == \A c \in Char : c \in NonSpace <=> c \in Text!Word
  BY DEF NonSpace, Cell, Text!Word

-----------------------------------------------------------------------------
(* A slot is copied with its terminator, also one that fills the array. *)
LEMMA LoadIsLoad == ASSUME BufferInv, NEW t \in Recall, historyload(t) PROVE Text!Load(t)
<1> DEFINE copy == strncpy(buf, t, LineMax - 1)
<1>1. /\ LineMax \in Nat /\ LineMax >= 2 /\ DOMAIN buf = Index /\ buf[LineMax - 1] = NUL
      /\ t \in Seq(Char) /\ Len(t) \in Nat /\ Len(t) <= LineMax - 1 /\ NUL \notin Char
      /\ \A i \in 1 .. Len(t) : t[i] \in Char
  BY BufferAssumption DEF BufferInv, BufferOK, Terminated
<1>2. PICK n \in Index : /\ strlenIs(copy, n)
                         /\ buf' = store(copy, n, <<NUL>>)
                         /\ len' = n /\ pos' = n
  BY DEF historyload
<1>3. copy = [i \in Index |-> IF i >= LineMax - 1 THEN buf[i] ELSE IF i < Len(t) THEN t[i + 1] ELSE NUL]
  BY <1>1 DEF strncpy
<1> HIDE DEF copy
<1>4. ASSUME NEW i \in 0 .. Len(t) - 1 PROVE copy[i] = t[i + 1] /\ copy[i] # NUL
  <2>1. i \in Index /\ ~(i >= LineMax - 1) /\ i < Len(t) /\ i + 1 \in 1 .. Len(t)
    BY <1>1 DEF Index
  <2> QED BY <1>1, <1>3, <2>1
<1>5. copy[Len(t)] = NUL /\ Len(t) \in Index
  <2>1. Len(t) \in Index /\ ~(Len(t) < Len(t))
    BY <1>1 DEF Index
  <2>2. CASE Len(t) = LineMax - 1
    BY <1>1, <1>3, <2>1, <2>2
  <2>3. CASE Len(t) < LineMax - 1
    BY <1>1, <1>3, <2>1, <2>3
  <2> QED BY <1>1, <2>1, <2>2, <2>3
<1>6. n = Len(t)
  <2>1. n \in Nat /\ copy[n] = NUL /\ \A i \in 0 .. n - 1 : copy[i] # NUL
    BY <1>1, <1>2 DEF strlenIs, Index
  <2>2. ~(n < Len(t))
    <3>1. n < Len(t) => n \in 0 .. Len(t) - 1
      BY <1>1, <2>1
    <3> QED BY <1>4, <2>1, <3>1
  <2>3. ~(n > Len(t))
    <3>1. n > Len(t) => Len(t) \in 0 .. n - 1
      BY <1>1, <2>1
    <3> QED BY <1>5, <2>1, <3>1
  <2> QED BY <1>1, <2>1, <2>2, <2>3
<1>7. ASSUME NEW i \in 1 .. Len(t) PROVE buf'[i - 1] = t[i]
  <2>1. i - 1 \in Index /\ i - 1 \in 0 .. Len(t) - 1 /\ i - 1 + 1 = i
    BY <1>1 DEF Index
  <2>2. i - 1 \notin n .. n + Len(<<NUL>>) - 1
    BY <1>1, <1>6
  <2>3. DOMAIN copy = Index
    BY <1>3
  <2> QED BY <1>2, <1>4, <2>1, <2>2, <2>3 DEF store
<1>8. Line' = t
  <2>1. BufferInv'
    BY LoadKeeps
  <2>2. Line' \in Seq(Char) /\ Len(Line') = Len(t) /\ \A i \in 1 .. Len(t) : Line'[i] = t[i]
    <3>1. Line' \in Seq(Char) /\ Len(Line') = len' /\ \A i \in 1 .. len' : Line'[i] = buf'[i - 1]
      BY <2>1, NextLineIs
    <3> QED BY <1>2, <1>6, <1>7, <3>1
  <2> QED BY <1>1, <2>2, SeqEqual
<1> QED BY <1>2, <1>6, <1>8 DEF Text!Load

(* Every key does to the text what TextField says, or nothing. *)
LEMMA StepIsText == ASSUME BufferInv, [Next]_vars PROVE [Text!Next]_(Text!vars)
<1>1. /\ len \in Nat /\ pos \in Nat /\ pos <= len /\ Len(Line) = len
      /\ pos \in 0 .. len /\ len \in 0 .. len /\ 0 \in 0 .. len
      /\ Symbol \subseteq Char /\ Blank \in Char /\ Words \subseteq Seq(Char) /\ NUL \notin Char
      /\ buf[len] = NUL
  BY LineIs, BufferAssumption DEF BufferInv, BufferOK, Terminated, strlenIs
<1>2. CASE line_start
  <2>1. len' = 0 /\ pos' = 0
    BY <1>2 DEF line_start
  <2>2. Line' = <<>> /\ Len(<<>>) = 0
    BY <2>1 DEF Line
  <2>3. Text!Load(<<>>)
    BY <2>1, <2>2 DEF Text!Load
  <2> QED BY <2>3 DEF Text!Next
<1>3. ASSUME NEW c \in Char, insert(c) PROVE Text!Next
  <2>1. <<c>> \in Seq(Char) /\ put(pos, <<c>>)
    BY <1>3 DEF insert
  <2>2. Text!Insert(c)
    BY <1>1, <2>1, PutIsInsert DEF Text!Insert
  <2> QED BY <2>2 DEF Text!Next
<1>4. CASE kbackspace
  <2>1. erase(pos - 1, pos) /\ pos > 0
    BY <1>4 DEF kbackspace
  <2>2. pos - 1 \in 0 .. len /\ pos \in pos - 1 .. len
    BY <1>1, <2>1
  <2>3. Text!Backspace
    BY <2>1, <2>2, EraseIsErase DEF Text!Backspace
  <2> QED BY <2>3 DEF Text!Next
<1>5. CASE kdelete
  <2>1. erase(pos, pos + 1) /\ pos # len
    BY <1>5 DEF kdelete
  <2>2. pos + 1 \in pos .. len /\ pos < Len(Line)
    BY <1>1, <2>1
  <2>3. Text!Delete
    BY <1>1, <2>1, <2>2, EraseIsErase DEF Text!Delete
  <2> QED BY <2>3 DEF Text!Next
<1>6. ASSUME NEW p \in 0 .. pos, NEW m \in 0 .. pos,
             Leftmost(Space, m, pos), Leftmost(NonSpace, p, m)
      PROVE  Text!WordLeft(p) /\ p \in 0 .. len /\ pos \in p .. len
  <2>1. p \in 0 .. len /\ m \in 0 .. len /\ pos \in p .. len
    BY <1>1
  <2>2. Text!LeftOver(Space, m, pos)
    BY <1>1, <1>6, <2>1, LeftIsLeft
  <2>3. Text!LeftOver(Text!Word, p, m)
    BY <1>6, <2>1, WordsAre, LeftIsLeft
  <2> QED BY <2>1, <2>2, <2>3 DEF Text!WordLeft
<1>7. CASE kleftw
  <2>1. PICK p \in 0 .. pos, m \in 0 .. pos :
          Leftmost(Space, m, pos) /\ Leftmost(NonSpace, p, m) /\ goto(p)
    BY <1>7 DEF kleftw
  <2>2. Text!LeftWord
    BY <1>6, <2>1, GotoIsMove DEF Text!LeftWord
  <2> QED BY <2>2 DEF Text!Next
<1>8. CASE kbackspacew
  <2>1. PICK p \in 0 .. pos, m \in 0 .. pos :
          Leftmost(Space, m, pos) /\ Leftmost(NonSpace, p, m) /\ erase(p, pos)
    BY <1>8 DEF kbackspacew
  <2>2. Text!BackspaceWord
    BY <1>6, <2>1, EraseIsErase DEF Text!BackspaceWord
  <2> QED BY <2>2 DEF Text!Next
<1>9. CASE krightw
  <2>1. PICK m \in pos .. len, q \in pos .. len :
          Rightmost(NonSpace, pos, m) /\ Rightmost(Space, m, q) /\ goto(q)
    BY <1>9 DEF krightw
  <2>2. m \in 0 .. len /\ q \in 0 .. len
    BY <1>1
  <2>3. Text!RightOver(Text!Word, pos, m)
    BY <1>1, <2>1, <2>2, WordsAre, RightIsRight
  <2>4. Text!RightOver(Space, m, q)
    BY <1>1, <2>1, <2>2, RightIsRight
  <2>5. Text!RightWord
    BY <1>1, <2>1, <2>3, <2>4, GotoIsMove DEF Text!RightWord, Text!NextWord
  <2> QED BY <2>5 DEF Text!Next
<1>10. CASE kdeletew
  <2>1. PICK m \in pos .. len, q \in pos .. len :
          Rightmost(Space, pos, m) /\ Rightmost(NonSpace, m, q) /\ erase(pos, q)
    BY <1>10 DEF kdeletew
  <2>2. m \in 0 .. len /\ q \in 0 .. len
    BY <1>1
  <2>3. Text!RightOver(Space, pos, m)
    BY <1>1, <2>1, <2>2, RightIsRight
  <2>4. Text!RightOver(Text!Word, m, q)
    BY <1>1, <2>1, <2>2, WordsAre, RightIsRight
  <2>5. Text!DeleteWord
    BY <1>1, <2>1, <2>3, <2>4, EraseIsErase DEF Text!DeleteWord, Text!WordEnd
  <2> QED BY <2>5 DEF Text!Next
<1>11. CASE kleft \/ kright
  <2>1. Text!Left \/ Text!Right
    BY <1>1, <1>11, GotoIsMove DEF kleft, kright, Text!Left, Text!Right
  <2> QED BY <2>1 DEF Text!Next
<1>12. CASE ctrl_a \/ ctrl_e
  <2>1. Text!Home \/ Text!End
    BY <1>1, <1>12, GotoIsMove DEF ctrl_a, ctrl_e, Text!Home, Text!End
  <2> QED BY <2>1 DEF Text!Next
<1>13. CASE ctrl_l
  <2>1. goto(pos)
    BY <1>13 DEF ctrl_l
  <2> QED BY <2>1 DEF goto, Line, Text!vars
<1>14. CASE ctrl_k
  BY <1>14, CtrlKIsKill DEF Text!Next
<1>15. CASE ctrl_u
  BY <1>15, CtrlUIsKill DEF Text!Next
<1>16. CASE kshowcomp_blank
  <2>1. <<Blank, Blank>> \in Seq(Char) /\ put(pos, <<Blank, Blank>>)
    BY <1>1, <1>16 DEF kshowcomp_blank
  <2>2. Text!DoubleBlank
    BY <1>1, <2>1, PutIsInsert DEF Text!DoubleBlank
  <2> QED BY <2>2 DEF Text!Next
<1>17. ASSUME NEW w \in Words, kshowcomp(w) PROVE Text!Next
  <2>1. PICK q \in pos .. LineMax - 1 :
          /\ \A i \in pos .. q - 1 : buf[i] \in Symbol
          /\ buf[q] \notin Symbol
          /\ q > 0 /\ buf[q - 1] \in Symbol
          /\ put(q, w)
    BY <1>17 DEF kshowcomp
  <2>2. q \in 0 .. len /\ q \in pos .. len
    <3>1. CASE q > len
      <4>1. len \in pos .. q - 1
        BY <1>1, <2>1, <3>1
      <4> QED BY <1>1, <2>1, <4>1
    <3> QED BY <1>1, <2>1, <3>1
  <2>3. Text!RightOver(Symbol, pos, q)
    <3>1. Rightmost(Symbol, pos, q)
      BY <1>1, <2>1, <2>2 DEF Rightmost
    <3> QED BY <1>1, <2>2, <3>1, RightIsRight
  <2>4. q > 0 /\ Line[q] \in Symbol
    <3>1. q \in 1 .. len
      BY <1>1, <2>1, <2>2
    <3> QED BY <2>1, <3>1, LineIs
  <2>5. Text!InsertAt(q, w)
    BY <1>1, <2>1, <2>2, PutIsInsert
  <2>6. Text!Complete(w)
    BY <1>1, <2>2, <2>3, <2>4, <2>5 DEF Text!Complete
  <2> QED BY <2>6 DEF Text!Next
<1>18. ASSUME NEW t \in Recall, historyload(t) PROVE Text!Next
  BY <1>18, LoadIsLoad DEF Text!Next
<1>19. CASE UNCHANGED vars
  BY <1>19 DEF vars, Line, Text!vars
<1> QED
  BY <1>2, <1>3, <1>4, <1>5, <1>7, <1>8, <1>9, <1>10, <1>11, <1>12, <1>13, <1>14, <1>15, <1>16,
     <1>17, <1>18, <1>19 DEF Next

-----------------------------------------------------------------------------
(* The array is edited as TextField says: no handler loses, repeats or     *)
(* reorders characters, for every length of line and every sequence of     *)
(* keys.                                                                   *)
THEOREM BufferImplements == Spec => ImplementsTextField
<1>1. Init => Text!Init
  <2>1. Init => len = 0 /\ pos = 0
    BY DEF Init
  <2>2. len = 0 => Line = <<>>
    BY DEF Line
  <2> QED BY <2>1, <2>2 DEF Text!Init
<1>2. BufferInv /\ [Next]_vars => [Text!Next]_(Text!vars)
  BY StepIsText
<1> QED
  BY <1>1, <1>2, InitBuffer, NextBuffer, PTL DEF Spec, ImplementsTextField, Text!Spec
=============================================================================
