------------------------- MODULE LineHistoryProofs -------------------------
(***************************************************************************)
(* Proofs about LineHistory, for every limit, every set of lines and every *)
(* set of addresses, as long as malloc() gives memory.                     *)
(***************************************************************************)
EXTENDS LineHistory, FiniteSetTheorems, SequenceTheorems, TLAPS

InUse == 0 .. count - 1

(* Of n slots f and the blocks h: the slots are one to one with the blocks *)
(* that are allocated.                                                     *)
Owns(f, n, h) ==
  /\ \A i \in 0 .. n - 1 : f[i] \in Ptr /\ h[f[i]] # Unused
  /\ \A i, j \in 0 .. n - 1 : f[i] = f[j] => i = j
  /\ \A p \in Ptr : h[p] # Unused => \E i \in 0 .. n - 1 : f[i] = p

Types ==
  /\ history \in [Slot -> Ptr \cup {Null}]
  /\ count \in 0 .. HistoryMax
  /\ historyi \in Slot
  /\ line \in Lines
  /\ heap \in [Ptr -> Lines \cup {Unused}]
  /\ phase \in {"idle", "editing", "exited"}

Inv ==
  /\ Types
  /\ phase # "exited" => Owns(history, count, heap)
  /\ phase = "editing" => historyi < count
  /\ phase = "exited" => Live = {}

-----------------------------------------------------------------------------
(* What the four changes of the array do to the ownership of the blocks.   *)

(* A fresh block at the head, the others one slot up. *)
LEMMA PushOwns ==
  ASSUME NEW f, NEW g, NEW h, NEW k, NEW n \in Nat, NEW p \in Ptr,
         Owns(f, n, h), h[p] = Unused,
         g[0] = p, \A i \in 1 .. n : g[i] = f[i - 1],
         k[p] # Unused, \A q \in Ptr : q # p => k[q] = h[q]
  PROVE  Owns(g, n + 1, k)
<1>1. ASSUME NEW i \in 0 .. n PROVE i = 0 \/ (i \in 1 .. n /\ i - 1 \in 0 .. n - 1)
  OBVIOUS
<1>2. \A i \in 0 .. n - 1 : f[i] \in Ptr /\ h[f[i]] # Unused /\ f[i] # p
  BY DEF Owns
<1>3. ASSUME NEW i \in 0 .. n PROVE g[i] \in Ptr /\ k[g[i]] # Unused
  BY <1>1, <1>2
<1>4. ASSUME NEW i \in 0 .. n, NEW j \in 0 .. n, g[i] = g[j] PROVE i = j
  <2>1. CASE i = 0
    BY <2>1, <1>4, <1>1, <1>2
  <2>2. CASE j = 0
    BY <2>2, <1>4, <1>1, <1>2
  <2>3. CASE i # 0 /\ j # 0
    <3>1. /\ i - 1 \in 0 .. n - 1 /\ j - 1 \in 0 .. n - 1
          /\ f[i - 1] = f[j - 1]
      BY <2>3, <1>4, <1>1
    <3>2. i - 1 = j - 1
      BY <3>1 DEF Owns
    <3> QED BY <3>2
  <2> QED BY <2>1, <2>2, <2>3
<1>5. ASSUME NEW q \in Ptr, k[q] # Unused PROVE \E i \in 0 .. n : g[i] = q
  <2>1. CASE q = p
    BY <2>1
  <2>2. CASE q # p
    <3>1. PICK i \in 0 .. n - 1 : f[i] = q
      BY <2>2, <1>5 DEF Owns
    <3>2. i + 1 \in 1 .. n /\ i + 1 \in 0 .. n /\ (i + 1) - 1 = i
      BY <3>1
    <3> QED BY <3>1, <3>2
  <2> QED BY <2>1, <2>2
<1>6. (n + 1) - 1 = n
  OBVIOUS
<1> QED BY <1>3, <1>4, <1>5, <1>6 DEF Owns

(* The last slot is given up and its block freed. *)
LEMMA PopOwns ==
  ASSUME NEW f, NEW h, NEW k, NEW n \in Nat, n > 0, Owns(f, n, h),
         \A q \in Ptr : k[q] = IF q = f[n - 1] THEN Unused ELSE h[q]
  PROVE  Owns(f, n - 1, k)
<1>1. \A i \in 0 .. (n - 1) - 1 : i \in 0 .. n - 1 /\ i # n - 1
  OBVIOUS
<1>2. n - 1 \in 0 .. n - 1
  OBVIOUS
<1>3. \A i \in 0 .. (n - 1) - 1 : f[i] \in Ptr /\ k[f[i]] # Unused
  BY <1>1, <1>2 DEF Owns
<1>4. ASSUME NEW q \in Ptr, k[q] # Unused PROVE \E i \in 0 .. (n - 1) - 1 : f[i] = q
  <2>1. PICK i \in 0 .. n - 1 : f[i] = q
    BY <1>4 DEF Owns
  <2>2. i # n - 1
    BY <2>1, <1>4
  <2> QED BY <2>1, <2>2
<1> QED BY <1>1, <1>3, <1>4 DEF Owns

(* The head is given up and its block freed, the others one slot down. *)
LEMMA DropOwns ==
  ASSUME NEW f, NEW g, NEW h, NEW k, NEW n \in Nat, n > 0, Owns(f, n, h),
         \A i \in 0 .. n - 2 : g[i] = f[i + 1],
         \A q \in Ptr : k[q] = IF q = f[0] THEN Unused ELSE h[q]
  PROVE  Owns(g, n - 1, k)
<1>1. \A i \in 0 .. n - 2 : i + 1 \in 0 .. n - 1 /\ i + 1 # 0
  OBVIOUS
<1>2. 0 \in 0 .. n - 1 /\ (n - 1) - 1 = n - 2
  OBVIOUS
<1>3. ASSUME NEW i \in 0 .. n - 2 PROVE g[i] \in Ptr /\ k[g[i]] # Unused
  <2>1. f[i + 1] \in Ptr /\ h[f[i + 1]] # Unused /\ f[i + 1] # f[0]
    BY <1>1, <1>2 DEF Owns
  <2> QED BY <2>1
<1>4. ASSUME NEW i \in 0 .. n - 2, NEW j \in 0 .. n - 2, g[i] = g[j] PROVE i = j
  <2>1. i + 1 = j + 1
    BY <1>1, <1>4 DEF Owns
  <2> QED BY <2>1
<1>5. ASSUME NEW q \in Ptr, k[q] # Unused PROVE \E i \in 0 .. n - 2 : g[i] = q
  <2>1. PICK i \in 0 .. n - 1 : f[i] = q
    BY <1>5 DEF Owns
  <2>2. i # 0
    BY <2>1, <1>5
  <2>3. i - 1 \in 0 .. n - 2 /\ (i - 1) + 1 = i
    BY <2>2
  <2> QED BY <2>1, <2>3
<1> QED BY <1>2, <1>3, <1>4, <1>5 DEF Owns

(* A slot's block is freed and a block that is unused, or that one again,  *)
(* takes its place.                                                        *)
LEMMA ReplaceOwns ==
  ASSUME NEW f, NEW g, NEW h, NEW k, NEW n \in Nat, NEW c \in 0 .. n - 1, NEW p \in Ptr,
         Owns(f, n, h), p = f[c] \/ h[p] = Unused,
         \A i \in 0 .. n - 1 : g[i] = IF i = c THEN p ELSE f[i],
         k[p] # Unused,
         \A q \in Ptr : q # p => k[q] = IF q = f[c] THEN Unused ELSE h[q]
  PROVE  Owns(g, n, k)
<1>1. \A i \in 0 .. n - 1 : f[i] \in Ptr /\ h[f[i]] # Unused /\ (i # c => f[i] # p /\ f[i] # f[c])
  BY DEF Owns
<1>2. ASSUME NEW i \in 0 .. n - 1 PROVE g[i] \in Ptr /\ k[g[i]] # Unused
  BY <1>1
<1>3. ASSUME NEW i \in 0 .. n - 1, NEW j \in 0 .. n - 1, g[i] = g[j] PROVE i = j
  BY <1>1, <1>3 DEF Owns
<1>4. ASSUME NEW q \in Ptr, k[q] # Unused PROVE \E i \in 0 .. n - 1 : g[i] = q
  <2>1. CASE q = p
    BY <2>1
  <2>2. CASE q # p
    <3>1. q # f[c] /\ h[q] # Unused
      BY <2>2, <1>4
    <3>2. PICK i \in 0 .. n - 1 : f[i] = q
      BY <3>1 DEF Owns
    <3> QED BY <3>1, <3>2
  <2> QED BY <2>1, <2>2
<1> QED BY <1>2, <1>3, <1>4 DEF Owns

-----------------------------------------------------------------------------
(* A move of delta slots lands in a slot in use. *)
LEMMA ClampedInUse ==
  ASSUME NEW i \in Int, count \in Nat, count > 0
  PROVE  Clamped(i) \in InUse
  BY DEF Clamped, InUse

LEMMA InvInit == Init => Inv
  BY HistoryAssumption DEF Init, Inv, Types, Owns, Live, Slot

(* With memory a fresh block is an address nobody has. *)
LEMMA FreshIsUnused ==
  ASSUME MallocFails = FALSE, NEW h, NEW p \in Fresh(h)
  PROVE  p \in Ptr /\ h[p] = Unused /\ p # Null
  BY HistoryAssumption DEF Fresh

LEMMA AddKeeps ==
  ASSUME MallocFails = FALSE, Inv, addhistory
  PROVE  /\ Inv' /\ phase' = "editing"
         /\ count' = (IF count < HistoryMax THEN count + 1 ELSE HistoryMax)
         /\ heap'[history'[0]] = Empty
         /\ \A i \in 1 .. count' - 1 : heap'[history'[i]] = heap[history[i - 1]]
<1>1. /\ phase = "idle" /\ phase' = "editing" /\ historyi' = 0 /\ line' = Empty
      /\ Types /\ Owns(history, count, heap) /\ count \in Nat
  BY HistoryAssumption DEF addhistory, Inv, Types
<1>2. PICK p \in Fresh(heap) :
        IF p = Null THEN UNCHANGED <<history, count, heap>>
        ELSE IF count < HistoryMax
        THEN /\ history' = Shifted(count + 1, p)
             /\ count' = count + 1
             /\ heap' = sdup(heap, p, Empty)
        ELSE /\ history' = Shifted(HistoryMax, p)
             /\ heap' = Freed(sdup(heap, p, Empty), history[HistoryMax - 1])
             /\ UNCHANGED count
  BY DEF addhistory
<1>3. p \in Ptr /\ heap[p] = Unused /\ p # Null
  BY <1>2, FreshIsUnused
<1>4. Empty \in Lines /\ Empty # Unused
  BY HistoryAssumption
<1>5. CASE count < HistoryMax
  <2>1. /\ history' = [i \in Slot |-> IF i = 0 THEN p ELSE IF i < count + 1 THEN history[i - 1] ELSE history[i]]
        /\ count' = count + 1
        /\ heap' = [heap EXCEPT ![p] = Empty]
    BY <1>2, <1>3, <1>5 DEF Shifted, sdup
  <2>2. Types'
    BY <2>1, <1>1, <1>3, <1>5, HistoryAssumption DEF Types, Slot
  <2>3. history'[0] = p /\ \A i \in 1 .. count : history'[i] = history[i - 1]
    BY <2>1, <1>1, <1>5, HistoryAssumption DEF Slot
  <2>4. heap'[p] # Unused /\ \A q \in Ptr : q # p => heap'[q] = heap[q]
    BY <2>1, <1>1, <1>3, <1>4 DEF Types
  <2>5. Owns(history', count + 1, heap')
    BY <2>3, <2>4, <1>1, <1>3, PushOwns
  <2>6. Inv'
    BY <2>1, <2>2, <2>5, <1>1 DEF Inv
  <2>7. heap'[history'[0]] = Empty
    BY <2>1, <2>3, <1>1, <1>3 DEF Types
  <2>8. ASSUME NEW i \in 1 .. count' - 1 PROVE heap'[history'[i]] = heap[history[i - 1]]
    <3>1. i \in 1 .. count /\ i - 1 \in 0 .. count - 1
      BY <2>1, <2>8, <1>1
    <3>2. history[i - 1] \in Ptr /\ history[i - 1] # p
      BY <3>1, <1>1, <1>3 DEF Owns
    <3> QED BY <3>1, <3>2, <2>3, <2>4
  <2> QED BY <2>1, <2>6, <2>7, <2>8, <1>1, <1>5
<1>6. CASE count >= HistoryMax
  <2> DEFINE last == history[HistoryMax - 1]
             mid  == [heap EXCEPT ![last] = Unused]
  <2>1. count = HistoryMax /\ HistoryMax \in Nat /\ HistoryMax > 0
    BY <1>6, <1>1, HistoryAssumption DEF Types
  <2>2. last \in Ptr /\ heap[last] # Unused /\ last # p /\ last # Null
    <3>1. HistoryMax - 1 \in 0 .. count - 1
      BY <2>1
    <3> QED BY <3>1, <1>1, <1>3, HistoryAssumption DEF Owns
  <2>3. /\ history' = [i \in Slot |-> IF i = 0 THEN p ELSE IF i < HistoryMax THEN history[i - 1] ELSE history[i]]
        /\ heap' = [[heap EXCEPT ![p] = Empty] EXCEPT ![last] = Unused]
        /\ count' = count
    <3>1. Freed([heap EXCEPT ![p] = Empty], last) = [[heap EXCEPT ![p] = Empty] EXCEPT ![last] = Unused]
      BY <2>2 DEF Freed
    <3> HIDE DEF last
    <3>2. history[HistoryMax - 1] = last
      BY DEF last
    <3> QED BY <3>1, <3>2, <1>2, <1>3, <1>6, <2>1 DEF Shifted, sdup
  <2>4. Types'
    BY <2>1, <2>2, <2>3, <1>1, <1>3, HistoryAssumption DEF Types, Slot
  <2>5. Owns(history, HistoryMax - 1, mid)
    BY <2>1, <2>2, <1>1, PopOwns DEF Types
  <2>6. history'[0] = p /\ \A i \in 1 .. HistoryMax - 1 : history'[i] = history[i - 1]
    BY <2>1, <2>3 DEF Slot
  <2>7. mid[p] = Unused /\ heap'[p] # Unused /\ \A q \in Ptr : q # p => heap'[q] = mid[q]
    BY <2>2, <2>3, <1>1, <1>3, <1>4 DEF Types
  <2>8. HistoryMax - 1 \in Nat /\ (HistoryMax - 1) + 1 = HistoryMax
    BY <2>1
  <2>9. heap'[history'[0]] = Empty
    BY <2>2, <2>3, <2>6, <1>1, <1>3 DEF Types
  <2>10. ASSUME NEW i \in 1 .. count' - 1 PROVE heap'[history'[i]] = heap[history[i - 1]]
    <3>1. i \in 1 .. HistoryMax - 1 /\ i - 1 \in 0 .. count - 1
          /\ HistoryMax - 1 \in 0 .. count - 1 /\ i - 1 # HistoryMax - 1
      BY <2>1, <2>3, <2>10
    <3>2. history[i - 1] \in Ptr /\ history[i - 1] # p /\ history[i - 1] # last
      BY <3>1, <1>1, <1>3 DEF Owns
    <3>3. heap'[history[i - 1]] = mid[history[i - 1]]
      BY <3>2, <2>7
    <3>4. mid[history[i - 1]] = heap[history[i - 1]]
      BY <3>2, <1>1 DEF Types
    <3> QED BY <3>1, <3>3, <3>4, <2>6
  <2> HIDE DEF mid
  <2>11. Owns(history', (HistoryMax - 1) + 1, heap')
    BY <2>5, <2>6, <2>7, <2>8, <1>3, PushOwns
  <2>12. Inv'
    BY <2>1, <2>3, <2>4, <2>8, <2>11, <1>1 DEF Inv
  <2>13. count' = (IF count < HistoryMax THEN count + 1 ELSE HistoryMax)
    BY <2>1, <2>3
  <2>14. \A i \in 1 .. count' - 1 : heap'[history'[i]] = heap[history[i - 1]]
    BY <2>10
  <2> QED BY <2>9, <2>12, <2>13, <2>14, <1>1
<1> QED BY <1>1, <1>5, <1>6, HistoryAssumption DEF Types

LEMMA MoveKeeps ==
  ASSUME MallocFails = FALSE, Inv, NEW delta \in Int, historymove(delta)
  PROVE  /\ Inv' /\ phase' = "editing"
         /\ count' = count /\ historyi' = Clamped(historyi + delta)
         /\ historyi' \in 0 .. count - 1
         /\ line' = heap'[history'[historyi']]
         /\ \A i \in 0 .. count - 1 :
              heap'[history'[i]] = IF i = historyi THEN line ELSE heap[history[i]]
<1>1. /\ Types /\ Owns(history, count, heap) /\ count \in Nat /\ count > 1
      /\ phase = "editing" /\ historyi \in 0 .. count - 1 /\ historyi \in Slot
  BY HistoryAssumption DEF historymove, Inv, Types, Slot
<1> DEFINE old == history[historyi]
<1>2. old \in Ptr /\ heap[old] # Unused /\ old # Null
  BY <1>1, HistoryAssumption DEF Owns
<1>3. CanFree(heap, old) /\ Freed(heap, old) = [heap EXCEPT ![old] = Unused]
  BY <1>2 DEF CanFree, Allocated, Freed
<1> HIDE DEF old
<1>4. PICK p \in Fresh([heap EXCEPT ![old] = Unused]) :
         /\ history' = [history EXCEPT ![historyi] = p]
         /\ heap' = sdup([heap EXCEPT ![old] = Unused], p, line)
         /\ historyi' = Clamped(historyi + delta)
         /\ UNCHANGED count
         /\ IF Allocated(heap', history'[historyi'])
            THEN line' = heap'[history'[historyi']] /\ UNCHANGED phase
            ELSE phase' = "undefined" /\ UNCHANGED line
  <2>1. history[historyi] = old
    BY DEF old
  <2> QED BY <2>1, <1>3 DEF historymove
<1>5. p \in Ptr /\ p # Null /\ (p = old \/ heap[p] = Unused)
  <2>1. p \in Ptr /\ [heap EXCEPT ![old] = Unused][p] = Unused /\ p # Null
    BY <1>4, FreshIsUnused
  <2> QED BY <2>1, <1>1 DEF Types
<1>6. heap' = [[heap EXCEPT ![old] = Unused] EXCEPT ![p] = line]
  BY <1>4, <1>5 DEF sdup
<1>7. /\ history' \in [Slot -> Ptr \cup {Null}]
      /\ heap' \in [Ptr -> Lines \cup {Unused}]
      /\ \A i \in 0 .. count - 1 : history'[i] = IF i = historyi THEN p ELSE history[i]
      /\ heap'[p] = line /\ line # Unused /\ line \in Lines
      /\ \A q \in Ptr : q # p => heap'[q] = IF q = old THEN Unused ELSE heap[q]
  <2>1. \A i \in 0 .. count - 1 : i \in Slot
    BY <1>1, HistoryAssumption DEF Types, Slot
  <2>2. line \in Lines /\ line # Unused
    BY <1>1, HistoryAssumption DEF Types
  <2>3. history' \in [Slot -> Ptr \cup {Null}]
    BY <1>1, <1>4, <1>5 DEF Types
  <2>4. \A i \in 0 .. count - 1 : history'[i] = IF i = historyi THEN p ELSE history[i]
    BY <1>1, <1>4, <2>1 DEF Types
  <2>5. heap' \in [Ptr -> Lines \cup {Unused}]
    BY <1>1, <1>6, <2>2 DEF Types
  <2>6. heap'[p] = line
    BY <1>1, <1>5, <1>6 DEF Types
  <2>7. ASSUME NEW q \in Ptr, q # p PROVE heap'[q] = IF q = old THEN Unused ELSE heap[q]
    BY <1>1, <1>6, <2>7 DEF Types
  <2> QED BY <2>2, <2>3, <2>4, <2>5, <2>6, <2>7
<1>8. Owns(history', count, heap')
  <2>1. old = history[historyi] /\ (p = history[historyi] \/ heap[p] = Unused) /\ heap'[p] # Unused
    BY <1>5, <1>7 DEF old
  <2>2. \A q \in Ptr : q # p => heap'[q] = IF q = history[historyi] THEN Unused ELSE heap[q]
    BY <2>1, <1>7
  <2> QED BY <1>1, <1>5, <1>7, <2>1, <2>2, ReplaceOwns
<1>9. historyi' \in InUse /\ historyi' \in 0 .. count - 1 /\ historyi' \in Slot
  <2>1. historyi + delta \in Int
    BY <1>1
  <2>2. Clamped(historyi + delta) \in InUse
    BY <1>1, <2>1, ClampedInUse
  <2> QED BY <2>2, <1>1, <1>4, HistoryAssumption DEF InUse, Types, Slot
<1>10. history'[historyi'] \in Ptr /\ heap'[history'[historyi']] # Unused
  BY <1>8, <1>9 DEF Owns
<1>11. line' = heap'[history'[historyi']] /\ phase' = phase
  BY <1>4, <1>10 DEF Allocated
<1>12. line' \in Lines
  BY <1>7, <1>10, <1>11
<1>13. Types'
  BY <1>1, <1>4, <1>7, <1>9, <1>11, <1>12 DEF Types
<1>14. Inv'
  BY <1>1, <1>4, <1>8, <1>9, <1>11, <1>13 DEF Inv
<1>15. ASSUME NEW i \in 0 .. count - 1
       PROVE  heap'[history'[i]] = IF i = historyi THEN line ELSE heap[history[i]]
  <2>1. CASE i = historyi
    BY <2>1, <1>7
  <2>2. CASE i # historyi
    <3>1. history[i] \in Ptr /\ heap[history[i]] # Unused /\ history[i] # history[historyi]
      BY <2>2, <1>1 DEF Owns
    <3>2. history[i] # old /\ history[i] # p
      BY <3>1, <1>5 DEF old
    <3> QED BY <2>2, <3>1, <3>2, <1>7
  <2> QED BY <2>1, <2>2
<1> QED BY <1>1, <1>4, <1>9, <1>11, <1>14, <1>15

LEMMA ReplaceKeeps ==
  ASSUME MallocFails = FALSE, Inv, replacehistory
  PROVE  /\ Inv' /\ phase' = "idle" /\ UNCHANGED <<historyi, line>>
         /\ IF line = Empty \/ (count > 1 /\ line = heap[history[1]])
            THEN /\ count' = count - 1
                 /\ \A i \in 0 .. count - 2 : heap'[history'[i]] = heap[history[i + 1]]
            ELSE /\ count' = count
                 /\ \A i \in 0 .. count - 1 :
                      heap'[history'[i]] = IF i = 0 THEN line ELSE heap[history[i]]
<1>1. /\ Types /\ Owns(history, count, heap) /\ count \in Nat /\ count > 0
      /\ 0 \in 0 .. count - 1 /\ 0 \in Slot
  BY HistoryAssumption DEF replacehistory, Inv, Types, Slot
<1> DEFINE old == history[0]
<1>2. old \in Ptr /\ heap[old] # Unused /\ old # Null
  BY <1>1, HistoryAssumption DEF Owns
<1>3. CanFree(heap, old)
  BY <1>2 DEF CanFree, Allocated
<1>4. count > 1 => Allocated(heap, history[1])
  <2>1. count > 1 => 1 \in 0 .. count - 1
    BY <1>1
  <2> QED BY <1>1, <2>1 DEF Owns, Allocated
<1>5. /\ phase' = "idle" /\ historyi' = historyi /\ line' = line
      /\ IF line = Empty \/ (count > 1 /\ line = heap[history[1]])
         THEN /\ heap' = Freed(heap, old)
              /\ history' = Dropped
              /\ count' = count - 1
         ELSE \E p \in Fresh(heap) :
              /\ heap' = IF p = Null THEN heap
                         ELSE Freed(sdup(heap, p, line), old)
              /\ history' = IF p = Null THEN history ELSE [history EXCEPT ![0] = p]
              /\ UNCHANGED count
  BY <1>3, <1>4 DEF replacehistory
<1>6. CASE line = Empty \/ (count > 1 /\ line = heap[history[1]])
  <2>1. /\ heap' = [heap EXCEPT ![old] = Unused]
        /\ history' = [i \in Slot |-> IF i + 1 < count THEN history[i + 1] ELSE history[i]]
        /\ count' = count - 1
    BY <1>2, <1>5, <1>6 DEF Freed, Dropped
  <2>2. \A i \in Slot : i + 1 < count => i + 1 \in Slot
    BY <1>1, HistoryAssumption DEF Types, Slot
  <2>3. Types'
    <3>1. history' \in [Slot -> Ptr \cup {Null}]
      BY <2>1, <2>2, <1>1 DEF Types
    <3>2. heap' \in [Ptr -> Lines \cup {Unused}]
      BY <2>1, <1>1 DEF Types
    <3> QED BY <3>1, <3>2, <2>1, <1>1, <1>5, HistoryAssumption DEF Types
  <2>4. \A i \in 0 .. count - 2 : history'[i] = history[i + 1]
    BY <2>1, <1>1, HistoryAssumption DEF Types, Slot
  <2>5. \A q \in Ptr : heap'[q] = IF q = history[0] THEN Unused ELSE heap[q]
    BY <2>1, <1>1 DEF Types
  <2>6. Owns(history', count - 1, heap')
    BY <2>4, <2>5, <1>1, DropOwns
  <2>7. Inv'
    BY <2>1, <2>3, <2>6, <1>5 DEF Inv
  <2>8. ASSUME NEW i \in 0 .. count - 2 PROVE heap'[history'[i]] = heap[history[i + 1]]
    <3>1. i + 1 \in 0 .. count - 1 /\ i + 1 # 0
      BY <1>1
    <3>2. history[i + 1] \in Ptr /\ history[i + 1] # history[0]
      BY <3>1, <1>1 DEF Owns
    <3> QED BY <3>2, <2>4, <2>5
  <2> QED BY <2>1, <2>7, <2>8, <1>5, <1>6
<1>7. CASE ~(line = Empty \/ (count > 1 /\ line = heap[history[1]]))
  <2>1. PICK p \in Fresh(heap) :
              /\ heap' = IF p = Null THEN heap
                         ELSE Freed(sdup(heap, p, line), old)
              /\ history' = IF p = Null THEN history ELSE [history EXCEPT ![0] = p]
              /\ UNCHANGED count
    BY <1>5, <1>7
  <2>2. p \in Ptr /\ heap[p] = Unused /\ p # Null /\ p # old
    BY <2>1, <1>2, FreshIsUnused
  <2> HIDE DEF old
  <2>3. /\ heap' = [[heap EXCEPT ![p] = line] EXCEPT ![old] = Unused]
        /\ history' = [history EXCEPT ![0] = p]
        /\ count' = count
    BY <2>1, <2>2, <1>2 DEF Freed, sdup
  <2>4. line \in Lines /\ line # Unused
    BY <1>1, HistoryAssumption DEF Types
  <2>5. Types'
    <3>1. history' \in [Slot -> Ptr \cup {Null}]
      BY <2>2, <2>3, <1>1 DEF Types
    <3>2. heap' \in [Ptr -> Lines \cup {Unused}]
      BY <2>3, <2>4, <1>1 DEF Types
    <3> QED BY <3>1, <3>2, <2>3, <1>1, <1>5 DEF Types
  <2>6. \A i \in 0 .. count - 1 : history'[i] = IF i = 0 THEN p ELSE history[i]
    <3>1. \A i \in 0 .. count - 1 : i \in Slot
      BY <1>1, HistoryAssumption DEF Types, Slot
    <3> QED BY <3>1, <2>3, <1>1 DEF Types
  <2>7. heap'[p] # Unused /\ \A q \in Ptr : q # p => heap'[q] = IF q = old THEN Unused ELSE heap[q]
    BY <2>2, <2>3, <2>4, <1>1 DEF Types
  <2>8. old = history[0]
    BY DEF old
  <2>9. Owns(history', count, heap')
    BY <2>2, <2>6, <2>7, <2>8, <1>1, ReplaceOwns
  <2>10. Inv'
    BY <2>3, <2>5, <2>9, <1>5 DEF Inv
  <2>11. ASSUME NEW i \in 0 .. count - 1
         PROVE  heap'[history'[i]] = IF i = 0 THEN line ELSE heap[history[i]]
    <3>1. CASE i = 0
      BY <3>1, <2>2, <2>3, <2>6, <1>1, <1>2 DEF Types
    <3>2. CASE i # 0
      <4>1. history[i] \in Ptr /\ heap[history[i]] # Unused /\ history[i] # history[0]
        BY <3>2, <1>1 DEF Owns
      <4> QED BY <3>2, <4>1, <2>2, <2>6, <2>7, <2>8
    <3> QED BY <3>1, <3>2
  <2> QED BY <2>3, <2>10, <2>11, <1>5, <1>7
<1> QED BY <1>5, <1>6, <1>7

LEMMA DeinitKeeps ==
  ASSUME Inv, janet_line_deinit
  PROVE  Inv' /\ phase' = "exited"
<1>1. /\ Types /\ Owns(history, count, heap) /\ count \in Nat
  BY HistoryAssumption DEF janet_line_deinit, Inv, Types
<1> DEFINE used == {history[i] : i \in 0 .. count - 1}
<1>2. \A p \in used : CanFree(heap, p)
  BY <1>1 DEF Owns, CanFree, Allocated
<1>3. ~\E i, j \in 0 .. count - 1 : i # j /\ history[i] = history[j] /\ history[i] # Null
  BY <1>1 DEF Owns
<1>4. /\ phase' = "exited" /\ historyi' = 0
      /\ heap' = [p \in Ptr |-> IF p \in used THEN Unused ELSE heap[p]]
      /\ UNCHANGED <<history, count, line>>
  BY <1>2, <1>3 DEF janet_line_deinit
<1>5. \A p \in Ptr : p \in used \/ heap[p] = Unused
  BY <1>1 DEF Owns
<1>6. heap' = [p \in Ptr |-> Unused]
  BY <1>4, <1>5
<1>7. Live' = {}
  BY <1>6 DEF Live
<1>8. Types'
  <2>1. heap' \in [Ptr -> Lines \cup {Unused}] /\ historyi' \in Slot
    BY <1>4, <1>6, HistoryAssumption DEF Slot
  <2> QED BY <2>1, <1>1, <1>4 DEF Types
<1> QED BY <1>4, <1>7, <1>8 DEF Inv

LEMMA InvStep == ASSUME MallocFails = FALSE, Inv, [Next]_vars PROVE Inv'
<1>1. CASE addhistory
  BY <1>1, AddKeeps
<1>2. CASE simpleline
  BY <1>2, HistoryAssumption DEF simpleline, Inv, Types, Slot, Owns, Live
<1>3. ASSUME NEW t \in Lines, edit(t) PROVE Inv'
  BY <1>3 DEF edit, Inv, Types, Slot, Owns, Live
<1>4. ASSUME NEW delta \in {-HistoryMax, -1, 1, HistoryMax}, historymove(delta) PROVE Inv'
  <2>1. delta \in Int
    BY HistoryAssumption
  <2> QED BY <2>1, <1>4, MoveKeeps
<1>5. CASE replacehistory
  BY <1>5, ReplaceKeeps
<1>6. CASE give_up
  BY <1>6 DEF give_up, Inv, Types, Slot, Owns, Live
<1>7. CASE janet_line_deinit
  BY <1>7, DeinitKeeps
<1>8. CASE UNCHANGED vars
  BY <1>8 DEF vars, Inv, Types, Slot, Owns, Live
<1> QED BY <1>1, <1>2, <1>3, <1>4, <1>5, <1>6, <1>7, <1>8 DEF Next

(* As long as malloc() gives memory the slots in use and the blocks that   *)
(* are allocated stay one to one, and the current slot is one of them.     *)
THEOREM SlotsStayOwned == ASSUME MallocFails = FALSE PROVE Spec => []Inv
<1>1. Inv /\ [Next]_vars => Inv'
  BY InvStep
<1> QED BY <1>1, InvInit, PTL DEF Spec

-----------------------------------------------------------------------------
(* What the invariant says of OneOwner: as many blocks as slots in use.    *)
LEMMA OwnersAreCounted ==
  ASSUME count \in Nat, Owns(history, count, heap)
  PROVE  Used = Live /\ Cardinality(Used) = count
<1> DEFINE f == [i \in InUse |-> history[i]]
<1>1. Used = Live
  BY DEF Used, Live, Owns
<1>2. f \in Injection(InUse, Used) /\ f \in Surjection(InUse, Used)
  BY DEF Owns, InUse, Used, Injection, Surjection, IsInjective
<1>3. IsFiniteSet(InUse) /\ Cardinality(InUse) = count
  BY FS_Interval DEF InUse
<1>4. Cardinality(Used) = Cardinality(InUse)
  BY <1>2, <1>3, FS_Surjection
<1> QED BY <1>1, <1>3, <1>4

(* Nothing is freed twice, read after it was freed, or leaked, whatever is *)
(* edited and in whatever order: each block has one owner until the end.   *)
THEOREM BlocksHaveOneOwner == ASSUME MallocFails = FALSE PROVE Spec => []OneOwner
<1>1. Inv => OneOwner
  <2> SUFFICES ASSUME Inv PROVE OneOwner
    OBVIOUS
  <2>1. count \in Nat /\ phase \in {"idle", "editing", "exited"}
    BY HistoryAssumption DEF Inv, Types
  <2>2. phase \in {"idle", "editing"} => Used = Live /\ Cardinality(Used) = count
    BY <2>1, OwnersAreCounted DEF Inv
  <2> QED BY <2>1, <2>2 DEF Inv, OneOwner
<1> QED BY <1>1, SlotsStayOwned, PTL

(* The counters stay inside the array and the program never gets to where  *)
(* the language says nothing.                                              *)
THEOREM StaysTyped == ASSUME MallocFails = FALSE PROVE Spec => []TypeOK
<1>1. Inv => TypeOK
  BY DEF Inv, Types, TypeOK
<1> QED BY <1>1, SlotsStayOwned, PTL

-----------------------------------------------------------------------------
(* The refinement.  The list that n slots f and the blocks h stand for: *)
Listed(f, n, h) == [i \in 1 .. n |-> h[f[i - 1]]]

LEMMA ListedIsSeq ==
  ASSUME NEW f, NEW n \in Nat, NEW h, Owns(f, n, h), \A q \in Ptr : h[q] \in Lines \cup {Unused}
  PROVE  /\ Listed(f, n, h) \in Seq(Lines)
         /\ Len(Listed(f, n, h)) = n
         /\ \A i \in 1 .. n : Listed(f, n, h)[i] = h[f[i - 1]]
<1>1. \A i \in 1 .. n : i - 1 \in 0 .. n - 1
  OBVIOUS
<1>2. \A i \in 1 .. n : h[f[i - 1]] \in Lines
  BY <1>1 DEF Owns
<1>3. Listed(f, n, h) \in [1 .. n -> Lines]
  BY <1>2 DEF Listed
<1>4. Listed(f, n, h) \in Seq(Lines)
  BY <1>3
<1>5. Len(Listed(f, n, h)) = n
  BY <1>3, <1>4, LenProperties
<1> QED BY <1>4, <1>5 DEF Listed

LEMMA EntriesAreListed ==
  ASSUME Inv, phase # "exited"
  PROVE  /\ Entries = Listed(history, count, heap)
         /\ Entries \in Seq(Lines) /\ Len(Entries) = count
         /\ \A i \in 1 .. count : Entries[i] = heap[history[i - 1]]
<1>1. Entries = Listed(history, count, heap)
  BY DEF Entries, Listed
<1>2. count \in Nat /\ Owns(history, count, heap) /\ \A q \in Ptr : heap[q] \in Lines \cup {Unused}
  BY HistoryAssumption DEF Inv, Types
<1> QED BY <1>1, <1>2, ListedIsSeq

(* The same of the next state. *)
LEMMA EntriesAreListedNext ==
  ASSUME Inv', phase' # "exited"
  PROVE  /\ Entries' \in Seq(Lines) /\ Len(Entries') = count'
         /\ \A i \in 1 .. count' : Entries'[i] = heap'[history'[i - 1]]
<1>1. Entries' = Listed(history', count', heap')
  BY DEF Entries, Listed
<1>2. /\ count' \in Nat /\ Owns(history', count', heap')
      /\ \A q \in Ptr : heap'[q] \in Lines \cup {Unused}
  BY HistoryAssumption DEF Inv, Types
<1>3. /\ Listed(history', count', heap') \in Seq(Lines)
      /\ Len(Listed(history', count', heap')) = count'
      /\ \A i \in 1 .. count' : Listed(history', count', heap')[i] = heap'[history'[i - 1]]
  BY <1>2, ListedIsSeq
<1> QED BY <1>1, <1>3

LEMMA AddStarts ==
  ASSUME MallocFails = FALSE, Inv, addhistory PROVE List!Start
<1> DEFINE n == IF count < HistoryMax THEN count + 1 ELSE HistoryMax
           full == <<Empty>> \o Entries
<1>1. /\ phase = "idle" /\ phase' = "editing" /\ historyi' = 0 /\ line' = Empty
      /\ count \in 0 .. HistoryMax /\ HistoryMax \in Nat /\ HistoryMax >= 2 /\ Empty \in Lines
  BY HistoryAssumption DEF addhistory, Inv, Types
<1>2. /\ Inv' /\ count' = n /\ heap'[history'[0]] = Empty
      /\ \A i \in 1 .. count' - 1 : heap'[history'[i]] = heap[history[i - 1]]
  BY AddKeeps
<1>3. /\ Entries \in Seq(Lines) /\ Len(Entries) = count
      /\ \A i \in 1 .. count : Entries[i] = heap[history[i - 1]]
  BY <1>1, EntriesAreListed
<1>4. /\ Entries' \in Seq(Lines) /\ Len(Entries') = n
      /\ \A i \in 1 .. n : Entries'[i] = heap'[history'[i - 1]]
  BY <1>1, <1>2, EntriesAreListedNext
<1>5. n \in Nat /\ n >= 1 /\ n <= count + 1 /\ List!Lesser(count + 1, HistoryMax) = n
  BY <1>1 DEF List!Lesser
<1> HIDE DEF n
<1>6. /\ full \in Seq(Lines) /\ Len(full) = count + 1 /\ full[1] = Empty
      /\ \A i \in 2 .. count + 1 : full[i] = Entries[i - 1]
  <2>1. <<Empty>> \in Seq(Lines) /\ Len(<<Empty>>) = 1 /\ <<Empty>>[1] = Empty
    BY <1>1
  <2>2. /\ full \in Seq(Lines) /\ Len(full) = 1 + count
        /\ \A i \in 1 .. 1 + count :
             full[i] = IF i <= 1 THEN <<Empty>>[i] ELSE Entries[i - 1]
    <3>1. /\ full \in Seq(Lines) /\ Len(full) = Len(<<Empty>>) + Len(Entries)
          /\ \A i \in 1 .. Len(<<Empty>>) + Len(Entries) :
               full[i] = IF i <= Len(<<Empty>>) THEN <<Empty>>[i] ELSE Entries[i - Len(<<Empty>>)]
      BY <2>1, <1>3, ConcatProperties
    <3> QED BY <3>1, <2>1, <1>3
  <2> QED BY <2>1, <2>2, <1>1
<1> HIDE DEF full
<1>7. /\ SubSeq(full, 1, n) \in Seq(Lines) /\ Len(SubSeq(full, 1, n)) = n
      /\ \A i \in 1 .. n : SubSeq(full, 1, n)[i] = full[i]
  <2>1. \A i \in 1 .. n : i \in 1 .. count + 1
    BY <1>1, <1>5
  <2>2. \A i \in 1 .. n : full[i] \in Lines
    BY <2>1, <1>6
  <2>3. /\ SubSeq(full, 1, n) \in Seq(Lines)
        /\ Len(SubSeq(full, 1, n)) = IF 1 <= n THEN n - 1 + 1 ELSE 0
        /\ \A i \in 1 .. n - 1 + 1 : SubSeq(full, 1, n)[i] = full[1 + i - 1]
    BY <2>2, <1>5, SubSeqProperties
  <2>4. n - 1 + 1 = n /\ \A i \in 1 .. n : 1 + i - 1 = i
    BY <1>5
  <2> QED BY <2>3, <2>4, <1>5
<1>8. ASSUME NEW i \in 1 .. n PROVE Entries'[i] = full[i]
  <2>1. CASE i = 1
    BY <2>1, <1>2, <1>4, <1>6
  <2>2. CASE i # 1
    <3>1. i \in 2 .. count + 1 /\ i - 1 \in 1 .. n - 1 /\ i - 1 \in 1 .. count
      BY <2>2, <1>1, <1>5
    <3> QED BY <3>1, <1>2, <1>3, <1>4, <1>6
  <2> QED BY <2>1, <2>2
<1>9. Entries' = SubSeq(full, 1, n)
  <2>1. \A i \in 1 .. n : Entries'[i] = SubSeq(full, 1, n)[i]
    BY <1>7, <1>8
  <2> QED BY <2>1, <1>4, <1>7, SeqEqual
<1>10. SubSeq(full, 1, n) = SubSeq(<<Empty>> \o Entries, 1, List!Lesser(Len(Entries) + 1, HistoryMax))
  BY <1>3, <1>5 DEF full
<1> QED BY <1>1, <1>9, <1>10 DEF List!Start

LEMMA MoveMoves ==
  ASSUME MallocFails = FALSE, Inv, NEW delta \in Int, historymove(delta)
  PROVE  List!Move(delta)
<1>1. /\ phase = "editing" /\ count > 1 /\ count \in Nat /\ line \in Lines
      /\ historyi \in 0 .. count - 1
  BY HistoryAssumption DEF historymove, Inv, Types, Slot
<1>2. /\ Inv' /\ phase' = "editing"
      /\ count' = count /\ historyi' = Clamped(historyi + delta)
      /\ historyi' \in 0 .. count - 1
      /\ line' = heap'[history'[historyi']]
      /\ \A i \in 0 .. count - 1 :
           heap'[history'[i]] = IF i = historyi THEN line ELSE heap[history[i]]
  BY MoveKeeps
<1>3. /\ Entries \in Seq(Lines) /\ Len(Entries) = count
      /\ \A i \in 1 .. count : Entries[i] = heap[history[i - 1]]
  BY <1>1, EntriesAreListed
<1>4. /\ Entries' \in Seq(Lines) /\ Len(Entries') = count
      /\ \A i \in 1 .. count : Entries'[i] = heap'[history'[i - 1]]
  BY <1>2, EntriesAreListedNext
<1> DEFINE e == [Entries EXCEPT ![historyi + 1] = line]
<1>5. /\ e \in Seq(Lines) /\ Len(e) = count
      /\ \A j \in 1 .. count : e[j] = IF j = historyi + 1 THEN line ELSE Entries[j]
  <2>1. historyi + 1 \in 1 .. Len(Entries)
    BY <1>1, <1>3
  <2> QED BY <2>1, <1>1, <1>3, ExceptSeq
<1> HIDE DEF e
<1>6. ASSUME NEW j \in 1 .. count PROVE Entries'[j] = e[j]
  <2>1. j - 1 \in 0 .. count - 1 /\ (j - 1 = historyi <=> j = historyi + 1)
    BY <1>1
  <2> QED BY <2>1, <1>2, <1>3, <1>4, <1>5
<1>7. Entries' = e
  BY <1>4, <1>5, <1>6, SeqEqual
<1>8. historyi' = List!Greater(0, List!Lesser(historyi + delta, Len(Entries) - 1))
  BY <1>1, <1>2, <1>3 DEF Clamped, List!Greater, List!Lesser
<1>9. line' = Entries'[historyi' + 1]
  <2>1. historyi' + 1 \in 1 .. count /\ (historyi' + 1) - 1 = historyi'
    BY <1>1, <1>2
  <2> QED BY <2>1, <1>2, <1>4
<1>10. Entries' = [Entries EXCEPT ![historyi + 1] = line]
  BY <1>7 DEF e
<1> QED BY <1>1, <1>2, <1>3, <1>8, <1>9, <1>10 DEF List!Move

LEMMA ReplaceAccepts ==
  ASSUME MallocFails = FALSE, Inv, replacehistory PROVE List!Accept
<1>1. /\ phase = "editing" /\ count > 0 /\ count \in Nat /\ line \in Lines
  BY HistoryAssumption DEF replacehistory, Inv, Types, Slot
<1>2. /\ Inv' /\ phase' = "idle" /\ UNCHANGED <<historyi, line>>
      /\ IF line = Empty \/ (count > 1 /\ line = heap[history[1]])
         THEN /\ count' = count - 1
              /\ \A i \in 0 .. count - 2 : heap'[history'[i]] = heap[history[i + 1]]
         ELSE /\ count' = count
              /\ \A i \in 0 .. count - 1 :
                   heap'[history'[i]] = IF i = 0 THEN line ELSE heap[history[i]]
  BY ReplaceKeeps
<1>3. /\ Entries \in Seq(Lines) /\ Len(Entries) = count
      /\ \A i \in 1 .. count : Entries[i] = heap[history[i - 1]]
  BY <1>1, EntriesAreListed
<1>4. /\ Entries' \in Seq(Lines) /\ Len(Entries') = count'
      /\ \A i \in 1 .. count' : Entries'[i] = heap'[history'[i - 1]]
  BY <1>2, EntriesAreListedNext
<1>5. count > 1 => Entries[2] = heap[history[1]]
  <2>1. count > 1 => 2 \in 1 .. count /\ 2 - 1 = 1
    BY <1>1
  <2> QED BY <2>1, <1>3
<1>6. CASE line = Empty \/ (count > 1 /\ line = heap[history[1]])
  <2>1. Entries # <<>>
    BY <1>1, <1>3
  <2>2. /\ Tail(Entries) \in Seq(Lines) /\ Len(Tail(Entries)) = count - 1
        /\ \A i \in 1 .. count - 1 : Tail(Entries)[i] = Entries[i + 1]
    <3>1. /\ Tail(Entries) \in Seq(Lines) /\ Len(Tail(Entries)) = Len(Entries) - 1
          /\ \A i \in 1 .. Len(Tail(Entries)) : Tail(Entries)[i] = Entries[i + 1]
      BY <2>1, <1>3, HeadTailProperties
    <3> QED BY <3>1, <1>3
  <2>3. ASSUME NEW i \in 1 .. count - 1 PROVE Entries'[i] = Tail(Entries)[i]
    <3>1. i - 1 \in 0 .. count - 2 /\ i + 1 \in 1 .. count /\ (i - 1) + 1 = i /\ (i + 1) - 1 = i
      BY <1>1
    <3>2. Entries'[i] = heap'[history'[i - 1]]
      BY <1>2, <1>4, <1>6
    <3>3. heap'[history'[i - 1]] = heap[history[i]]
      BY <3>1, <1>2, <1>6
    <3> QED BY <3>1, <3>2, <3>3, <2>2, <1>3
  <2>4. Len(Entries') = count - 1
    BY <1>2, <1>4, <1>6
  <2>5. Entries' = Tail(Entries)
    BY <2>2, <2>3, <2>4, <1>4, SeqEqual
  <2> QED BY <2>5, <1>1, <1>2, <1>3, <1>5, <1>6 DEF List!Accept
<1>7. CASE ~(line = Empty \/ (count > 1 /\ line = heap[history[1]]))
  <2> DEFINE e == [Entries EXCEPT ![1] = line]
  <2>1. /\ e \in Seq(Lines) /\ Len(e) = count
        /\ \A j \in 1 .. count : e[j] = IF j = 1 THEN line ELSE Entries[j]
    <3>1. 1 \in 1 .. Len(Entries)
      BY <1>1, <1>3
    <3> QED BY <3>1, <1>1, <1>3, ExceptSeq
  <2> HIDE DEF e
  <2>2. ASSUME NEW j \in 1 .. count PROVE Entries'[j] = e[j]
    <3>1. j - 1 \in 0 .. count - 1 /\ (j - 1 = 0 <=> j = 1)
      BY <1>1
    <3> QED BY <3>1, <2>1, <1>2, <1>3, <1>4, <1>7
  <2>3. Entries' = e
    BY <2>1, <2>2, <1>2, <1>4, <1>7, SeqEqual
  <2>4. Entries' = [Entries EXCEPT ![1] = line]
    BY <2>3 DEF e
  <2> QED BY <2>4, <1>1, <1>2, <1>3, <1>5, <1>7 DEF List!Accept
<1> QED BY <1>6, <1>7

(* As long as malloc() gives memory the array of pointers keeps the list   *)
(* InputHistory promises: every step is a step of the list, or leaves it.  *)
THEOREM HistoryImplements == ASSUME MallocFails = FALSE PROVE Spec => ImplementsInputHistory
<1>1. Init => List!Init
  <2> SUFFICES ASSUME Init PROVE List!Init
    OBVIOUS
  <2>1. Inv /\ phase # "exited" /\ count = 0
    BY InvInit DEF Init
  <2>2. Entries \in Seq(Lines) /\ Len(Entries) = 0
    BY <2>1, EntriesAreListed
  <2>3. Entries = <<>>
    BY <2>2
  <2> QED BY <2>3 DEF Init, List!Init
<1>2. Inv /\ [Next]_vars => [List!Next \/ phase' = "exited"]_(List!vars)
  <2> SUFFICES ASSUME Inv, [Next]_vars
               PROVE  List!Next \/ phase' = "exited" \/ UNCHANGED List!vars
    OBVIOUS
  <2>1. CASE addhistory
    BY <2>1, AddStarts DEF List!Next
  <2>2. CASE simpleline
    BY <2>2 DEF simpleline, List!Next, List!Forget, Entries
  <2>3. ASSUME NEW t \in Lines, edit(t) PROVE List!Next
    BY <2>3 DEF edit, List!Next, List!Edit, Entries
  <2>4. ASSUME NEW delta \in {-HistoryMax, -1, 1, HistoryMax}, historymove(delta)
        PROVE  List!Next
    <3>1. delta \in Int
      BY HistoryAssumption
    <3> QED BY <3>1, <2>4, MoveMoves DEF List!Next
  <2>5. CASE replacehistory
    BY <2>5, ReplaceAccepts DEF List!Next
  <2>6. CASE give_up
    BY <2>6 DEF give_up, List!Next, List!GiveUp, Entries
  <2>7. CASE janet_line_deinit
    BY <2>7, DeinitKeeps
  <2>8. CASE UNCHANGED vars
    BY <2>8 DEF vars, List!vars, Entries
  <2> QED BY <2>1, <2>2, <2>3, <2>4, <2>5, <2>6, <2>7, <2>8 DEF Next
<1> QED BY <1>1, <1>2, SlotsStayOwned, PTL DEF Spec, ImplementsInputHistory
=============================================================================
