---------------------------- MODULE LineHistory ----------------------------
(***************************************************************************)
(* The history of super.c as it is stored: gbl_history, an array of        *)
(* pointers to lines that sdup() allocated, gbl_history_count of them in   *)
(* use, and gbl_historyi, the slot the edited line came from.              *)
(*                                                                         *)
(* heap is the allocator: Unused where nothing is allocated, else the line *)
(* the block holds.  A free() or a string read through a pointer that is   *)
(* not allocated has no defined outcome: the model stops there.            *)
(***************************************************************************)
EXTENDS Integers, Sequences, FiniteSets

CONSTANTS
  HistoryMax,  \* JANET_HISTORY_MAX
  Lines,       \* the lines gbl_buf can hold
  Empty,       \* the empty one
  Ptr,         \* the addresses malloc() can return
  Null,        \* the null pointer
  Unused,      \* no block is allocated at this address
  MallocFails  \* malloc() may return Null

ASSUME HistoryAssumption ==
  /\ HistoryMax \in Nat /\ HistoryMax >= 2
  /\ Empty \in Lines /\ Unused \notin Lines
  /\ Null \notin Ptr
  /\ MallocFails \in BOOLEAN

VARIABLES
  history,   \* gbl_history
  count,     \* gbl_history_count
  historyi,  \* gbl_historyi
  line,      \* the text in gbl_buf
  heap,
  phase      \* where the process is with respect to line()

vars == <<history, count, historyi, line, heap, phase>>

Slot == 0 .. HistoryMax - 1

TypeOK ==
  /\ history \in [Slot -> Ptr \cup {Null}]
  /\ count \in -1 .. HistoryMax
  /\ historyi \in Slot
  /\ line \in Lines
  /\ heap \in [Ptr -> Lines \cup {Unused}]
  /\ phase \in {"idle", "editing", "undefined", "exited"}

-----------------------------------------------------------------------------
(* The allocator. *)

Allocated(h, p) == p \in Ptr /\ h[p] # Unused

(* What free(p) needs, and what it does. *)
CanFree(h, p)  == p = Null \/ Allocated(h, p)
Freed(h, p)    == IF p = Null THEN h ELSE [h EXCEPT ![p] = Unused]

(* What sdup() may return, and the block it leaves there. *)
Fresh(h)       == {p \in Ptr : h[p] = Unused} \cup (IF MallocFails THEN {Null} ELSE {})
sdup(h, p, t)  == IF p = Null THEN h ELSE [h EXCEPT ![p] = t]

Undefined == phase' = "undefined" /\ UNCHANGED <<history, count, historyi, line, heap>>

-----------------------------------------------------------------------------
(* Slot 0 takes p and the n - 1 slots before slot n move up by one. *)
Shifted(n, p) ==
  [i \in Slot |-> IF i = 0 THEN p ELSE IF i < n THEN history[i - 1] ELSE history[i]]

(* Slot 0 goes and the others in use move down by one. *)
Dropped == [i \in Slot |-> IF i + 1 < count THEN history[i + 1] ELSE history[i]]

(* janet_line_get() and the start of line(): the buffer is emptied and     *)
(* pushed by addhistory(), over the oldest entry when every slot is used.  *)
addhistory ==
  /\ phase = "idle" /\ phase' = "editing"
  /\ historyi' = 0
  /\ line' = Empty
  /\ \E p \in Fresh(heap) :
       IF p = Null
       THEN UNCHANGED <<history, count, heap>>
       ELSE IF count < HistoryMax
       THEN /\ history' = Shifted(count + 1, p)
            /\ count' = count + 1
            /\ heap' = sdup(heap, p, Empty)
       ELSE /\ history' = Shifted(HistoryMax, p)
            /\ heap' = Freed(sdup(heap, p, Empty), history[HistoryMax - 1])
            /\ UNCHANGED count

(* janet_line_get() where line() cannot be used. *)
simpleline ==
  /\ phase = "idle"
  /\ historyi' = 0
  /\ UNCHANGED <<history, count, line, heap, phase>>

(* The keys that change the text: TextField says how. *)
edit(t) ==
  /\ phase = "editing"
  /\ line' = t
  /\ UNCHANGED <<history, count, historyi, heap, phase>>

Clamped(i) == IF i < 0 THEN 0 ELSE IF i >= count THEN count - 1 ELSE i

(* A mutant: the slot is overwritten and its block is not freed. *)
historymove_leaks(delta) ==
  /\ phase = "editing" /\ count > 1
  /\ \E p \in Fresh(heap) :
       /\ history' = [history EXCEPT ![historyi] = p]
       /\ heap' = sdup(heap, p, line)
       /\ historyi' = Clamped(historyi + delta)
       /\ line' = heap'[history'[historyi']]
       /\ UNCHANGED <<count, phase>>

(* A mutant: what was typed is not written back. *)
historymove_forgets(delta) ==
  /\ phase = "editing" /\ count > 1
  /\ historyi' = Clamped(historyi + delta)
  /\ line' = heap[history[historyi']]
  /\ UNCHANGED <<history, count, heap, phase>>

(* The current line replaces the slot it came from before the other slot   *)
(* is copied into the buffer.                                              *)
historymove(delta) ==
  /\ phase = "editing" /\ count > 1
  /\ IF ~CanFree(heap, history[historyi])
     THEN Undefined
     ELSE LET h == Freed(heap, history[historyi]) IN
       \E p \in Fresh(h) :
         /\ history' = [history EXCEPT ![historyi] = p]
         /\ heap' = sdup(h, p, line)
         /\ historyi' = Clamped(historyi + delta)
         /\ UNCHANGED count
         /\ IF Allocated(heap', history'[historyi'])
            THEN line' = heap'[history'[historyi']] /\ UNCHANGED phase
            ELSE phase' = "undefined" /\ UNCHANGED line

(* Enter: replacehistory() decides whether the line stays in slot 0. *)
replacehistory ==
  /\ phase = "editing"
  /\ IF \/ ~CanFree(heap, history[0])
        \/ line # Empty /\ count > 1 /\ ~Allocated(heap, history[1])
     THEN Undefined
     ELSE
       /\ phase' = "idle"
       /\ UNCHANGED <<historyi, line>>
       /\ IF line = Empty \/ (count > 1 /\ line = heap[history[1]])
          THEN /\ heap' = Freed(heap, history[0])
               /\ history' = Dropped
               /\ count' = count - 1
          ELSE \E p \in Fresh(heap) :
               /\ heap' = IF p = Null THEN heap
                          ELSE Freed(sdup(heap, p, line), history[0])
               /\ history' = IF p = Null THEN history ELSE [history EXCEPT ![0] = p]
               /\ UNCHANGED count

(* line() gives up: Ctrl-c, Ctrl-d on an empty line, the end of the input. *)
give_up ==
  /\ phase = "editing" /\ phase' = "idle"
  /\ UNCHANGED <<history, count, historyi, line, heap>>

(* The slots in use are freed when the program ends. *)
janet_line_deinit ==
  /\ phase = "idle"
  /\ LET used == {history[i] : i \in 0 .. count - 1}
     IN  IF \/ \E p \in used : ~CanFree(heap, p)
            \/ \E i, j \in 0 .. count - 1 : i # j /\ history[i] = history[j] /\ history[i] # Null
         THEN Undefined
         ELSE /\ phase' = "exited"
              /\ historyi' = 0
              /\ heap' = [p \in Ptr |-> IF p \in used THEN Unused ELSE heap[p]]
              /\ UNCHANGED <<history, count, line>>

-----------------------------------------------------------------------------
Init ==
  /\ history = [i \in Slot |-> Null]
  /\ count = 0
  /\ historyi = 0
  /\ line = Empty
  /\ heap = [p \in Ptr |-> Unused]
  /\ phase = "idle"

(* A count of -1 makes addhistory() write in front of the array: nothing   *)
(* after that has a meaning.                                               *)
Next ==
  /\ count >= 0
  /\ \/ addhistory \/ simpleline
     \/ \E t \in Lines : edit(t)
     \/ \E delta \in {-HistoryMax, -1, 1, HistoryMax} : historymove(delta)
     \/ replacehistory
     \/ give_up
     \/ janet_line_deinit

Spec == Init /\ [][Next]_vars

-----------------------------------------------------------------------------
Live == {p \in Ptr : heap[p] # Unused}
Used == {history[i] : i \in 0 .. count - 1}

(* Each block has exactly one owner: the slots in use hold different       *)
(* blocks, all of them allocated, and no other block is.  So nothing is    *)
(* freed twice, nothing is read after it was freed, and nothing leaks, not *)
(* even at the end of the program.                                         *)
OneOwner ==
  /\ phase # "undefined"
  /\ phase \in {"idle", "editing"} =>
       /\ Used = Live
       /\ Cardinality(Used) = count
  /\ phase = "exited" => Live = {}

(* The array and the allocator together are the list of lines. *)
Entries ==
  [i \in 1 .. (IF phase = "exited" THEN 0 ELSE count) |-> heap[history[i - 1]]]

List == INSTANCE InputHistory
          WITH entries <- Entries, at <- historyi, open <- phase = "editing"

(* Until the program ends, the pointer code keeps the list InputHistory    *)
(* promises: no shift or replacement loses, repeats or reorders an entry.  *)
ImplementsInputHistory == List!Init /\ [][List!Next \/ phase' = "exited"]_(List!vars)
=============================================================================
