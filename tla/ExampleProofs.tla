--------------------------- MODULE ExampleProofs ---------------------------
(***************************************************************************)
(* Proofs about the two programs built on the bindings: DogViewer, for     *)
(* every number of downloads, every size of a picture and however often it *)
(* is started, and SampleApp, for any number of instances.                 *)
(***************************************************************************)
EXTENDS DogViewer, SampleApp, SequenceTheorems, TLAPS

Block == (Thread \X (1 .. Size)) \cup {Hole}

(* s is the first Len(s) blocks of t's picture. *)
Part(s, t) == \A i \in 1 .. Len(s) : s[i] = <<t, i>>

Fits(s) == s \in Seq(Block) /\ Len(s) <= Size

Pc == {"none", "asking", "dead", "getting", "got", "writing", "done"}

Types ==
  /\ starts \in 0 .. MaxStarts /\ running \in BOOLEAN
  /\ overlap \in BOOLEAN
  /\ gui \in [fn : {"none", "refresh", "get-new-dog", "close"}, read : Seq(Block)]
  /\ Fits(gui.read) /\ Fits(shown) /\ Fits(file)
  /\ thread \in [Thread -> [pc : Pc, buf : Seq(Block), pos : Nat]]

(* What a download has in memory, and how far it has come on the disk. *)
Downloads ==
  \A t \in Thread :
    /\ Len(thread[t].buf) <= Size /\ Part(thread[t].buf, t)
    /\ thread[t].pos <= Len(thread[t].buf)
    /\ thread[t].pc \notin {"writing", "done"} => thread[t].pos = 0

(* Before downloads met: who writes is alone, and the file is as long as   *)
(* what was written of its picture.                                        *)
Alone ==
  ~overlap =>
    /\ \A t, u \in Thread : writing(t) /\ writing(u) => t = u
    /\ \A t \in Thread : writing(t) => Len(file) = thread[t].pos /\ Part(file, t)
    /\ \E t \in Thread : Part(file, t)

(* The table of functions as show leaves it. *)
Wired == running => \A ih \in DOMAIN Callbacks : janet_iup_cbs[ih] = Callbacks[ih]

Inv == Types /\ Downloads /\ Alone /\ Wired

-----------------------------------------------------------------------------
LEMMA PartIsSubSeq ==
  ASSUME NEW s, Fits(s), NEW t \in Thread
  PROVE  Part(s, t) <=> s = SubSeq(Picture(t), 1, Len(s))
<1> DEFINE p == SubSeq(Picture(t), 1, Len(s))
<1>1. Len(s) \in Nat /\ Len(s) <= Size /\ Size \in Nat /\ s \in Seq(Block)
  BY DogAssumption DEF Fits
<1>2. \A i \in 1 .. Len(s) : Picture(t)[i] = <<t, i>> /\ Picture(t)[i] \in Block
  BY <1>1 DEF Picture, Block
<1>3. /\ p \in Seq(Block)
      /\ Len(p) = IF 1 <= Len(s) THEN Len(s) - 1 + 1 ELSE 0
      /\ \A i \in 1 .. Len(s) - 1 + 1 : p[i] = Picture(t)[1 + i - 1]
  BY <1>1, <1>2, SubSeqProperties
<1>4. \A i \in 1 .. Len(s) : i \in 1 .. Len(s) - 1 + 1 /\ 1 + i - 1 = i
  BY <1>1
<1>5. \A i \in 1 .. Len(s) : p[i] = <<t, i>>
  BY <1>2, <1>3, <1>4
<1>6. Len(p) = Len(s)
  BY <1>1, <1>3
<1> HIDE DEF p
<1>7. Part(s, t) => s = p
  BY <1>1, <1>3, <1>5, <1>6, SeqEqual DEF Part
<1>8. s = p => Part(s, t)
  BY <1>5 DEF Part
<1> QED BY <1>7, <1>8 DEF p

LEMMA EmptyFits == Fits(<<>>) /\ \A t : Part(<<>>, t)
  BY DogAssumption DEF Fits, Part

(* What IUP shows is what was loaded, what was there, or nothing. *)
LEMMA ShownIs ==
  ASSUME NEW f, NEW was, Fits(f), Fits(was),
         NEW image \in IupLoadImage(f), NEW new \in IupSetAttributeHandle(was, image)
  PROVE  Fits(new)
<1>1. image = NULL \/ image = <<f>>
  BY DEF IupLoadImage
<1>2. CASE image = NULL
  BY <1>2, EmptyFits DEF IupSetAttributeHandle
<1>3. CASE image # NULL
  <2>1. image[1] = f
    BY <1>1, <1>3
  <2> QED BY <1>3, <2>1 DEF IupSetAttributeHandle
<1> QED BY <1>2, <1>3

LEMMA CallbacksAre ==
  /\ DOMAIN Callbacks = {"timer", "button", "button2"}
  /\ Callbacks["timer"] = "refresh" /\ Callbacks["button"] = "get-new-dog"
  /\ Callbacks["button2"] = "close"
  BY DEF Callbacks

LEMMA InvInit == Init => Inv
<1> SUFFICES ASSUME Init PROVE Inv
  OBVIOUS
<1>1. Types
  <2>1. gui = [fn |-> "none", read |-> <<>>] /\ <<>> \in Seq(Block)
    BY EmptyFits DEF Init, Idle, Fits
  <2>2. gui.read = <<>> /\ gui \in [fn : {"none", "refresh", "get-new-dog", "close"}, read : Seq(Block)]
    BY <2>1
  <2>3. thread \in [Thread -> [pc : Pc, buf : Seq(Block), pos : Nat]]
    BY <2>1 DEF Init, NoThread, Pc
  <2>4. Fits(gui.read) /\ Fits(shown) /\ Fits(file)
    BY <2>2, EmptyFits DEF Init
  <2>5. starts \in 0 .. MaxStarts /\ running \in BOOLEAN /\ overlap \in BOOLEAN
    <3>1. starts = 0 /\ running = FALSE /\ overlap = FALSE
      BY DEF Init
    <3>2. starts \in 0 .. MaxStarts
      BY <3>1, DogAssumption
    <3> QED BY <3>1, <3>2
  <2> QED BY <2>2, <2>3, <2>4, <2>5 DEF Types
<1>2. Downloads
  <2>1. \A t \in Thread : thread[t].buf = <<>> /\ thread[t].pos = 0
    BY DEF Init, NoThread
  <2>2. Len(<<>>) = 0 /\ Size \in Nat
    BY DogAssumption
  <2>3. ASSUME NEW t \in Thread PROVE Part(thread[t].buf, t) /\ Len(thread[t].buf) = 0
    BY <2>1, EmptyFits DEF Part
  <2>4. ASSUME NEW t \in Thread
        PROVE  /\ Len(thread[t].buf) <= Size /\ thread[t].pos <= Len(thread[t].buf)
    BY <2>1, <2>2, <2>3, DogAssumption
  <2> QED BY <2>1, <2>3, <2>4 DEF Downloads
<1>3. Alone
  BY DogAssumption, EmptyFits DEF Init, Alone, NoThread, writing
<1>4. Wired
  BY DEF Init, Wired
<1> QED BY <1>1, <1>2, <1>3, <1>4 DEF Inv

-----------------------------------------------------------------------------
LEMMA ShowKeeps == ASSUME Inv, show PROVE Inv'
<1>1. /\ janet_iup_cbs' =
           LET cbs1 == iup_set_thunk_callback(<<>>, "timer", "refresh")
               cbs2 == iup_set_thunk_callback(cbs1, "button", "get-new-dog")
           IN  iup_set_thunk_callback(cbs2, "button2", "close")
      /\ starts' = starts + 1 /\ running' = TRUE /\ starts < MaxStarts
      /\ \E image \in IupLoadImage(file) : shown' \in IupSetAttributeHandle(<<>>, image)
      /\ UNCHANGED <<gui, thread, file, overlap>>
  BY DEF show
<1>2. \A ih \in {"timer", "button", "button2"} : janet_iup_cbs'[ih] = Callbacks[ih]
  <2> DEFINE cbs1 == iup_set_thunk_callback(<<>>, "timer", "refresh")
             cbs2 == iup_set_thunk_callback(cbs1, "button", "get-new-dog")
             cbs3 == iup_set_thunk_callback(cbs2, "button2", "close")
  <2>1. janet_iup_cbs' = cbs3
    BY <1>1
  <2>2. cbs1["timer"] = "refresh" /\ "timer" \in DOMAIN cbs1
    BY DEF iup_set_thunk_callback
  <2> HIDE DEF cbs1
  <2>3. /\ cbs2["button"] = "get-new-dog" /\ cbs2["timer"] = "refresh"
        /\ {"button", "timer"} \subseteq DOMAIN cbs2
    BY <2>2 DEF iup_set_thunk_callback
  <2> HIDE DEF cbs2
  <2>4. cbs3["button2"] = "close" /\ cbs3["button"] = "get-new-dog" /\ cbs3["timer"] = "refresh"
    BY <2>3 DEF iup_set_thunk_callback
  <2> QED BY <2>1, <2>4, CallbacksAre
<1>3. Types'
  <2>1. Fits(shown')
    BY <1>1, ShownIs, EmptyFits DEF Inv, Types
  <2>2. starts' \in 0 .. MaxStarts
    BY <1>1, DogAssumption DEF Inv, Types
  <2> QED BY <1>1, <2>1, <2>2 DEF Inv, Types, Fits
<1>4. Downloads' /\ Alone'
  BY <1>1 DEF Inv, Downloads, Alone, writing, Part
<1>6. Wired'
  BY <1>1, <1>2, CallbacksAre DEF Wired
<1> QED BY <1>3, <1>4, <1>6 DEF Inv

(* What the widgets' callbacks and the GUI do between two downloads. *)
LEMMA CallKeeps ==
  ASSUME Inv, NEW ih \in DOMAIN Callbacks, NEW name, janet_iup_universal_cb(ih, name)
  PROVE  Inv'
<1>1. /\ gui' = [Idle EXCEPT !.fn = janet_iup_cbs[ih]] /\ running
      /\ UNCHANGED <<program, shown, thread, file, overlap>>
  BY DEF janet_iup_universal_cb
<1>2. janet_iup_cbs[ih] = Callbacks[ih]
  BY <1>1 DEF Inv, Wired
<1>3. Callbacks[ih] \in {"refresh", "get-new-dog", "close"}
  BY CallbacksAre
<1>4. gui' = [fn |-> Callbacks[ih], read |-> <<>>]
  BY <1>1, <1>2 DEF Idle
<1>5. Types'
  <2>1. <<>> \in Seq(Block)
    BY EmptyFits DEF Fits
  <2>2. /\ gui'.read = <<>>
        /\ gui' \in [fn : {"none", "refresh", "get-new-dog", "close"}, read : Seq(Block)]
    BY <1>3, <1>4, <2>1
  <2> QED BY <2>2, <1>1, EmptyFits DEF Inv, Types, Fits, program
<1>6. Downloads' /\ Alone' /\ Wired'
  BY <1>1 DEF Inv, Downloads, Alone, writing, Part, Wired, program
<1> QED BY <1>4, <1>5, <1>6 DEF Inv

LEMMA CallbackKeeps == ASSUME Inv, callback PROVE Inv'
<1>1. CASE get_new_dog
  <2>1. PICK t \in Thread : thread[t].pc = "none" /\ goto(t, "asking")
    BY <1>1 DEF get_new_dog
  <2>2. /\ thread' = [thread EXCEPT ![t] = [thread[t] EXCEPT !.pc = "asking"]]
        /\ gui' = Idle /\ UNCHANGED <<program, shown, file, overlap>>
    BY <1>1, <2>1 DEF get_new_dog, goto, set
  <2>3. Types'
    BY <2>2, EmptyFits DEF Inv, Types, Fits, program, Idle, Pc
  <2>4. \A u \in Thread : /\ thread'[u].buf = thread[u].buf /\ thread'[u].pos = thread[u].pos
                          /\ thread'[u].pc = IF u = t THEN "asking" ELSE thread[u].pc
    BY <2>2 DEF Inv, Types
  <2>5. Downloads' /\ Alone' /\ Wired'
    BY <2>1, <2>2, <2>4 DEF Inv, Downloads, Alone, writing, Part, Wired, program
  <2> QED BY <2>3, <2>5 DEF Inv
<1>2. CASE load
  <2>1. /\ gui' = [gui EXCEPT !.read = Append(gui.read, file[Len(gui.read) + 1])]
        /\ Len(gui.read) < Len(file)
        /\ UNCHANGED <<program, shown, thread, file, overlap>>
    BY <1>2 DEF load
  <2>2. gui.read \in Seq(Block) /\ file \in Seq(Block) /\ Len(file) <= Size /\ Size \in Nat
    BY DogAssumption DEF Inv, Types, Fits
  <2>3. file[Len(gui.read) + 1] \in Block
    BY <2>1, <2>2
  <2>4. Fits(Append(gui.read, file[Len(gui.read) + 1]))
    BY <2>1, <2>2, <2>3 DEF Fits
  <2>5. Types'
    BY <2>1, <2>4 DEF Inv, Types, Fits, program
  <2>6. Downloads' /\ Alone' /\ Wired'
    BY <2>1 DEF Inv, Downloads, Alone, writing, Part, Wired, program
  <2> QED BY <2>5, <2>6 DEF Inv
<1>3. CASE redraw
  <2>1. /\ gui' = Idle /\ UNCHANGED <<program, thread, file, overlap>>
        /\ \E image \in IupLoadImage(gui.read) : shown' \in IupSetAttributeHandle(shown, image)
    BY <1>3 DEF redraw
  <2>2. Types'
    <3>1. Fits(shown')
      BY <2>1, ShownIs DEF Inv, Types
    <3> QED BY <2>1, <3>1, EmptyFits DEF Inv, Types, Fits, program, Idle
  <2>3. Downloads' /\ Alone' /\ Wired'
    BY <2>1 DEF Inv, Downloads, Alone, writing, Part, Wired, program
  <2> QED BY <2>2, <2>3 DEF Inv
<1>4. CASE close
  <2>1. /\ running' = FALSE /\ gui' = Idle /\ thread' = [t \in Thread |-> NoThread]
        /\ UNCHANGED <<starts, iup, janet_iup_cbs, shown, file, overlap>>
    BY <1>4 DEF close
  <2>2. Types'
    BY <2>1, EmptyFits DEF Inv, Types, Fits, Idle, NoThread, Pc
  <2>3. Downloads'
    BY <2>1, EmptyFits, DogAssumption DEF Downloads, NoThread
  <2>4. Alone'
    BY <2>1 DEF Inv, Alone, writing, NoThread, Part
  <2>5. Wired'
    BY <2>1 DEF Wired
  <2> QED BY <2>2, <2>3, <2>4, <2>5 DEF Inv
<1> QED BY <1>1, <1>2, <1>3, <1>4 DEF callback

-----------------------------------------------------------------------------
(* Where one download changes and nothing but its pc, to no place where it *)
(* writes.                                                                 *)
LEMMA GotoKeeps ==
  ASSUME Inv, NEW t \in Thread, NEW l \in Pc, goto(t, l),
         l \notin {"writing", "done"}, ~writing(t), thread[t].pc # "done",
         UNCHANGED <<program, gui, shown, file, overlap>>
  PROVE  Inv'
<1>1. thread' = [thread EXCEPT ![t] = [thread[t] EXCEPT !.pc = l]]
  BY DEF goto, set
<1>2. \A u \in Thread : /\ thread'[u].buf = thread[u].buf /\ thread'[u].pos = thread[u].pos
                        /\ thread'[u].pc = IF u = t THEN l ELSE thread[u].pc
  BY <1>1 DEF Inv, Types
<1>3. Types'
  BY <1>1 DEF Inv, Types, Fits, program
<1>4. Downloads' /\ Alone' /\ Wired'
  BY <1>2 DEF Inv, Downloads, Alone, writing, Part, Wired, program
<1> QED BY <1>3, <1>4 DEF Inv

LEMMA ReceiveKeeps == ASSUME Inv, NEW t \in Thread, dummy_callback(t) PROVE Inv'
<1> DEFINE b == Append(thread[t].buf, Picture(t)[Len(thread[t].buf) + 1])
<1>1. /\ thread[t].pc = "getting" /\ Len(thread[t].buf) < Size
      /\ thread' = [thread EXCEPT ![t] = [thread[t] EXCEPT !.buf = b]]
      /\ UNCHANGED <<program, gui, shown, file, overlap>>
  BY DEF dummy_callback, set
<1>2. /\ thread[t].buf \in Seq(Block) /\ Len(thread[t].buf) \in Nat /\ Size \in Nat
      /\ Part(thread[t].buf, t) /\ thread[t].pos <= Len(thread[t].buf) /\ thread[t].pos = 0
  <2>1. thread[t].buf \in Seq(Block) /\ Size \in Nat
    BY DogAssumption DEF Inv, Types
  <2>2. /\ Part(thread[t].buf, t) /\ thread[t].pos <= Len(thread[t].buf)
        /\ thread[t].pos = 0
    BY <1>1 DEF Inv, Downloads
  <2> QED BY <2>1, <2>2
<1>3. /\ Picture(t)[Len(thread[t].buf) + 1] = <<t, Len(thread[t].buf) + 1>>
      /\ Picture(t)[Len(thread[t].buf) + 1] \in Block
  BY <1>1, <1>2 DEF Picture, Block
<1>4. b \in Seq(Block) /\ Len(b) = Len(thread[t].buf) + 1 /\ Part(b, t)
  BY <1>2, <1>3 DEF Part
<1> HIDE DEF b
<1>5. \A u \in Thread : /\ thread'[u].buf = IF u = t THEN b ELSE thread[u].buf
                        /\ thread'[u].pos = thread[u].pos /\ thread'[u].pc = thread[u].pc
  BY <1>1 DEF Inv, Types
<1>6. Types'
  BY <1>1, <1>4 DEF Inv, Types, Fits, program
<1>7. Downloads'
  BY <1>1, <1>2, <1>4, <1>5, DogAssumption DEF Inv, Downloads
<1>8. Alone' /\ Wired'
  BY <1>1, <1>5 DEF Inv, Alone, writing, Part, Wired, program
<1> QED BY <1>6, <1>7, <1>8 DEF Inv

LEMMA OpenKeeps == ASSUME Inv, NEW t \in Thread, spit_open(t) PROVE Inv'
<1>1. /\ thread[t].pc = "got" /\ file' = <<>>
      /\ thread' = [thread EXCEPT ![t] = [thread[t] EXCEPT !.pc = "writing"]]
      /\ overlap' = (overlap \/ \E u \in Thread : writing(u))
      /\ UNCHANGED <<program, gui, shown>>
  BY DEF spit_open, goto, set
<1>2. \A u \in Thread : /\ thread'[u].buf = thread[u].buf /\ thread'[u].pos = thread[u].pos
                        /\ thread'[u].pc = IF u = t THEN "writing" ELSE thread[u].pc
  BY <1>1 DEF Inv, Types
<1>3. Types'
  <2>1. overlap' \in BOOLEAN
    BY <1>1 DEF Inv, Types
  <2>2. thread' \in [Thread -> [pc : Pc, buf : Seq(Block), pos : Nat]]
    BY <1>1 DEF Inv, Types, Pc
  <2> QED BY <1>1, <2>1, <2>2, EmptyFits DEF Inv, Types, program
<1>4. Downloads'
  BY <1>2 DEF Inv, Downloads
<1>5. Alone'
  <2> SUFFICES ASSUME ~overlap'
               PROVE  /\ \A u, v \in Thread : writing(u)' /\ writing(v)' => u = v
                      /\ \A u \in Thread : writing(u)' => Len(file') = thread'[u].pos /\ Part(file', u)
                      /\ \E u \in Thread : Part(file', u)
    BY DEF Alone, writing, Part
  <2>1. \A u \in Thread : ~writing(u)
    BY <1>1
  <2>2. \A u \in Thread : writing(u)' => u = t
    BY <1>2, <2>1 DEF writing
  <2>3. thread'[t].pos = 0
    BY <1>1, <1>2 DEF Inv, Downloads
  <2>4. Len(file') = 0 /\ \A u : Part(file', u)
    BY <1>1, EmptyFits
  <2> QED BY <2>2, <2>3, <2>4
<1>6. Wired'
  BY <1>1 DEF Inv, Wired, program
<1> QED BY <1>3, <1>4, <1>5, <1>6 DEF Inv

LEMMA WriteKeeps == ASSUME Inv, NEW t \in Thread, spit_write(t) PROVE Inv'
<1> DEFINE p == thread[t].pos + 1
           n == IF p > Len(file) THEN p ELSE Len(file)
           block(i) == CASE i = p -> thread[t].buf[p] [] i \in DOMAIN file \ {p} -> file[i] [] OTHER -> Hole
<1>1. /\ writing(t) /\ p <= Len(thread[t].buf)
      /\ file' = [i \in 1 .. n |-> block(i)]
      /\ thread' = [thread EXCEPT ![t] = [thread[t] EXCEPT !.pos = p]]
      /\ UNCHANGED <<program, gui, shown, overlap>>
  BY DEF spit_write, set
<1>2. /\ thread[t].buf \in Seq(Block) /\ Len(thread[t].buf) <= Size /\ Size \in Nat
      /\ Part(thread[t].buf, t) /\ thread[t].pos \in Nat
      /\ file \in Seq(Block) /\ Len(file) \in Nat /\ Len(file) <= Size
      /\ DOMAIN file = 1 .. Len(file) /\ \A i \in 1 .. Len(file) : file[i] \in Block
  BY DogAssumption, LenProperties DEF Inv, Types, Downloads, Fits
<1>3. p \in 1 .. Len(thread[t].buf) /\ n \in Nat /\ p \in 1 .. n /\ n <= Size
  BY <1>1, <1>2
<1>4. thread[t].buf[p] = <<t, p>> /\ thread[t].buf[p] \in Block
  BY <1>2, <1>3 DEF Part
<1>5. \A i \in 1 .. n : block(i) = IF i = p THEN thread[t].buf[p]
                                   ELSE IF i \in 1 .. Len(file) THEN file[i] ELSE Hole
  BY <1>2
<1> HIDE DEF block
<1>6. \A i \in 1 .. n : block(i) \in Block
  BY <1>2, <1>4, <1>5 DEF Block
<1> HIDE DEF n
<1>7. file' \in Seq(Block) /\ Len(file') = n /\ \A i \in 1 .. n : file'[i] = block(i)
  <2>1. file' \in [1 .. n -> Block]
    BY <1>1, <1>6
  <2>2. file' \in Seq(Block)
    BY <2>1, <1>3
  <2>3. Len(file') = n
    BY <2>1, <2>2, <1>3, LenProperties
  <2> QED BY <2>2, <2>3, <1>1
<1> HIDE DEF p
<1>8. \A u \in Thread : /\ thread'[u].buf = thread[u].buf /\ thread'[u].pc = thread[u].pc
                        /\ thread'[u].pos = IF u = t THEN p ELSE thread[u].pos
  BY <1>1 DEF Inv, Types
<1>9. Types'
  <2>1. p \in Nat
    BY <1>2 DEF p
  <2>2. thread' \in [Thread -> [pc : Pc, buf : Seq(Block), pos : Nat]]
    BY <1>1, <2>1 DEF Inv, Types
  <2>3. Fits(file')
    BY <1>3, <1>7 DEF Fits
  <2> QED BY <1>1, <2>2, <2>3 DEF Inv, Types, Fits, program
<1>10. Downloads'
  BY <1>1, <1>8 DEF Inv, Downloads, writing
<1>11. Alone'
  <2> SUFFICES ASSUME ~overlap'
               PROVE  /\ \A u, v \in Thread : writing(u)' /\ writing(v)' => u = v
                      /\ \A u \in Thread : writing(u)' => Len(file') = thread'[u].pos /\ Part(file', u)
                      /\ \E u \in Thread : Part(file', u)
    BY DEF Alone, writing, Part
  <2>1. ~overlap /\ \A u \in Thread : writing(u)' <=> writing(u)
    BY <1>1, <1>8 DEF writing
  <2>2. Len(file) = thread[t].pos /\ Part(file, t) /\ \A u \in Thread : writing(u) => u = t
    BY <1>1, <2>1 DEF Inv, Alone
  <2>3. n = p /\ Len(file) = p - 1
    BY <1>2, <2>2 DEF n, p
  <2>4. ASSUME NEW i \in 1 .. Len(file') PROVE file'[i] = <<t, i>>
    <3>1. i \in 1 .. n /\ (i = p \/ i \in 1 .. Len(file))
      BY <1>2, <1>3, <1>7, <2>3
    <3> QED BY <3>1, <1>4, <1>5, <1>7, <2>2 DEF Part
  <2>5. Len(file') = thread'[t].pos /\ Part(file', t)
    BY <1>7, <1>8, <2>3, <2>4 DEF Part
  <2>6. \A u, v \in Thread : writing(u)' /\ writing(v)' => u = v
    BY <2>1, <2>2
  <2>7. \A u \in Thread : writing(u)' => Len(file') = thread'[u].pos /\ Part(file', u)
    BY <2>1, <2>2, <2>5
  <2> QED BY <2>5, <2>6, <2>7
<1>12. Wired'
  BY <1>1 DEF Inv, Wired, program
<1> QED BY <1>9, <1>10, <1>11, <1>12 DEF Inv

LEMMA CloseKeeps == ASSUME Inv, NEW t \in Thread, spit_close(t) PROVE Inv'
<1>1. /\ thread[t].pc = "writing"
      /\ thread' = [thread EXCEPT ![t] = [thread[t] EXCEPT !.pc = "done"]]
      /\ UNCHANGED <<program, gui, shown, file, overlap>>
  BY DEF spit_close, goto, set, writing
<1>2. \A u \in Thread : /\ thread'[u].buf = thread[u].buf /\ thread'[u].pos = thread[u].pos
                        /\ thread'[u].pc = IF u = t THEN "done" ELSE thread[u].pc
  BY <1>1 DEF Inv, Types
<1>3. Types'
  BY <1>1 DEF Inv, Types, Fits, program, Pc
<1>4. Downloads' /\ Alone' /\ Wired'
  BY <1>1, <1>2 DEF Inv, Downloads, Alone, writing, Part, Wired, program
<1> QED BY <1>3, <1>4 DEF Inv

LEMMA DownloadKeeps == ASSUME Inv, NEW t \in Thread, download(t) PROVE Inv'
<1>1. CASE get_random_dog(t)
  BY <1>1, GotoKeeps DEF get_random_dog, writing, Pc
<1>2. CASE http_get(t)
  BY <1>2, GotoKeeps DEF http_get, writing, Pc
<1> QED BY <1>1, <1>2, ReceiveKeeps, OpenKeeps, WriteKeeps, CloseKeeps DEF download, spit

LEMMA InvStep == ASSUME Inv, [Next]_vars PROVE Inv'
<1>1. CASE find \/ finish \/ tick
  BY <1>1, CallKeeps, CallbacksAre DEF find, finish, tick
<1>2. CASE UNCHANGED vars
  BY <1>2 DEF vars, program, Inv, Types, Fits, Downloads, Alone, writing, Part, Wired
<1> QED BY <1>1, <1>2, ShowKeeps, CallbackKeeps, DownloadKeeps DEF Next

(* What the state of the viewer keeps to, whatever the network does. *)
THEOREM ViewerInvariant == Spec => []Inv
<1>1. Inv /\ [Next]_vars => Inv'
  BY InvStep
<1> QED BY <1>1, InvInit, PTL DEF Spec

(* For any number of downloads and starts: until two downloads have been   *)
(* writing at one time, dog.jpg is the beginning of one picture.           *)
THEOREM FileIsOnePicture == Spec => []OnePicture
<1>1. Inv => OnePicture
  BY PartIsSubSeq DEF Inv, Types, Alone, OnePicture
<1> QED BY <1>1, ViewerInvariant, PTL

(* The image, the file and what is in memory never outgrow a picture, and  *)
(* what a download has of one is its beginning.                            *)
THEOREM StaysTyped == Spec => []TypeOK
<1>1. Inv => TypeOK
  <2> SUFFICES ASSUME Inv PROVE TypeOK
    OBVIOUS
  <2>1. \A t \in Thread : /\ thread[t].pc \in Pc /\ thread[t].pos \in 0 .. Len(thread[t].buf)
                          /\ thread[t].buf = SubSeq(Picture(t), 1, Len(thread[t].buf))
    <3> TAKE t \in Thread
    <3>1. thread[t].pc \in Pc /\ thread[t].buf \in Seq(Block) /\ thread[t].pos \in Nat
      BY DEF Inv, Types
    <3>2. /\ thread[t].pos <= Len(thread[t].buf) /\ Len(thread[t].buf) <= Size
          /\ Part(thread[t].buf, t)
      BY DEF Inv, Downloads
    <3>3. thread[t].pos \in 0 .. Len(thread[t].buf)
      BY <3>1, <3>2
    <3>4. Fits(thread[t].buf)
      BY <3>1, <3>2 DEF Fits
    <3> QED BY <3>1, <3>2, <3>3, <3>4, PartIsSubSeq
  <2> QED BY <2>1 DEF Inv, Types, Fits, Pc, TypeOK
<1> QED BY <1>1, ViewerInvariant, PTL

-----------------------------------------------------------------------------
(* The sample application. *)
Stage  == {"off", "stat", "open", "select", "window"} \cup Creating
Making == {"create-table", "insert"}

AppTypes ==
  /\ db \in [exists : BOOLEAN, table : BOOLEAN, rows : {0, 1}]
  /\ main \in [Instance -> Stage]
  /\ server \in [Instance -> {"off", "bind", "serving"}]
  /\ client \in [Instance -> {"off", "sleep", "refused", "answered"}]
  /\ port \in Instance \cup {Nobody}
  /\ count = [p \in Instance |-> count[p]]
  /\ cut \in BOOLEAN

(* An instance that is off has left its server and its port behind. *)
PortInv ==
  \A p \in Instance :
    /\ main[p] = "off" => server[p] = "off"
    /\ server[p] = "serving" <=> port = p

(* The database grows: file, table, row.  The instance that made the table *)
(* is the one that adds the row, and there is one such instance.           *)
DbInv ==
  /\ db.table => db.exists
  /\ ~db.table => db.rows = 0
  /\ \A p \in Instance :
       /\ main[p] \in {"open", "select", "window"} \cup Making => db.exists
       /\ main[p] = "insert" => db.table /\ db.rows = 0
  /\ \A p, q \in Instance : main[p] = "insert" /\ main[q] = "insert" => p = q

(* A database without the row is in some instance's hands, or was cut. *)
InHand ==
  db.exists /\ ~cut /\ db.rows = 0 => \E p \in Instance : main[p] \in Making

AppInv == AppTypes /\ PortInv /\ DbInv /\ InHand

LEMMA AppInvInit == ASSUME AppInit PROVE AppInv
<1>1. AppTypes
  BY DEF AppInit, AppTypes, Stage
<1>2. PortInv
  BY SampleAssumption DEF AppInit, PortInv
<1>3. DbInv /\ InHand
  BY DEF AppInit, DbInv, InHand, Making
<1> QED BY <1>1, <1>2, <1>3 DEF AppInv

-----------------------------------------------------------------------------
(* One lemma for each action: it keeps the invariant. *)

LEMMA StartKeeps ==
  ASSUME AppInv, NEW p \in Instance, start(p) PROVE AppInv'
<1> USE DEF AppInv, start, moves
<1>1. main' = [main EXCEPT ![p] = "stat"] /\ main[p] = "off"
  OBVIOUS
<1>2. AppTypes'
  BY SampleAssumption DEF AppTypes, Stage
<1>3. PortInv'
  BY SampleAssumption DEF AppTypes, PortInv
<1>4. DbInv'
  BY DEF AppTypes, DbInv, Making
<1>5. InHand'
  BY DEF AppTypes, InHand, Making
<1> QED BY <1>2, <1>3, <1>4, <1>5

LEMMA DieKeeps ==
  ASSUME AppInv, NEW p \in Instance, main[p] # "off", die(p) PROVE AppInv'
<1> USE DEF AppInv, die, moves
<1>2. AppTypes'
  BY SampleAssumption DEF AppTypes, Stage
<1>3. PortInv'
  BY SampleAssumption DEF AppTypes, PortInv
<1>4. DbInv'
  BY DEF AppTypes, DbInv, Making
<1>5. InHand'
  <2> SUFFICES ASSUME db.exists, ~cut', db.rows = 0 PROVE \E q \in Instance : main'[q] \in Making
    BY DEF InHand
  <2>1. PICK q \in Instance : main[q] \in Making
    BY DEF InHand, AppTypes
  <2>2. q # p
    BY <2>1 DEF Making
  <2> QED BY <2>1, <2>2 DEF AppTypes
<1> QED BY <1>2, <1>3, <1>4, <1>5

LEMMA StatKeeps ==
  ASSUME AppInv, NEW p \in Instance, os_stat(p) PROVE AppInv'
<1> USE DEF AppInv, os_stat, moves
<1>2. AppTypes'
  BY DEF AppTypes, Stage, Creating
<1>3. PortInv'
  BY DEF AppTypes, PortInv
<1>4. DbInv'
  BY DEF AppTypes, DbInv, Making
<1>5. InHand'
  BY DEF AppTypes, InHand, Making
<1> QED BY <1>2, <1>3, <1>4, <1>5

LEMMA OpenDbKeeps ==
  ASSUME AppInv, NEW p \in Instance, sqlite3_open(p) PROVE AppInv'
<1> USE DEF AppInv, sqlite3_open, moves
<1>1. /\ db' \in [exists : BOOLEAN, table : BOOLEAN, rows : {0, 1}]
      /\ db'.exists /\ db'.table = db.table /\ db'.rows = db.rows
  BY DEF AppTypes
<1>2. AppTypes'
  BY <1>1 DEF AppTypes, Stage, Creating
<1>3. PortInv'
  BY DEF AppTypes, PortInv
<1>4. DbInv'
  BY <1>1 DEF AppTypes, DbInv, Making
<1>5. InHand'
  BY <1>1 DEF AppTypes, InHand, DbInv, Making
<1> QED BY <1>2, <1>3, <1>4, <1>5

LEMMA CreateKeeps ==
  ASSUME AppInv, NEW p \in Instance, create_table(p) PROVE AppInv'
<1> USE DEF AppInv, create_table, moves
<1>1. /\ db' \in [exists : BOOLEAN, table : BOOLEAN, rows : {0, 1}]
      /\ db'.exists = db.exists /\ db'.table /\ db'.rows = 0 /\ db.rows = 0
  BY DEF AppTypes, DbInv
<1>2. AppTypes'
  BY <1>1 DEF AppTypes, Stage, Creating
<1>3. PortInv'
  BY DEF AppTypes, PortInv
<1>4. DbInv'
  BY <1>1 DEF AppTypes, DbInv, Making
<1>5. InHand'
  BY DEF AppTypes, InHand, Making
<1> QED BY <1>2, <1>3, <1>4, <1>5

LEMMA InsertKeeps ==
  ASSUME AppInv, NEW p \in Instance, insert(p) PROVE AppInv'
<1> USE DEF AppInv, insert, moves
<1>1. /\ db' \in [exists : BOOLEAN, table : BOOLEAN, rows : {0, 1}]
      /\ db'.exists = db.exists /\ db'.table = db.table /\ db'.rows = 1
  BY DEF AppTypes, DbInv
<1>2. AppTypes'
  BY <1>1 DEF AppTypes, Stage
<1>3. PortInv'
  BY DEF AppTypes, PortInv
<1>4. DbInv'
  BY <1>1 DEF AppTypes, DbInv, Making
<1>5. InHand'
  BY <1>1 DEF InHand
<1> QED BY <1>2, <1>3, <1>4, <1>5

LEMMA SelectKeeps ==
  ASSUME AppInv, NEW p \in Instance, select_count(p) PROVE AppInv'
<1> USE DEF AppInv, select_count, moves
<1>2. AppTypes'
  BY DEF AppTypes, Stage
<1>3. PortInv'
  BY DEF AppTypes, PortInv
<1>4. DbInv'
  BY DEF AppTypes, DbInv, Making
<1>5. InHand'
  BY DEF AppTypes, InHand, Making
<1> QED BY <1>2, <1>3, <1>4, <1>5

LEMMA BindKeeps ==
  ASSUME AppInv, NEW p \in Instance, do_bind(p) PROVE AppInv'
<1>1. CASE port # Nobody
  <2>1. main[p] # "off"
    BY DEF do_bind, AppInv, PortInv, AppTypes
  <2> QED BY <1>1, <2>1, DieKeeps DEF do_bind
<1>2. CASE port = Nobody
  <2> USE <1>2 DEF AppInv, do_bind
  <2>2. AppTypes'
    BY DEF AppTypes
  <2>3. PortInv'
    BY SampleAssumption DEF AppTypes, PortInv
  <2>4. DbInv' /\ InHand'
    BY DEF DbInv, InHand
  <2> QED BY <2>2, <2>3, <2>4
<1> QED BY <1>1, <1>2

LEMMA GetIpKeeps ==
  ASSUME AppInv, NEW p \in Instance, get_ip(p) PROVE AppInv'
  BY DEF AppInv, get_ip, AppTypes, PortInv, DbInv, InHand

LEMMA AppStutters ==
  ASSUME AppInv, UNCHANGED appVars PROVE AppInv'
  BY DEF AppInv, appVars, threads, AppTypes, PortInv, DbInv, InHand

LEMMA AppInvNext ==
  ASSUME AppInv, [AppNext]_appVars PROVE AppInv'
<1>1. ASSUME NEW p \in Instance, start(p) PROVE AppInv'
  BY <1>1, StartKeeps
<1>2. ASSUME NEW p \in Instance, kill(p) PROVE AppInv'
  BY <1>2, DieKeeps DEF kill
<1>3. ASSUME NEW p \in Instance, exec_db(p) PROVE AppInv'
  <2>1. CASE os_stat(p) BY <2>1, StatKeeps
  <2>2. CASE sqlite3_open(p) BY <2>2, OpenDbKeeps
  <2>3. CASE create_table(p) BY <2>3, CreateKeeps
  <2>4. CASE insert(p) BY <2>4, InsertKeeps
  <2>5. CASE select_count(p) BY <2>5, SelectKeeps
  <2>6. CASE eval_throws(p)
    BY <2>6, DieKeeps DEF eval_throws, Evaluating
  <2> QED BY <1>3, <2>1, <2>2, <2>3, <2>4, <2>5, <2>6 DEF exec_db
<1>4. ASSUME NEW p \in Instance, do_bind(p) PROVE AppInv'
  BY <1>4, BindKeeps
<1>5. ASSUME NEW p \in Instance, get_ip(p) PROVE AppInv'
  BY <1>5, GetIpKeeps
<1>6. CASE UNCHANGED appVars
  BY <1>6, AppStutters
<1> QED BY <1>1, <1>2, <1>3, <1>4, <1>5, <1>6 DEF AppNext

LEMMA AppInvHolds == AppSpec => []AppInv
<1>1. AppInit => AppInv
  BY AppInvInit
<1>2. AppInv /\ [AppNext]_appVars => AppInv'
  BY AppInvNext
<1> QED BY <1>1, <1>2, PTL DEF AppSpec

-----------------------------------------------------------------------------
(* An instance that is off serves nothing, and the port belongs to the one *)
(* that serves.                                                            *)
THEOREM AppStaysTyped == AppSpec => []AppTypeOK
<1>1. AppInv => AppTypeOK
  BY DEF AppInv, AppTypes, PortInv, AppTypeOK, Stage
<1> QED BY <1>1, AppInvHolds, PTL

(* Any number of instances make one user between them (create-db). *)
THEOREM MakesOneUser == AppSpec => []OneUser
<1>1. AppInv => OneUser
  BY DEF AppInv, AppTypes, DbInv, OneUser
<1> QED BY <1>1, AppInvHolds, PTL

(* A database that no instance is making and none was cut off from making  *)
(* has its user (exec-db looks for the file only).                         *)
THEOREM IsWhole == AppSpec => []WholeUnlessCut
<1>1. AppInv => WholeUnlessCut
  BY DEF AppInv, AppTypes, InHand, WholeUnlessCut, Making, Creating
<1> QED BY <1>1, AppInvHolds, PTL

(* The user stays, and is what every instance counts. *)
THEOREM CountsTheUser == AppSpec => UserStays
<1>1. AppInv /\ [AppNext]_appVars =>
        [db.rows = 1 => db'.rows = 1 /\ \A p \in Instance : select_count(p) => count'[p] = 1]_appVars
  <2> SUFFICES ASSUME AppInv, [AppNext]_appVars, db.rows = 1
               PROVE db'.rows = 1 /\ \A p \in Instance : select_count(p) => count'[p] = 1
    OBVIOUS
  <2>1. db'.rows = 1
    BY DEF AppInv, AppTypes, DbInv, AppNext, appVars, threads, start, kill,
      die, exec_db, os_stat, sqlite3_open, create_table,
      insert, select_count, eval_throws, do_bind, get_ip
  <2>2. ASSUME NEW p \in Instance, select_count(p) PROVE count'[p] = 1
    <3>1. count' = [count EXCEPT ![p] = 1] /\ DOMAIN count = Instance
      BY <2>2 DEF AppInv, AppTypes, select_count
    <3> QED BY <3>1
  <2> QED BY <2>1, <2>2
<1> QED BY <1>1, AppInvHolds, PTL DEF AppSpec, UserStays
=============================================================================
