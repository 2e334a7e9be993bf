----------------------------- MODULE DogViewer -----------------------------
(***************************************************************************)
(* The dog viewer, examples/dog-gui.janet and dog-sdk.janet, with what it  *)
(* runs on: callbacks kept in a table (iup_wrap.c), downloads into a       *)
(* buffer (lib/net/curl.janet, curl_wrap_app.c), and the file dog.jpg.     *)
(*                                                                         *)
(* A button starts a thread that asks for the address of a picture, gets   *)
(* the picture and writes it over dog.jpg; a timer of the GUI loads the    *)
(* file and shows it.  Nothing but the file is shared.  A click on the     *)
(* picture ends the program, its threads with it, and it can be started    *)
(* again.  IUP, libcurl and the file system are external: a transfer stops *)
(* anywhere, and reading and writing go block by block.                    *)
(***************************************************************************)
EXTENDS Naturals, Sequences

CONSTANTS
  Thread,    \* downloads, each of a picture of its own: a bound on the clicks
  Size,      \* the blocks of a picture
  MaxStarts  \* a bound on how often the program is started

ASSUME DogAssumption == Thread # {} /\ Size \in Nat \ {0} /\ MaxStarts \in Nat \ {0}

VARIABLES
  starts,         \* how often the program was started
  running,        \* whether it is in IupMainLoop()
  iup,            \* the names of the callbacks IUP has for each widget
  janet_iup_cbs,  \* the functions behind them: by widget, whatever the name
  gui,            \* the callback the GUI runs, if any, and what it has read
  shown,          \* the blocks of the image on button2, none without one
  thread,         \* the downloads: see NoThread
  file,           \* the blocks of dog.jpg
  overlap         \* whether two downloads have been writing at one time

program == <<starts, running, iup, janet_iup_cbs>>
vars == <<program, gui, shown, thread, file, overlap>>

(* pc: what sdk/main does.  buf: the memory curl writes to.  pos: how far  *)
(* spit has come.                                                          *)
NoThread == [pc |-> "none", buf |-> <<>>, pos |-> 0]
Idle     == [fn |-> "none", read |-> <<>>]
Hole     == <<>>      \* a block nobody wrote
Picture(t) == [i \in 1 .. Size |-> <<t, i>>]
Whole(f) == \E t \in Thread : f = Picture(t)

writing(t) == thread[t].pc = "writing"
set(t, e)  == thread' = [thread EXCEPT ![t] = e]
goto(t, l) == set(t, [thread[t] EXCEPT !.pc = l])

-----------------------------------------------------------------------------
(* iup-set-thunk-callback: one function for each widget. *)
iup_set_thunk_callback(cbs, ih, f) ==
  [w \in DOMAIN cbs \cup {ih} |-> IF w = ih THEN f ELSE cbs[w]]

(* IupLoadImage() makes an image of a whole picture.  What it makes of an  *)
(* empty file, a cut or a mixed one is its own affair: an image of what    *)
(* there is, or NULL.                                                      *)
NULL == <<>>
IupLoadImage(f) == {<<f>>} \cup (IF Whole(f) THEN {} ELSE {NULL})

(* The image is set unchecked.  Given NULL, IUP leaves the button as it    *)
(* was or without an image.                                                *)
IupSetAttributeHandle(was, image) == IF image = NULL THEN {was, <<>>} ELSE {image[1]}

(* show: the three callbacks, and the picture of last time on a new button.*)
Callbacks == [timer |-> "refresh", button |-> "get-new-dog", button2 |-> "close"]

show ==
  /\ ~running /\ starts < MaxStarts
  /\ starts' = starts + 1 /\ running' = TRUE
  /\ iup' = [timer |-> {"ACTION_CB"}, button |-> {"ACTION"}, button2 |-> {"ACTION"}]
  /\ janet_iup_cbs' =
       LET cbs1 == iup_set_thunk_callback(<<>>, "timer", "refresh")
           cbs2 == iup_set_thunk_callback(cbs1, "button", "get-new-dog")
       IN  iup_set_thunk_callback(cbs2, "button2", "close")
  /\ \E image \in IupLoadImage(file) : shown' \in IupSetAttributeHandle(<<>>, image)
  /\ UNCHANGED <<gui, thread, file, overlap>>

(* janet_iup_universal_cb(): IUP calls back, the widget names the function. *)
janet_iup_universal_cb(ih, name) ==
  /\ running /\ gui = Idle /\ name \in iup[ih]
  /\ gui' = [Idle EXCEPT !.fn = janet_iup_cbs[ih]]
  /\ UNCHANGED <<program, shown, thread, file, overlap>>

tick   == janet_iup_universal_cb("timer", "ACTION_CB")
find   == janet_iup_universal_cb("button", "ACTION") /\ \E t \in Thread : thread[t].pc = "none"
finish == janet_iup_universal_cb("button2", "ACTION")

(* A mutant: the callback waits for what it started. *)
get_new_dog_here ==
  /\ gui.fn = "get-new-dog"
  /\ \/ \E t \in Thread : thread[t].pc = "none" /\ goto(t, "asking") /\ UNCHANGED gui
     \/ /\ \E t \in Thread : thread[t].pc \in {"done", "dead"}
        /\ gui' = Idle /\ UNCHANGED thread
  /\ UNCHANGED <<program, shown, file, overlap>>

(* get-new-dog: the function goes to a new thread, the callback is over. *)
get_new_dog ==
  /\ gui.fn = "get-new-dog" /\ gui' = Idle
  /\ \E t \in Thread : thread[t].pc = "none" /\ goto(t, "asking")
  /\ UNCHANGED <<program, shown, file, overlap>>

(* The timer's: the file is loaded, block by block, and shown. *)
load ==
  /\ gui.fn = "refresh" /\ Len(gui.read) < Len(file)
  /\ gui' = [gui EXCEPT !.read = Append(@, file[Len(@) + 1])]
  /\ UNCHANGED <<program, shown, thread, file, overlap>>

(* A mutant: an image is loaded where there is none. *)
redraw_once ==
  /\ gui.fn = "refresh" /\ Len(gui.read) >= Len(file)
  /\ shown' = (IF shown = <<>> THEN gui.read ELSE shown)
  /\ gui' = Idle
  /\ UNCHANGED <<program, thread, file, overlap>>

redraw ==
  /\ gui.fn = "refresh" /\ Len(gui.read) >= Len(file)
  /\ \E image \in IupLoadImage(gui.read) : shown' \in IupSetAttributeHandle(shown, image)
  /\ gui' = Idle
  /\ UNCHANGED <<program, thread, file, overlap>>

(* IUP_CLOSE is what the callback of the picture returns.  The values of   *)
(* the others are no integers and janet_unwrap_integer() makes none of     *)
(* them IUP_CLOSE.                                                         *)
close ==
  /\ gui.fn = "close" /\ gui' = Idle
  /\ running' = FALSE
  /\ thread' = [t \in Thread |-> NoThread]
  /\ UNCHANGED <<starts, iup, janet_iup_cbs, shown, file, overlap>>

-----------------------------------------------------------------------------
(* json-get and get: an answer that does not come, is cut off or has no    *)
(* "message" throws in the thread.                                         *)
get_random_dog(t) ==
  /\ thread[t].pc = "asking"
  /\ goto(t, "getting") \/ goto(t, "dead")
  /\ UNCHANGED <<program, gui, shown, file, overlap>>

(* dummy_callback(): a block is appended to the memory. *)
dummy_callback(t) ==
  /\ thread[t].pc = "getting" /\ Len(thread[t].buf) < Size
  /\ set(t, [thread[t] EXCEPT !.buf = Append(@, Picture(t)[Len(@) + 1])])
  /\ UNCHANGED <<program, gui, shown, file, overlap>>

(* http-get: the transfer is over, or has failed, or realloc() has.  Which *)
(* of them is in res-status, and nobody looks.                             *)
http_get(t) ==
  /\ thread[t].pc = "getting"
  /\ goto(t, "got")
  /\ UNCHANGED <<program, gui, shown, file, overlap>>

(* A mutant: the file is not emptied. *)
spit_open_keeps(t) ==
  /\ thread[t].pc = "got"
  /\ goto(t, "writing")
  /\ overlap' = (overlap \/ \E u \in Thread : writing(u))
  /\ UNCHANGED <<program, gui, shown, file>>

(* spit: the file is emptied, written and closed. *)
spit_open(t) ==
  /\ thread[t].pc = "got"
  /\ goto(t, "writing") /\ file' = <<>>
  /\ overlap' = (overlap \/ \E u \in Thread : writing(u))
  /\ UNCHANGED <<program, gui, shown>>

spit_write(t) ==
  LET p == thread[t].pos + 1 IN
  /\ writing(t) /\ p <= Len(thread[t].buf)
  /\ file' = [i \in 1 .. (IF p > Len(file) THEN p ELSE Len(file)) |->
       CASE i = p -> thread[t].buf[p] [] i \in DOMAIN file \ {p} -> file[i] [] OTHER -> Hole]
  /\ set(t, [thread[t] EXCEPT !.pos = p])
  /\ UNCHANGED <<program, gui, shown, overlap>>

spit_close(t) ==
  /\ writing(t) /\ thread[t].pos = Len(thread[t].buf)
  /\ goto(t, "done")
  /\ UNCHANGED <<program, gui, shown, file, overlap>>

-----------------------------------------------------------------------------
Init ==
  /\ starts = 0 /\ running = FALSE
  /\ iup = [ih \in DOMAIN Callbacks |-> {}]
  /\ janet_iup_cbs = <<>>
  /\ gui = Idle
  /\ shown = <<>> /\ file = <<>>
  /\ thread = [t \in Thread |-> NoThread]
  /\ overlap = FALSE

callback == get_new_dog \/ load \/ redraw \/ close
spit(t)  == spit_open(t) \/ spit_write(t) \/ spit_close(t)
download(t) == get_random_dog(t) \/ dummy_callback(t) \/ http_get(t) \/ spit(t)

Next ==
  \/ show \/ find \/ finish \/ tick
  \/ callback
  \/ \E t \in Thread : download(t)

(* The timer runs, a callback goes on, and so does a thread that writes.   *)
(* The network owes nobody anything.                                       *)
Spec ==
  /\ Init /\ [][Next]_vars
  /\ WF_vars(tick) /\ WF_vars(callback)
  /\ \A t \in Thread : WF_vars(spit(t))

-----------------------------------------------------------------------------
TypeOK ==
  /\ starts \in 0 .. MaxStarts
  /\ gui.fn \in {"none", "refresh", "get-new-dog", "close"}
  /\ Len(shown) <= Size /\ Len(file) <= Size
  /\ \A t \in Thread :
       /\ thread[t].pc \in {"none", "asking", "dead", "getting", "got", "writing", "done"}
       /\ thread[t].buf = SubSeq(Picture(t), 1, Len(thread[t].buf))
       /\ thread[t].pos \in 0 .. Len(thread[t].buf)

(* dog.jpg is the beginning of one picture whenever it is read, also by a  *)
(* program that is started after another was closed in the middle of a     *)
(* download, as long as no two downloads have written at one time.         *)
OnePicture ==
  overlap \/ \E t \in Thread : file = SubSeq(Picture(t), 1, Len(file))

(* A picture is fetched "in a new thread to avoid locking GUI"             *)
(* (dog-gui.janet): every callback comes back, although the network may    *)
(* never answer and the file may be emptied and written while it is read.  *)
NeverLocked == []<>(gui = Idle)

(* The picture is shown "in a timer" (dog-gui.janet): however reads and    *)
(* writes fell together, and whatever IUP made of what was read between    *)
(* them, a whole picture in the file is the one that is shown in the end.  *)
ShowsTheFile == <>[](running /\ Whole(file) => shown = file)
=============================================================================
