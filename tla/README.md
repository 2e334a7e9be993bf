# Verification of puny-gui

puny-gui is a Janet runtime for small desktop programs: a C program (`super.c`, `app.c`)
that registers bindings with the Janet virtual machine and starts a script, the line
editor of its REPL, bindings to SQLite, IUP and curl, a JSON codec, an HTTP server, and the
Janet modules on top of them. This directory holds TLA+ models of the parts written by
hand, the TLC runs that check them on small instances, and proofs that TLAPS checks for
every instance.

## The system

| Part | Source | State | Operations | What is hard |
|---|---|---|---|---|
| Edited line | `super.c` 265-287, 342-411, 588-777 | `gbl_buf`, `gbl_len`, `gbl_pos` | one handler per key | a terminated C array edited in place by eighteen handlers, several of which rely on a terminator another one stored |
| Screen row | `super.c` 221-252, 265-287 | `gbl_plen`, `gbl_cols`, the terminal's row and cursor | `refresh()`, the shortcut of `insert()` | two ways to paint that must agree; a window that follows the cursor |
| History | `super.c` 289-340, 783-789 | `gbl_history`, `gbl_history_count`, `gbl_historyi`, the heap | `addhistory`, `historymove`, `replacehistory`, `janet_line_deinit` | ownership of blocks across shifts and replacements, the array at its limit, `malloc()` failing |
| Completion | `super.c` 439-586 | `gbl_matches`, `gbl_match_count`, `gbl_lines_below` | `kshowcomp` and its helpers | an array at its limit, hash order, rows counted under the line |
| Keys and terminal | `super.c` 150-173, 588-830 | the terminal's settings, `gbl_termios_start`, `gbl_israwmode`, `gbl_sigint_flag` | `janet_line_get`, `line`, `rawmode`, `norawmode` | sequences that arrive byte by byte, stop and continue, other programs on the same terminal, errors in the middle |
| SQLite binding | `sqlite3/main.c` | a connection handle, a prepared statement chain | `open`, `close`, `eval`, `last-insert-rowid`, `error-code` | several statements in one text, an error half way, a handle closed by hand and by the collector |
| JSON codec | `json/json.c` | a cursor into the text; the output buffer | `decode`, `encode` | round trips, surrogates, nesting, partial output on an error |
| HTTP server | `circlet/circlet.c`, `circlet_lib.janet`, the parts of `circlet/mongoose.c` they run on | the manager, its connections and their buffers, one fiber | `manager`, `bind-http`, `poll`, `send_http`, the Janet middleware | requests cut up anywhere and behind each other, clients that leave, one fiber for all connections, a handler that throws or yields, connections closed while replies are under way |
| IUP binding | `iup_wrap.c` 137-303 | one table of callbacks | `IupSetThunkCallback`, the universal callback | callbacks keyed by handle |
| curl binding | `curl_wrap_app.c` 140-161, 11995-12096, `lib/net/curl.janet` | a growing response buffer | the write callback, download helpers | results that are not looked at |
| Dog viewer | `examples/dog-gui.janet`, `examples/dog-sdk.janet` | a window, threads, `dog.jpg` | three callbacks, a download | a timer that reads the file threads write, and a click that ends them |
| Sample application | `app.janet`, `auctions.janet`, `standalone.janet` | three threads, `dummy.db`, port 8000 | `exec-db`, `create-db`, the server, a client of it | instances started together that share the file and the port, and end anywhere |

The parts meet in the Janet VM: each binding is a set of C functions it calls, and only IUP
and the HTTP server call back. Concurrency comes from outside: bytes and signals that reach
the editor between any two reads, threads (the sample programs start them with
`thread/new`) with connections to one database, clients of the HTTP server, the callbacks of
the two event loops, and other processes that use the same terminal, file or port. All of
these are modelled. The two programs in the repository compose the bindings: the dog viewer
IUP, curl and the file system, the sample application SQLite, the HTTP server and curl.

What makes each part correct:

- **Edited line, screen row.** The array is a terminated string whose length is the
  counter; the row on screen is a stretch of it around the cursor; every key edits the text
  as its name says.
- **History.** Each heap block has one owner; the newest entry is the line Enter returned;
  shifts, replacements and the limit lose or repeat nothing else.
- **Completion.** The array holds the smallest matches whatever the order of the tables;
  Tab adds what the matches have in common; the cursor comes back to the line from the list
  under it, and no row of the list is left uncounted.
- **Keys and terminal.** What begins with ESC acts once, on the last byte the decoder takes of
  it; outside of `line()` the terminal has the settings everybody else relies on.
- **SQLite.** A text's statements are run in order, each once; whatever fails, nothing the
  library allocated is left behind or released twice; an eval ends.
- **JSON.** What is decoded is JSON up to its first zero byte and all JSON is decoded; what is encoded comes back; a
  caller's buffer is appended to.
- **HTTP server.** Requests are handled in order, once, with their bodies, however they
  arrive; a reply goes to the connection that asked; it is sent before the connection is
  closed; every request and every connection of a client that reads on comes to an end.
- **Dog viewer.** The file is one picture; a picture that is whole in the file is shown in the
  end; no callback keeps the GUI.
- **Sample application.** The database has its user once and keeps it; an instance comes up
  or ends.

## Modules

| Module | What it is | Uses |
|---|---|---|
| `TextField` | what an edited line promises: a text, a cursor, and the keys on them | |
| `LineBuffer` | the code of it: `gbl_buf`, `gbl_len`, `gbl_pos`, the row on screen | refines `TextField` |
| `LineBufferProofs` | theorems about `LineBuffer`: the array, the row, and that it implements `TextField` | |
| `InputHistory` | what a history promises: a list, newest first, and a current entry | |
| `LineHistory` | the code of it: the pointer array and the allocator | refines `InputHistory` |
| `LineEditor` | `janet_line_get()` and `line()`: the decoder, raw mode, stops, errors | composes `TextField` and `InputHistory` |
| `Completion` | Tab: `kshowcomp()` and what it calls, `clearlines()` | |
| `CompletionProofs` | theorems about `Completion` | |
| `SqlSession` | what `sqlite3/eval` promises threads that share a database | |
| `SqlEval` | the code of it: handles and `sql_eval()`, one action per library call | refines `SqlSession` |
| `SqlEvalProofs` | theorems about `SqlEval` | |
| `LineHistoryProofs`, `LineEditorProofs` | theorems about `LineHistory` and `LineEditor` | |
| `JsonCodec` | `json/encode` and `json/decode`, token by token | |
| `JsonString` | strings in JSON, byte by byte: UTF-8, escapes, surrogates | |
| `JsonProofs` | theorems about `JsonCodec` and `JsonString` | both |
| `Circlet` | the HTTP server: clients, the kernel's buffers, the poll loop, the fiber | |
| `CircletProofs` | theorems about `Circlet` | |
| `DogViewer` | the dog viewer on the table of callbacks and the download buffer | |
| `SampleApp` | instances of the sample application on one machine | builds on what `SqlEval` and `Circlet` show |
| `ExampleProofs` | theorems about `DogViewer` and `SampleApp` | both, each with variables of its own |
| `MCJson` | an instance that has `JsonCodec` and `JsonString` side by side | both |
| other `MC...` | instances for TLC: constants and symmetry only | |

### The line (`TextField`, `LineBuffer`)

`buf`, `len`, `pos` are `gbl_buf`, `gbl_len`, `gbl_pos`; `plen`, `cols` are `gbl_plen`,
`gbl_cols`; `row`, `col` are what the terminal shows and where its cursor is, with `Wild`
for a row painted from a negative byte count. The array is a function on `0 .. LineMax - 1`,
and `memmove()`, `store`, `strlenIs` are the C operations on it, so a byte left behind the
terminator stays there until something overwrites it. Every handler is an action and ends,
as in the code, with the `refresh()` it calls; `insert()` is the one that may paint a
character without it. Words inserted by completion and lines recalled from the history come
in as constants (`Words`, `Recall`). `TextField` says the same keys on a sequence; the
mapping is `text <- [i \in 1 .. len |-> buf[i - 1]]`.

### The history (`InputHistory`, `LineHistory`)

`history` is the array of pointers, `heap` the allocator: a block holds a line or is
`Unused`. `sdup()` may fail when `MallocFails` says so. `phase` is where `janet_line_get()`
is; a `free()` of a block that is not allocated leads to `"undefined"`. The mapping reads
the array through the heap. Only `janet_line_deinit()`, the end of the program, has no
counterpart.

### The editor (`LineEditor`)

`text`, `pos` and `entries`, `at` are the two abstract modules' state, through the
instances `Field` and `Hist`; handlers call their actions. `pending` holds the bytes of a
key that have not been read, so that an interrupt, a stop, an error or the end of the input
comes between any two of them; `key` is what was sent since `line()` last waited for a key,
so that a sequence cut off behind its ESC goes on with what the next key sends. `tty` is what the terminal has, `outside` what everyone but
the editor believes it has: other programs change both while the editor is not in raw mode.
`saved` and `israw` are `gbl_termios_start` and `gbl_israwmode`. What `raise(SIGINT)` does is
up to the program's handler, so both outcomes are open.

### Completion (`Completion`)

A symbol is a sequence of numbers, so that order and prefix mean what they mean for C
strings. A walk takes the tables of the chain in order and each table's symbols in any
order; `check_match()` is one action, with the insertion sort whole.

The screen has `Height` rows and a cursor in one of them (`row`), which stops at its edges
(`DownUp`) and scrolls with a newline. `rows` counts the rows under the cursor the list really
takes, `below` is `gbl_lines_below`: `list` and `clearlines` are the only ones that set the
latter, while Ctrl-L, the newline behind a line that failed, and whoever writes between two
lines or while the editor is stopped change the former. `printed` says what the screen was left
with: a list that fitted and nothing since (`"whole"`), one that others have written over
(`"old"`), or one that is taller or wider than the screen, or has lost rows to a clearing that
met an edge (`"torn"`), about which nothing is promised.

### SQLite (`SqlSession`, `SqlEval`)

A database is the set of its tables, because that is what decides whether a statement
compiles. `db`, `conns`, `lost` are a thread's handle, its connection, and connections kept
for nobody. `eval[t]` is the frame of `sql_eval()`: where it is, the text and the place in
it, the two statement pointers by the index of the statement they name (0 for NULL).
`prepared[t]` is what the library keeps. Every call of the library is an action of its own,
so another thread's calls come between any two, and every one of them may find the database
busy. The mapping: what a thread has still to run is the rest of its text behind the
statements that were run; what it ran last is the last of them.

### JSON (`JsonCodec`, `JsonString`)

A text is a sequence of tokens; a value is nil, an atom, an array or a table (`Built`, over
values one level less deep). A call of `json/decode` or `json/encode` is one action; `flags`
are the two flags of the arguments. `decode_one()` and `encode_one()` are recursive in C and
bounded by the depth, so here they are functions of the depth: `decode_one(t)[n][p]` is what
the code gives at place `p` of the text when it may go `n` deep, and `encode_one(lay)[n][x][e]`
what becomes of the encoder `e` with a value `x` nested `n` deep. The loops over the parts of
an array or object are functions of the number of turns (`decode_parts`, `encode_parts`), and
a turn is `decode_item` or `decode_member`, `encode_item` or `encode_member`. Only
`JANET_RECURSION_GUARD` (`Guard`) limits the decoder, and nothing the encoder; `Deep` is the
bound on the values of the model. What a text has to be is said without any of this by a
grammar (`JsonOver`): which stretches of a text are a value, by brackets, commas and white
space; `IsNearJson` lets a comma stand before a closing bracket and a zero byte (`Eos`) end
the text, as the code does.
`JsonString` has one action per turn of the loops in `encode_string()` and
`decode_string()`: it takes bytes and code points apart with `\div` and `%` where the code
shifts and masks. `IsUtf8` is the definition of UTF-8 by its bytes (which may begin a
character, which may follow it), independent of how the code takes characters apart.

### The HTTP server (`Circlet`)

A byte is a token: a line that begins a request, a header, the blank line that ends a head,
a piece of a body, junk. `ScriptAssumption` says what clients send: requests, the last one
possibly unfinished, and then possibly junk (`Framed`: a request begins where the one before
has ended). `script` is what a client will send, `net` what the kernel has of
it, `recv_mbuf` what mongoose has received; so a request reaches `mg_http_handler()` in any
pieces, also together with the next one. `active` is the manager's list, `pass`, `ready` and
`step` are where `mg_socket_if_poll()` is in its walk over it: every connection is received
from, parsed, written to and closed in steps of its own, with clients between any two.
`http_handler()` resumes the fiber (`janet_continue`) and sends what comes out (`send_http`):
a number is answered with 500, a table of the wrong types with nothing, and a fiber that
threw stays dead. A handler is what it does (`Result`): it returns a table or a number,
throws, or yields. A reply is written to `out` also when the request is handled in
`MG_EV_CLOSE`, where nobody will send it any more. `room` is how many replies the socket of a
connection can still take to their end, `Rooms` how many before its client reads anything;
`Read` makes room, and only a socket with room, or a broken one, is ready for `send`.
`mg_accept_conn()`, `mg_do_recv()`, `mg_if_poll()`, `mg_close_conn()`,
`mg_parse_http()` and the handler for `MG_EV_RECV` and `MG_EV_CLOSE` are mapped to the lines
of `mongoose.c`.

### The dog viewer (`DogViewer`)

`janet_iup_cbs` is the table of `iup_wrap.c`, keyed by widget; `gui` the callback that the
GUI runs. `IupLoadImage()` makes an image of a whole picture; of anything else it makes one or
gives NULL, which the program sets as the image unchecked, so that the button keeps the image
it had or has none. Each click starts a download `t`, whose `buf` is the memory of `curl_wrap_app.c`;
`res-status` is not looked at, so `http_get` goes on to `spit` after any number of blocks.
`file` is `dog.jpg`: `spit` empties it, writes it block by block and closes it, the timer
reads it block by block. Closing the window ends the threads; `show` starts the program
again with the file as it was left. `overlap` is no variable of the program: it remembers
that two downloads have been writing at one time, where the code promises nothing.

### The sample application (`SampleApp`)

`main`, `server` and `client` are the three threads of each instance; `db` is the file with
its table and its rows, `port` who listens on 8000. `os/stat`, `sqlite3/open` and each
`sqlite3/eval` are steps, the latter whole because `SqlEval` shows that they are; they throw
when they make no sense or another connection is at a statement, and an error in main ends
the program. `kill` ends an instance anywhere. `cut` remembers that an instance ended between
making the file and adding the row.

## Runs

Every run is exhaustive for its instance.

| Run | Shows | Bounds, and why they are enough |
|---|---|---|
| `line_buffer` | `TypeOK`, `Terminated`, `CursorInWindow`, `RowFits`, `ImplementsTextField` | An array of 6 cells: a line of 5 has two words, a blank and a bracket, and is reached full and empty. A prompt of 1 on screens of 3, 5 and 9: narrower than the line, as wide, wider. |
| `line_history` | `OneOwner`, `ImplementsInputHistory` | 4 slots, so that the array fills and shifts with a middle; 5 blocks, one more than slots, because `sdup()` comes before `free()`; the blocks are symmetric. Three lines, one of them empty. |
| `line_editor` | `TerminalGivenBack`, `NewestIsReturned`, `FunctionKeysAtomic`, `KeepsTheText`, `KeepsTheHistory` | lines of up to 2 characters, 2 history entries, 2 sets of terminal settings, every key `decode()` has a branch for, ESC cut off before another key, and two keys that send more than it takes (F5, and F1 of the Linux console): the parts themselves are checked larger above, here it is their order that counts |
| `line_home_key` | `HomeGoesHome` fails | two keys |
| `completion` | `KeepsSmallest`, `AddsWhatIsCommon`, `BackOnTheLine` | room for 3 matches, with fewer and more of them in the tables, in every order of a table, some in both; widths for a name that wraps, one column, two and more, and 3 rows, so that there are lists that fit with the line and lists that do not, on every row of the screen |
| `sql_eval` | `TypeOK`, `StatementsOwned`, `ConnectionsOwned`, `ImplementsSession`, `EvalEnds` | two threads; texts of none, one and three statements that create, use and drop the one table; parameters that fit, are one too many, are out of range; one failed open |
| `sql_chain` | `ChainsTogether` fails | one thread, a text that creates a table and uses it |
| `json` | `AcceptsJson`, `AcceptsOnlyJson`, `AppendsJson`, `RoundTrip`, `ComesBack`, `DecodesToUtf8`, `EncodesUtf8` | all texts of up to 6 tokens of 8, and of up to 5 of brackets, commas, white space and zero bytes; arrays nested 4 to 6 deep, where `Guard` is 2 and `Deep` 3; two members with anything of up to 2 tokens between and behind them; values two deep; flags off and on; a buffer that is empty and one that ends with a comma. Strings of up to 3 characters from both sides of every boundary of the two encodings; up to 3 escapes with surrogates of both kinds in every order. The four byte characters have their last two bytes alike, which the next run is about. A text and a string are never converted together: the two modules share no state. |
| `json_emoji` | `ComesBack` fails | U+1F600 |
| `circlet` | `TypeOK`, `RequestsInOrder`, `RepliesAreOwn`, `SentBeforeClosed`, `EveryRequestEnds`, `EveryConnectionEnds` | two clients: one with two requests behind each other (for a known and an unknown route, one that yields, one answered with the wrong types), a body of 2, a body without an end or a head at the limit, beside one that sends nothing; or one that yields, throws or sends junk beside one with a request. Two connections are enough for one to be in the way of the other in the list, in the pass and in the fiber. A window of one reply, and one of the two replies longer than what its socket takes before the client reads. |
| `dog_viewer` | `OnePicture`, `NeverLocked`, `ShowsTheFile` | two downloads of two blocks, which stop after none, one and both; two starts. Two are enough to overlap, two blocks for the half of a picture. |
| `sample_app` | `OneUser`, `WholeUnlessCut`, `UserStays`, `ComesUpOrEnds` | two instances, started twice each: two to race, a second start to find what the first left |

Deadlock is checked where the system always has a next step. It is not in the JSON runs,
where a conversion ends, nor in `line_history`, `line_editor` and `line_home_key`, where the
program does (`janet_line_deinit()`, SIGINT), nor in `dog_viewer` and `sample_app`, where the
bound on the starts ends everything.

`TypeOK` is an invariant of the runs of `LineBuffer`, `SqlEval` and `Circlet`, where a bug of
the code breaks it (a counter outside the array, a closed handle, a list that is not the open
connections). The `TypeOK` of `LineHistory`, `LineEditor`, `DogViewer` and `SampleApp` is
proved below.

**Fairness.** Three models assume some, the others are about safety: the next key may never
be typed.

- `SqlEval`: weak fairness of each thread's steps inside `sql_eval()`. The function never
  waits: `sqlite3_busy_timeout` is not used, so a busy database is an error and not a wait,
  and a thread inside it is scheduled by the operating system. `EvalEnds` follows although
  the other threads may drop tables and keep the database busy for ever.
- `Circlet`: weak fairness of the server as a whole. `circlet-server` polls in an endless
  loop, and `select()` returns after the time out of the poll at the latest. That a
  connection's turn comes follows from the walk over the list and is not assumed. No client is
  assumed to do anything: it may stop in the middle of a request, or never read on. But
  the code has no time-out, and a connection whose socket is full is never ready
  (`mongoose.c:4245`) and never closed (2498): one that neither reads on nor breaks stays for
  ever. So `EveryRequestEnds` and `EveryConnectionEnds` are about the connections for which
  `ReadsOn` holds, each by itself, whatever the others do. A `send()` takes something whenever
  it is called, because the socket was ready.
- `DogViewer`: the timer, the callback that runs and a thread that writes the file go on; a
  transfer need not. `SampleApp`: the steps of main, of the server until it listens and of
  the client. All are threads inside calls that return.

## Where the code and its words differ

Three runs end in a counterexample to something the repository says of itself.

| Run | Said | Done |
|---|---|---|
| `line_home_key` | "Home (some keyboards)" (`super.c:712`) | the branch for `ESC O` is nested in the one for `ESC [`; the key types an `H` |
| `sql_chain` | "Multiple sql statements can be changed together" (`sqlite3/main.c:397`) | statement n + 1 is compiled before n is run, so a text cannot create a table and use it |
| `json_emoji` | "failed roundtrip" (`json/test/suite0.janet:6`) | the fourth byte is used for the third: U+1F600 comes back as another character |

Others were met while modelling and have no run:

- "Keep cursor position on screen" (`super.c:225`): the loop at 229 has no lower bound. With
  a prompt as wide as the screen it steps past the line; `CursorInWindow` is proved for
  prompts narrower than the screen and checked with such widths only.
- "History count is always > 0 here" (`super.c:326`): `addhistory()` returns without adding
  when `malloc()` fails. `LineHistory` has this as `MallocFails`; the run and the theorems
  assume memory.
- "Message body. 0-length for requests with no body" (`circlet/mongoose.h:4737`):
  `deliver_chunk()` (`mongoose.c:6516`) makes everything behind the head the body, and
  `circlet.c:77` passes it on, so a request without a body whose successor has arrived with
  it has that one for its `:body`. `RequestsInOrder` says what does hold: the announced body
  comes first.
- A client that stops sending before a body is complete, or whose body was never announced, is
  handled while its connection is destroyed (`mongoose.c:2565-2567`, 6580-6592): the handler
  runs, and the reply `circlet.c:181` writes goes with the buffer. `SentBeforeClosed` allows
  for this one reply and no other (`Cut`).
- The log line of `circlet_lib.janet` prints 200 for a route that is missing, while
  `send_http()` answers the number 404 with 500.
- A handler that throws silences every connection the server will ever have
  (`circlet.c:178`): the disjunct with `"error"` in `EveryRequestEnds`.
- `(free buf)` in `lib/net/curl.janet` frees the struct and not the response it points to.
- `sqlite3/error-code` "Returns the error number of the last sqlite3 command that threw an
  error" (`sqlite3/main.c:416`). Finalizing after an error (line 334) sets the number again,
  to that of the current statement's last run: when it was run well and binding the next one
  failed, `SQLITE_OK`. `SqlEval` has this in `ErrorAfter`.
- `sqlite3_open()` leaves a connection to be closed when it fails (`sqlite3/sqlite3.h:3151`);
  `sql_open()` (line 73) does not close it. `lost` counts these.
- `json/encode` writes the keyword `:null` as the string `"null"` (`json/json.c:394`);
  `json/README.md:13` says it is null. `Plain`, the values `RoundTrip` is about, leaves it out.
- Bytes that cannot begin a character go through the tests for one (`json/json.c:412`), so
  some byte strings that are not UTF-8 are encoded rather than refused (545).
- "Find all matches" (`super.c:533`) stops at the limit of the array (475): `AddsWhatIsCommon`
  is about the case where there is room.
- "Go up to original line" (`super.c:581`): a list taller than the screen scrolls, so the
  cursor cannot go up as far as it came down, and names wider than the screen take rows that
  `gbl_lines_below` does not count. The `completion` run reaches both (`"torn"`);
  `BackOnTheLine` is about lists that fit.
- `gbl_lines_below` survives Ctrl-Z and a line that ends in an error (`super.c:598`, 603, 608):
  the first Tab of the next line lists at once, and `clearlines()` erases as many rows of
  what others have written below.
- "Extended escape, read additional byte" (`super.c:688`): one byte is read behind the digit,
  so what F5 to F12 (`ESC [ 1 5 ~`), arrows with Ctrl or Shift (`ESC [ 1 ; 5 C`) and F1 on the
  Linux console (`ESC [ [ A`) send beyond that is typed into the line. `FunctionKeysAtomic` is
  about the bytes the decoder takes (`Taken`).
- `json/decode` takes the first zero byte for the end of its text (`json/json.c:179`, 346),
  although a Janet string may hold one: `"[]\0]]"` is decoded as `[]`. `AcceptsOnlyJson` is
  about the text up to there.
- `IupLoadImage()` returns NULL for a file it can make nothing of, and nobody looks
  (`examples/dog-gui.janet:15`, 38): while a picture is being written, or after a download
  that failed, the button may show the picture before, or none. `ShowsTheFile` is about
  a file that is whole in the end.

## Proofs

TLAPS checks the eight `...Proofs` modules; TLC had checked each invariant first.

**`LineBufferProofs`**, for any line length of at least 2, any alphabet, any words, recalled
lines and prompts (`BufferAssumption`, no more).

- `StaysTerminated`. `Terminated` is not inductive: a handler that moves a tail relies on
  the counters being in range. The invariant is `BufferInv == BufferOK /\ Terminated`
  (counters in range, cells of the right kind). Every edit is one of two, a stretch put in
  or a stretch taken out; `PutKeeps` and `EraseKeeps` compute the array after each cell by
  cell, and `CtrlKKeeps`, `CtrlUKeeps`, `LoadKeeps`, `StartKeeps` do the rest. `NextBuffer`
  has a step per key.
- `CursorStaysOnScreen`. What is on screen is not enough to know what the next key leaves
  there: the shortcut of `insert()` relies on the row being that of the line before the key
  and reaching to its end. `ScreenInv` adds that the row goes on to the end of the line or
  of the screen. `refresh()` establishes it whatever was there (`WindowPaints`,
  `RefreshKeeps`), the shortcut keeps it (`OvertypePaints`, `PutAtEnd`). The theorem is for prompts narrower than
  the screen, see above.
- `StaysTyped` and `RowStaysInside`, from the same invariants.
- `BufferImplements`, that is `Spec => ImplementsTextField`. `PutShape`, `EraseShape` and
  `CtrlUShape` give the array after an edit cell by cell, `SpliceIs` the same for the
  text, and `LineIsSplice` says that an array edited in one stretch is the text edited in
  that stretch. `LeftIsLeft` and `RightIsRight` turn the loops of the word keys and of Tab
  over cells into runs of characters; that a loop to the right stops at the NUL is where
  `Terminated` is needed. `LoadIsLoad` is the one place where the length of the array
  matters: a recalled line that fills it ends in the last cell, which `strncpy()` does not
  touch. `StepIsText` has a step per key.

**`SqlEvalProofs`**, for any set of threads and any texts (`SqlAssumption`).

- `ConnectionsStayOwned`, from `HandleInv`: a handle's flag and its connection change
  together.
- `StatementsStayOwned`. That the library keeps what the two pointers name is not
  inductive: finalizing one is right only if the other is another one. `EvalInv` says where
  the loop is: between two turns the current statement is the one compiled last
  (`BehindLoop`), and while a statement is compiled, run or bound the pointer in the text is
  two ahead of it (`InLoop`). `NextEval` has a step per library call.
- `SqlImplements`: `Spec => ImplementsSession`. `EvalInv` also says how many statements were
  run at each place, which is all the mapping is made of. `LeftIs` is the one fact about
  sequences needed: what is left of a text has the next statement for its head and what
  is left after it for its tail. `StepImplements` maps each action: `execute` to `Run`,
  `error` to `Throw`, the last `rotate` to `Return`, the other calls of the library to a
  stutter.
- `SqlTypes`, from both invariants.

**`LineHistoryProofs`**, for every limit of at least 2, every set of lines and every set of
addresses, as long as `malloc()` gives memory (`MallocFails = FALSE`).

- `BlocksHaveOneOwner`. `OneOwner` counts a set of pointers; the invariant says the same
  without counting: the slots in use are one to one with the allocated blocks (`Owns`), and
  the current slot is one of them while a line is edited. The array changes in four ways (a
  block pushed, pushed over the oldest, replaced, the head dropped), each with a lemma that
  `Owns` survives it. That a one to one image of `count` slots has `count` elements is the
  one fact about cardinality needed.
- `HistoryImplements`. With `Owns` the heap can be read through the array: a block written or
  freed is no other slot's. Each of the same four changes is then an operation on the list.
- `StaysTyped`, which includes that nothing undefined is reached.

**`LineEditorProofs`**, for every length of line and history, any alphabet, any keys and any
other settings of the terminal (`EditorAssumption`).

- `GivesTheTerminalBack`. `TerminalGivenBack` is not inductive: what `norawmode()` restores
  must be right long before it is called. `Settings` says that in raw mode the settings saved
  are those the others rely on, and that out of it there is nothing to restore.
- `EditsAreTextEdits`, `HistoryIsKept`. `Decoded` says what any byte does in any state of the
  decoder: an operation of `TextField`, a move in the history, or nothing. `FieldStep` shows
  that `TextField`'s operations keep a line inside the buffer, `MoveStep` that what a move
  recalls fits there too. `Step` has a step for each action of the editor.
- `ReturnsTheNewest`, from the invariant that a line being edited has an entry at the head.
- `KeysAreAtomic`, for any keys, also those that send more or less than `decode()` takes. The
  invariant is `Aligned`: of what was sent since `line()` last waited for a key, the state of the
  decoder is decided by how many bytes were read (`Awaits`), as long as these are not more
  than it takes (`Taken`), so that a byte that edits is the last of them. `KeyByte` goes
  through these bytes, `TakenBefore` says that keys sent later change nothing about them.

**`CircletProofs`**, for any number of clients, any scripts and any handlers.

- `StaysTyped` needs `Connections`: the list has the open connections, each once, and those
  the pass has still to visit are among them. A connection is closed only at its own visit,
  and one accepted goes to the head, behind the pass.
- `RepliesStayOwn` needs `Replies`: every reply is to a request that was handled, of its own
  connection and later than the ones before, or of a handler that yields; and the fiber is
  inside a handler only if that one yields.
- `RequestsStayInOrder`, from `ScriptAssumption`. Which request a handler is called with is
  decided by a buffer that holds any piece of the script, so the invariant `Flow` says where
  in the script that is: for every open connection there is a place `p` such that `recv_mbuf`
  continues the script behind `p`, what the kernel has continues it behind that, and as many
  requests begin before `p` as were handled (`Placed`). A lemma for each thing that moves a
  byte keeps it (`PlacedSend`, `PlacedRecv`, `PlacedReset`, `PlacedRequest`), `HeadIs` says
  that a head found in the buffer is the one that begins at `p`, and `InOrder` keeps for
  every request handled the line it was.
- `RepliesAreSent`, from `Flow` and `Flushed`: a connection nobody reset, whose client sends
  nothing that is refused, never gets the flag that closes it without sending the rest.
  `Flow` is needed here too: that the parser finds no fault depends on where the buffer begins.
  What is handled while the connection is destroyed adds one reply at most (`OneReply`), and
  only to a request cut short: between two visits no buffer holds a complete request
  (`Drained`), so what is left in it is short of its body (`NextShort`, `NewCut`). These
  invariants are kept together (`Stream`).

**`CompletionProofs`**, for any environments of finitely many symbols, any JANET_MATCH_MAX
and any screens (`CompletionAssumption`).

- `KeepsTheSmallest`. The property counts; what is inductive is `Ranked`: for every symbol
  `s` and every place `i` of the array, the match there comes before `s` exactly when at
  least `i` of the offers do, and is not behind `s` exactly when at least `i` of the offers
  are not. That `compare_bytes()` orders the symbols strictly and totally (`LessIs`,
  `LessTransitive`, `LessTotal`) makes the array sorted (`RankedSorted`). `CarriedIs` solves
  the loop of `check_match()`: the new match is carried until it is behind everything it does
  not come before, from there on the match that was there. `RankedStays` is the step, with
  the array full or not. `Walk` says which symbols of which table are still to come.
- `AddsTheCommon`. `LcpIs` solves the other loop: after `i` matches `bv` is the longest
  beginning of the first that the first `i` share (`Shared`). `HoldsAll`: an array as long as
  the offers holds every match, once the walk is over.
- `StaysOnTheLine`, for any widths, heights and symbols. `MaxLenIs`: the width of a column is
  that of one of the matches. `ListIs` computes the rows of a list from it, and that one that
  is `"whole"` leaves the cursor as far above the bottom as it has rows; `DownUpIs` that going
  down and up again there is no move, `ClearIs` that what a clearing at the edge leaves is
  `"torn"`, and `OthersKeep` that Ctrl-L and what others write only take rows off the list.
- `CompletionTypes`, from the same invariant (`Screen`).

The two loops are functions defined by recursion on numbers. The library's induction
theorems take an operator for the induction hypothesis, which the provers cannot instantiate;
`NatInd` states induction for a set instead, from the library's theorem that `<` on numbers
is well founded, and each loop is solved by a closed form that `NatInd` shows to be the only
solution.

**`JsonProofs`**, `JsonCodec` for any names, texts, values, layouts of white space, buffers,
flags, orders of the slots of a table, and any limit and depth (`JsonAssumption`).

- The recursive functions come first. That there is a function with the equations of
  `decode_one`, `encode_one`, their loops, `Nested` and the grammar, and that the definition
  picks it, is shown by `NatInd` on the depth or the number of turns (`DecodeIs`, `EncodeIs`,
  `PartsIs`, `WritesIs`, `NestedIs`, `LaxJsonIs`, `StrictJsonIs`); after that only the
  equations are used.
- `DecodeAcceptsJson`, `DecodeAcceptsOnlyJson`. Both are one fact, `Reads`: what `decode_one()`
  reads at a place, a level deeper, are exactly the stretches the grammar has there. A turn of
  the loop keeps it for lists (`ItemTurn`, `MemberTurn`): a loop that went on behind a comma
  has a `Listed` stretch behind it (`Between`), and no list of the grammar is missed, because
  the loop comes to each of its commas (`LoopReads`). `PartsRead` puts the two together for a
  body, `OneReads` is the induction on the depth, `DecodedIs` the call.
- `EncodeAppendsJson`. That the comma at the end of the buffer is the encoder's own, and not
  one of the caller's, is what the code relies on at `json.c:499`. The lemmas say of every
  operation which text it adds (`Writes`); a loop over `n` parts has added a text that ends with
  a comma unless `n` is 0, and then the last token is the bracket just written (`Behind`,
  `CloseWrites`). `Grows` says what a set of texts must have to be closed under this, and
  `OneWrites` that by induction on the depth everything written is in such a set. `JsonGrows`
  shows it for the texts that are JSON wherever they stand (`InJson`).
- `EncodedComesBack`. The same `Grows`, for the texts a value comes back from: `Back(x, w)` says
  that the decoder, at any place of any text where `w` stands, gives `x` and goes on behind it.
  `PartBack` is a turn of the loop, `TurnsBack` the first turns, `OutOf` what the loop has put
  together by then, and `OutAll` that this is the value in the end: every key of a table once,
  whatever the order of its slots. The flags matter in `PlainParts` (the kind of the keys) and
  `LeafBack` (nil).
- The invariant, `CodecInv`, keeps that the buffer is the caller's with something behind it,
  and that what was encoded is what some layout gives for the value.

`JsonString` for any strings of bytes and any texts (`StringAssumption`).

- `DecodesUtf8`. The invariant is the property: each turn of the decoder puts a character, in
  one to four bytes, behind bytes that are UTF-8 (`Utf8Step`). That is arithmetic on code
  points: `TwoIs`, `ThreeIs` and `FourIs` say which bytes a code point is of.
- `EncodesAllUtf8`. The encoder is at the beginning of a character after every turn.
- `StringsComeBack`, for strings of UTF-8 that are `Alike`, the ones outside the finding of
  `json_emoji` (`MCJson` evaluates both for its strings). The invariant `BackInv` relates the
  two loops: `at` gives for every place in the source the place its escape or byte has in the
  text, and the decoder has written the source up to the place it has come to.

**`ExampleProofs`**, `DogViewer` for any number of downloads, sizes and starts. `OnePicture`
rests on `Alone`: before downloads met, the one that writes is the only one, and the file is
exactly as long as what it has written; that the GUI runs one of its three functions rests on
the table as `show` leaves it (`Wired`). `SampleApp` for any number of instances: the table is made by one
instance, which is the one that adds the row and finds none there (`DbInv`); a database
without its user is in some instance's hands unless one ended with it (`InHand`).

Model-checked and not proved: the liveness properties (`EvalEnds`, `EveryRequestEnds`,
`EveryConnectionEnds`, `NeverLocked`, `ShowsTheFile`, `ComesUpOrEnds`), which are out of the prover's reach.
Every invariant, action property and refinement that a passing run checks is the statement
of a theorem.

## Not modelled

- The generated parts of `iup_wrap.c` and `curl_wrap_app.c`: one wrapper per library function,
  19000 lines without state. They and the vendored `mongoose.c`, `mongoose.h` and `sqlite3.h`
  are nine tenths of the lines in C; what the bindings use of them is modelled.
- In the HTTP server: chunked and multipart bodies, the websocket upgrade, an `accept()` that
  fails, several listeners, the log line, the release of the manager (no program does it).
- In the GUI: the collector, which knows nothing of `janet_iup_cbs` (when it runs is not in
  this repository); a second callback on a widget, which no program sets; `iup.janet` and `alert.janet`, sequences of calls that build one window.
- The program's entry (`main()` registers functions and runs one script) and the build.
- In the line editor: a resize of the terminal (the code does not notice one), writes that
  fail, the Windows variant, the fallback of `getcols()`.
- In SQLite: transactions, values of rows and parameters, error messages.
- In JSON: how numbers are written, positions in error messages, endless values.

## Plan

1. Transactions in `SqlSession` and `SqlEval`: a text that begins one and fails half way
   leaves it open (`sqlite3/main.c:313`). Nothing in the repository says whether it should.
