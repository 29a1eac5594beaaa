# A TLA+ model of CNO-SKB-Work

The repository collects course labs in C. Most of the program logic that is the
author's own is in `Client Server Lab`: a file transfer protocol (GETFILE) with
a client and a server library, a multi-threaded client and server built on
it, and two pairs of warm-up programs. `Linked List Lab` holds a small queue
library (the author's) with a command-driven tester (the course's), `Data Lab` a
set of bit puzzles (solved by the author) with the driver that scores them. This
directory models all of these.

Paths below leave out `src/`.

## Inventory

### mtgf client: `Client Server Lab/mtgf/gfclient_download.c`, `workload.c`

*State.* The shared queue with one mutex and one condition variable, a static
counter in `localPath`, the files on disk, and per worker its request, its
local path and its `gfcrequest_t`.

*Operations.* `main` creates `-t` workers, queues `-n` times `-t` paths (each
with lock, enqueue, signal, unlock), joins the workers and destroys the queue.
`handle_request` takes `-n` requests (lock, wait while empty, pop, unlock), and
for each makes up a local path, opens it, calls `gfc_perform`, and unlinks the
file if that failed or the status is not OK.

*Hard.* Interleaving of boss and workers; lost and spurious wakeups; the
unlocked counter; exits of the whole process out of one thread; the two unlinks.

*Correct when* each queued request is handled once, nobody underflows the
queue, nobody sleeps for ever, and a download reported OK has a whole file of
its own while a failed one has none.

### steque: `mtgf/steque.c`

*State.* `front`, `back`, `N` and the nodes. *Operations.* init, enqueue, push,
pop, cycle, front, size, isempty, destroy. Used by client and server under
their mutex. *Hard.* The empty and the one-node case of each pointer update,
underflow ending the process, two notions of "empty" (count and pointer).
*Correct when* the nodes always form one chain, none is leaked or reached after
it was freed, and callers see a double-ended queue.

### mtgf server: `mtgf/gfserver_main.c`, `mtgf/handler.c`

*State.* The queue of (context, path pointer) pairs, mutex, condition variable,
and one connection per request. *Operations.* `main` starts the workers and
enters `gfserver_serve` (object code); its callback `handler_setup` queues a
request and signals; `process_request` pops, answers with `handler_get`, aborts
the connection and frees the pair. *Hard.* The hand-off as in the client, but
endless; ownership of the context and of the path across two threads; faults in
`handler_get`, which aborts the connection itself. *Correct when* each request
is answered once, by one worker, with the file it asked for.

### GETFILE libraries: `gflib/gfclient.c`, `gflib/gfserver.c`, `gflib/handler.c`

*State.* One `gfcrequest_t` (status, file length, bytes received), one
`gfcontext_t`, the TCP stream in both directions. *Operations.* `gfc_perform`
connects, sends the request, parses a header out of one `recv`, and receives
the rest; `gfserver_serve` accepts one connection, parses a request out of one
`recv`, calls the handler or refuses, and closes. *Hard.* The stream can be cut
anywhere, delayed, closed or reset; signed results in unsigned variables;
parsing with `sscanf` and `strtok`. *Correct when* a result of 0 with status OK
means that the file was written, whole and in order, and every failure is
reported as one.

### GETFILE programs: `gflib/gfclient_download.c`, `gflib/gfserver_main.c`

*State.* The client's loop counter, the counter of local paths, the files on
disk; the server has none of its own. *Operations.* The client makes its requests
one after another, each into a file of its own that it removes if `gfc_perform`
failed or the status is not OK. The server loads its content and enters
`gfserver_serve`, which takes one connection and returns. *Hard.* Everything that
can become of the one connection, and then of a request that is never accepted.
*Correct when* the files left behind are copies, and the client ends.

### Content store: `content.c`

*State.* A table of keys and descriptors. *Operations.* `content_init` reads a
file of lines, opens each path and sorts the table by key; `content_get` searches
it for each request. *Hard.* The bounds of the binary search; lines that are not as
expected. *Correct when* a key is found exactly if it is in the file.

### Warm-up programs: `transfer/*.c`, `echo/*.c`

*State.* The server's stream position, its counts of a chunk's bytes, one
connection at a time; the client's output file. In echo, one message buffer for
all connections. *Operations.* The transfer server accepts, opens its file, sends
it in chunks of ten bytes, each by a loop of sends, and closes; its client appends what
it receives. The echo server answers one read with one write, and so does
its client ask. *Hard.* Sends that take only a part, clients that vanish, resets,
descriptors of -1 that are used on, what the last connection left in variables
and buffers. *Correct when* a client's file grows by exactly the server's file, an
echo is the message, and everyone gets his turn.

### Bit puzzles and their driver: `Data Lab/bits.c`, `tests.c`, `btest.c`

*State.* The puzzles are functions; the driver keeps the puzzle, the loop counters
over the test values, errors, points, and a pending alarm. *Operations.*
`run_tests` over the table of `decl.c`, `test_function` over one, two or three
arguments, `gen_vals`, the timeout. *Hard.* Overflow and shifts at the boundaries of
the word; an alarm that is never cancelled. *Correct when* every solution agrees
with its reference on every value tried, and the score counts exactly the puzzles
of which all tests were made and passed.

### Linked list queue and its tester: `Linked List Lab/queue.c`, `harness.c`, `qtest.c`

*State.* The queue (head, tail, size, elements, their strings); the harness's
list of allocated blocks and its flags (`error_occurred`, `cautious_mode`,
`noallocate_mode`, `jmp_ready`, `time_limited`); the tester's own count `qcnt`
and `fail_count`. *Operations.* The seven functions of `queue.c`; a command of
`qtest.c` for each, which clears the error flag, prepares an exception, calls
the function, compares and counts, and shows the queue; the handlers of SIGALRM
and SIGSEGV. *Hard.* Every allocation may fail; a tail pointer that is left
dangling; an alarm between any two statements, which jumps back into
`exception_setup`; flags that must be reset on both ways out. *Correct when* the
queue is a list of strings and nothing leaks, the tester finds no fault in such a
queue, and after an alarm the tester works on.

### Console: `Linked List Lab/console.c`

*State.* A stack of open command files with a buffer each, the line being read,
`quit_flag`, `err_cnt` and `err_limit`, the lists of commands and parameters.
*Operations.* `cmd_select` takes the complete lines from the buffer or reads;
`interpret_cmd` executes a line; `source`, `option`, `time`, `quit`; `finish_cmd`.
*Hard.* Reads that end in mid-line while files nest; quitting with lines left in
the buffer and with lists that were freed. *Correct when* each line is executed
once and in its place until the interpreter is told to stop, and the exit status
says whether everything succeeded.

### Not modelled

| Part | Why |
| --- | --- |
| loading the workload, `workload_init` | reads lines into an array of 100 without counting them, and the round robin divides by their number: what happens outside of 1 to 100 lines is undefined, and inside nothing can go wrong |
| command lines and options | become constants |
| reporting, `report.c` | output and counted allocation, no control of its own |
| `ishow.c`, `fshow.c` | display one number |
| code puzzles, `AoE 0x200` | single pure functions of a few lines, without state |
| Attack, Bomb and Importer Lab | binaries, disassembly and notes: no program source |
| `submit.py` | uploads files to the course's service |

What is left out of the components that are modelled is said under each module.

### How the parts interact

    gfclient_download (boss) --steque--> workers --gfc_perform--> gfclient
                                                                    | TCP
    process_request <--steque-- handler_setup <--callback-- gfserver_serve
           '--handler_get--> content store, gfs_send -------------> client

    console --do_*--> qtest --q_*--> queue --test_malloc, test_free--> harness
                        ^------------------- siglongjmp -----------------'

    transferserver --TCP--> transferclient        echoserver <--TCP--> echoclient
    btest --run_tests, test_function--> bits.c, tests.c

Boss and workers share the queue under a mutex; a worker owns its request from
the pop on. Client and server share the TCP stream only. The library calls the
handler on the thread that accepts. The tester is one thread; its concurrency is
the alarm. Tester and console share the command table, `err_cnt` by way of the
commands' results, and the quit helper.

## The modules

| Module | Models |
| --- | --- |
| `WorkQueue` | abstract: what a boss/worker hand-off promises |
| `Window` | queues of consecutive numbers: FIFO without loss |
| `MTClient` | the mtgf client |
| `MCMTClient` | values of its constants for TLC |
| `WindowProofs`, `MTClientProofs` | theorems about windows, and about the client |
| `Deque` | abstract: a sequence with two ends |
| `Steque` | `steque.c` on the heap level |
| `StequeProofs` | theorems about it |
| `GetFile` | `gfc_perform` against `gfserver_serve` over TCP |
| `Download` | extends it by the gflib programs: several requests, the files |
| `DownloadProofs` | theorems about both |
| `Content` | the content store |
| `MTServer` | the mtgf server, with its content store |
| `MTServerProofs` | theorems about it |
| `MCMTServer` | values of its constants for TLC |
| `Sockets` | a server, its clients and the kernel's sockets between them |
| `Transfer`, `Echo` | the two pairs of warm-up programs |
| `Warmup` | either pair run on `Sockets` |
| `WarmupProofs` | theorems about both |
| `ListQueue` | abstract: a list of strings with insertions that may fail |
| `QTest` | `queue.c`, `harness.c` and `qtest.c` |
| `QTestProofs` | theorems about it |
| `Console` | `console.c` |
| `ConsoleProofs` | theorems about it |
| `Words` | the 32-bit `int` of C |
| `Bits` | `bits.c`, `tests.c` and the table of `decl.c` |
| `BTest` | `btest.c` over them |
| `MCBTest` | values of its constants for TLC |

The modules are connected by what one promises the other: `MTClient` and
`MTServer` use a sequence for their queue, with the operations `Append` and
`Head`/`Tail` of `Deque`'s `AddBack` and `TakeFront`, which `Steque` is shown to
implement. `MTClient`'s `AllOutcomes`, the pairs of a result and a status that
`gfc_perform` may leave, cover those that `GetFile` reaches.

### MTClient

An action is the code of one thread between two points at which another thread
can make a difference: lock, unlock, the condition variable, the unlocked read
and the unlocked write of `localPath`'s counter, the opening and the unlinking
of a file. `main` and `pc` are the program counters, `i` and `handled` the loop
counters. `pthread_cond_wait` is `Test` (release the mutex and sleep, in one
step), then `Signal` by the boss or `SpuriousWakeup`, then `Relock`, after
which the `while` tests again. A request is the number under which the boss
queued it, so that two requests for one path stay apart; `PathOf` gives the
path. `disk` records for which requests each local path was opened: if a second
request opens a path, both are there, since `fopen(.., "w")` truncates the file
and both then write to it. `exit` is the process's end by any thread.

Assumed of the inputs: `-n` and `-t` not negative, a workload with at least one
path, and that fits the 100 entries and 256 bytes of `workload.c`.
`pthread_create` is assumed to succeed: its result is ignored in the code, and
`pthread_join` of an identifier that was never written means nothing definite.

### Steque

`heap` is a partial function from addresses to nodes: `malloc` adds an address
to its domain, `free` removes it, and an access outside of the domain is an
error that TLC reports. `chain` is a history variable, the nodes in the order in
which they were put in; nothing reads it. The contents that the refinement
compares with `Deque` are read off `chain`, and `WellLinked` says that following
the real pointers gives the same list, so that the two properties together say
that the pointers implement the deque. `steque_destroy` is a loop of pops;
outside it has emptied the steque at once. The code does not test the result of
`malloc`, and the model assumes that it succeeds.

### GetFile

The client's and the server's control flow in one module, because neither means
anything without the other. A request or a header is a sequence of pieces, cut
as finely as the parsers can tell apart (within the path, the word GET, the
status, the digits of the length), and after the length a piece is one byte;
file data is one piece per byte. `recv` takes any non-empty prefix of what has
arrived. `ParseHeader` gives every result `sscanf` and the code after it can
have for a prefix, and all of them where the code reads memory it never wrote.
`conn` distinguishes a connection closed by the server, after which what was
sent still arrives, from one that was reset, after which a part of it may.
`CloseConn` resets the connection if the server closes it with unread data.

`wholeRequest` and `wholeHeader` are history variables that state the
assumption both libraries make in comments (gfclient.c:259, gfserver.c:149):
one `recv` returns the whole request, and the whole header. The model also has
the runs in which it fails. `ExactCopy` needs a whole header only, and then says of any
request that the file is the one the server took to be asked for; that this is the one
asked for needs a whole request (`Understood`). So does `HonestRefusal`, whose first part,
that a refusal writes nothing, needs neither. Of a header that was cut nothing more is
said: the client takes what is left of it for data, and may report a wrong file
complete. `FileLength` of 11 has two digits and is not a multiple of `Chunk`, so
the length can be cut in two and the last chunk is a short one.

A `client` or `server` that is "crashed" stands for undefined behaviour that
ends it: the read past the buffer when the header is cut between the length and
its end, the write with the length -1, `strcmp` of a null pointer, the double
free after a failed handler, an unhandled SIGPIPE.

Left out: a partial `send` of the request (it is far smaller than a socket
buffer), and a `recv` that never returns because the peer is silent.

### Download

`GetFile`'s actions with the program around them. `Open` is the loop's body up to
`gfc_perform`, with the fresh `gfcrequest_t` and the socket that belong to a
request; `Cleanup` is what follows it, with the two calls of `unlink`. `disk` holds
the files of requests that are over, and for each if its request and its header came
whole. The server's main ends with `gfserver_serve`, after one connection. Between
that connection's end at the client and its own end the server does nothing that
a later request could see, so the model lets it end before the next request is
made; what a request sees that was made earlier (a connection out of the backlog,
reset in the end) is `LeftInBacklog`. A server whose accept is still to come, because
the first request found no connection, takes a later one.

### Content

`content_init` and `content_get` as operators on the table `items`, and the history
variable `listed`, the keys of the file. `Names` lists the keys in the order of
`strcmp`, which is all that sorting and searching ask of them. `MTServer` extends
the module: its boss loads the content file before it starts threads (any file of
up to `MaxLines` lines, a key perhaps twice), and its workers search the table. A file
that does not end in a newline loses the last character of its last path
(content.c:41), which then cannot be opened or leads to another file; a failure to
load is `ContentFails`. `content_destroy` is never reached.

### MTServer

The server's boss is `gfserver_serve` of `gfserver.o`. The repository has only
its object code, and the model takes from it what the code in `mtgf` sees: a
context for each connection, a path pointer into one buffer that is used again
for the next request. A request's number is the order of the calls to
`handler_setup`. The pointer is modelled by what it leads to: `ContentGet`
reads the path of the latest request, and `found` keeps what it read.

The committed `gfserver_main.c` does not compile (`mutext` in line 80,
`process` and `workers` in line 175, `enqueue` in handler.c against
`enqueue_ctx`). It is modelled with the names that are evidently meant. What
else is wrong in it is modelled as it is: the array of thread identifiers has
room for one (`CreateFails`), `handler_get` aborts the connection on an error
and `process_request` does so again (`Close`), and the path passed by the
library is freed (`FreePath`), which ends the process after its first answer.
That is why requests of the model are few, and why `EveryoneServed` allows for
the end of the process.

Not modelled: SIGINT and SIGTERM, which exit, and what follows
`gfserver_serve`, which does not return.

### Sockets, Transfer, Echo, Warmup

`Sockets` is the kernel's part: a listening socket with its backlog, and for each
client the state of its connection with the bytes on their way in either
direction. A close with unread data resets the connection; a process that ends
has its sockets closed; a reset loses any suffix of what is under way.

`Transfer` follows the server call by call. The bytes of the file are 1 ..
`size`, so that a file sent wrongly looks different from one sent rightly. `n`,
`sent` and `total` are `n`, `bytes_sent` and `total_message_length`.
`Message(k)` is what lies behind `&message[k]`, the bytes of the chunk and then
those after it: the loop for the rest of a chunk (`Resend`) tells each send the
whole length again, and starts where the last one ended only if that was the
first. `overran` is a history variable: the clients that were sent anything but
the next bytes of the chunk. `open_listenfd`'s -1 is not tested, so that the
loop spins on failing calls (`ListenFails`); `fopen`'s null pointer is not
tested either, and ends the process at `feof` (`Open`). A send to a client that
is gone ends the process by SIGPIPE, or fails first.

`Echo` follows the other server, which ends on every failing call. `CString` is
what `strlen` and `printf` make of a buffer that `read` has filled: up to its first
zero byte, or, if it is full, on into what lies behind it. The option `-n` of
echoserver.c is parsed, and used by nothing (`LISTENQ` is 5).

`Warmup` composes the two with `Sockets`, one of them per behaviour.

### Words, Bits, BTest

A word is the set of the positions of its ones: `~`, `&`, `|`, `^` are set
operations, and addition is a carry over positions, so that 32 bits need no
arithmetic on numbers TLC could not hold. `Bits` has each solution as `bits.c`
computes it, operation by operation, and each reference of `tests.c` by what it
computes. The three puzzles on floats return 2, which README.md:19 mentions as
skipped; btest tries them on +0 first, where each of the references is 0, and
they fail there, so that no more of floats is modelled.

`BTest` is the driver with its default options. `TestVals` gives what `gen_vals`
puts at a place of its array; a random value is made up when it is read, not
once for the test, which adds combinations and leaves none out. `Timeout` is the
alarm: `alarm` is called before each puzzle and never cancelled, so that one may
go off in a later puzzle, which then counts as failed, or between two calls of
`test_function`, where `siglongjmp` has no frame to go to ("crashed"). That an
innocent puzzle can fail so is what the code does; `ScoreEarned` says that it costs
one puzzle and no more, by a history variable, `refuted`, of the puzzles that a test
has failed: every error is one of these or an alarm.

### QTest

The three files in one module, because the alarm couples them: `pc` is the
statement to be executed next, and its label names the function and the line
(`ih.next` is `newh->next = q->head` of `q_insert_head`, `remove.value` is
`free(tmp->value)`). `heap` maps allocated addresses to blocks, a queue, an
element or a string; `free` takes an address out of its domain, and `malloc`
returns the lowest free one, so that freed memory is in use again as soon as
possible and a stale pointer leads to something else. Fresh memory holds `Wild`,
as `test_malloc` fills it with 0x55. `loc` holds the locals of the function that
runs. `Begin` is a command up to its call of `exception_setup`, `ExceptionCancel` is
the call of `exception_cancel` with the comparisons that follow, and `BeginShow`,
`ShowNext`, `EndShow` are `show_queue`. `do_new` on a queue runs `do_free` first.

*Exceptions.* `Alarm` may come between two statements whenever `time_limited`; `Segv`
comes instead of a statement that follows a pointer to no block of the kind it
expects. Both are `trigger_exception`. `exception_setup` has returned when
`siglongjmp` goes into its frame, which C leaves undefined. In the program as the
Makefile builds it (no inlining), the frame's return address has been overwritten
by that of the latest call made since from the same depth, so that this call returns
again, with the value 0: `ReturnAgain` lists for each point of interruption which
call that is. `test_malloc` and `test_free` are one step each, so an alarm inside
of them (where it could leave the block list half linked) is not modelled.

*The script.* Inputs are the commands with one or two repetitions, every string of
`Str`, and a malformed command. After an alarm the queue may be damaged, and the
script only shows, frees and quits: what a damaged queue does to further
insertions is the user's affair.

*Refinement.* `Contents` reads the strings off the heap, at any statement:
the list that the abstract `ListQueue` has. An insertion takes effect when
`head`, or the last element's `next`, is written; in `q_reverse`, where the
list is in two parts, the contents are these parts put together. Once an alarm
has gone off, nothing is promised (`Interrupted`).

### Console

A character of a file is the number of its line, one for the whole line, then a
newline, which the last line may lack. `Read` moves any non-empty prefix of what
is unread into the empty buffer, so that a read ends between, before or inside of
lines. Commands are reduced to what they do to the interpreter: succeed, fail,
quit, name the second file, lower the error limit, and the same behind `time`,
which calls `interpret_cmda` from within it and has a failure counted twice. The
limit can be lowered to one, after which `StopsInTime` allows one failure. The inner
file names no other, so that two files are open at most (`ConsoleAssumption`). The
quit helper's result is arbitrary; `QTest` says what it is for the tester.

## The runs

| Run | Instance | Properties | States |
| --- | --- | --- | --- |
| client | 2 workers, 2 requests each for 4 distinct paths, 1 spurious wakeup, success and two kinds of failure | `TypeOK`, `MutualExclusion`, `NoUnderflow`, `QueueIsWindow`, `NoLostWakeup`, `KeptIntact`, `NoLeftovers`, `RequestsNotShared`, `ImplementsWorkQueue`, `Termination` | 339,697 |
| client_race | 2 workers, 1 request each for one path | `KeptIntact`, violated | |
| steque | 4 nodes, 2 items | `WellLinked`, `DestroyIsSafe`, `ImplementsDeque` | 3,419 |
| getfile | 2 requests, 11 bytes in chunks of 4, no space in the header | `HonestRefusal`, `FilesAreCopies`, `DownloadEnds` | 148,454 |
| getfile_spaced | 1 request, with the space | `ExactCopy`, violated | |
| getfile_reset | 1 request, without it | `ClientSurvives`, violated | |
| server | 2 workers, every content file of up to 3 lines over 3 keys, up to 3 requests for two of them, lines and requests together at most 4 | `TypeOK`, `QueueIsWindow`, `NoLostWakeup`, `AnsweredOnce`, `FoundIfListed`, `EveryoneServed` | 126,402 |
| server_path | 1 worker, 2 requests | `RightFile`, violated | |
| sockets | 2 clients; a file of 0, 3 or 4 bytes or none, in chunks of 3, 2 partial sends; messages of up to 3 bytes | `CopyIsExact`, `EchoIsOwnMessage`, `TransferEnds`, `EchoEnds` | 236,641 |
| qtest | 2 strings, up to 3 elements, 2 repetitions, 1 alarm, 2 failures allowed | `QueueSound`, `NoFalseVerdict`, `ModesRestored`, `CommandEffect`, `ImplementsListQueue`, `CommandsEnd` | 819,523 |
| console | 3 lines, a second file of 2, error limit 2 | `ExecutedInOrder`, `StopsInTime`, `ListsUsedAlive`, `ExitStatus`, `InputEnds` | 648,018 |
| bits | the 13 puzzles of the table, 1 alarm | `SolutionsAgree`, `ScoreEarned`, `AllTested` | 48,655 |

Where a module's `TypeOK` is not in the list, a property of the run has it as its first
conjunct.

*client.* Two workers are enough for one to steal the request for which
the other was woken, and two requests each for a worker to come back to the
queue while the other sleeps. One spurious wakeup reaches every state in which
a woken worker finds the queue empty. A download fails with a negative result and
the status OK, or is refused, so that each of the two `unlink` calls is the only
one. A download reported OK has a file of its own. With different paths this holds
whatever the counter does, since the path is a part of the name; with one path for
two workers it does not, and *client_race* shows it. No path is too long: one of
more than 255 characters has overflowed the buffer of `workload_init` before it can
be tested (`GetPath` has the test, and the proofs cover it). What holds of the queue
holds for every number of threads and requests: see the proofs.

*steque.* Four nodes reach every combination of zero, one, two and more nodes
on which an operation can be called. `DestroyIsSafe` looks at each turn of the
destroy loop: its pop finds a node that is still allocated, and no node is left in
the end.

*getfile.* The byte-exact copy of the file, over every way to cut and to break
the connection, and what the program leaves on disk. Two requests are one
that the server takes and one that it does not, in either order. The server of
this run sends `\r\n\r\n` right after the length,
as the protocol allows; with the space that the repository's own server
sends (*getfile_spaced*) the client is off by one.

*server.* Tables of zero to three keys are all ways in which the search can begin and
end, with a key before the first, between two and after the last. Three requests with
two workers: the boss runs ahead, a worker takes a request out of turn of its
signal. The process ends after its first answer is completed, so more would add
nothing; `MaxLoad` keeps the long tables to few requests and many requests to short
tables.

*sockets.* A file of 3 is a whole chunk and then an empty read, one of 4 ends in
a short chunk. After one partial send of a chunk the next may go
beyond the chunk, after two it begins at the wrong place: chunks are of three bytes, and
a behaviour has up to two partial sends, so that both happen; `MaxExcess` of 0 stops a count that has passed the chunk's length, from
where on it only grows. Two clients are one that vanishes and one that comes after
it. `CopyIsExact` excepts clients in `overran`, of whom the code is known to send wrong
bytes (below), and `TransferEnds` the behaviours in which this has happened.

*qtest.* Three elements are a first, an inner and a last one, the cases of every
pointer update; nine blocks are what three elements with their strings, the
queue and one element more need. A limit of two failures lets a command go on
after the first and fail at the second. `BigQueue` is 1, so that freeing a queue
of two turns cautious mode off. One alarm is enough for `ModesRestored` and
`CommandsEnd`, which compare a state with the next command, not with an earlier
alarm.

*console.* Three lines let a `source` stand between two others, two lines of the inner
file let a read end inside and after the first; an error limit of two is reached by
two failures or by a single timed one.

*bits.* btest tries values in a range around each boundary and random ones.
`TestRange` keeps the ranges to one or two values on either side, and
`MCSamples` gives as random values the words on which solutions go wrong: all
runs of ones and their complements for one argument, the limits of a digit,
single bits and masks for two. One alarm may go off in any puzzle, or after it.

### Fairness

`MTClient` and `MTServer`: weak fairness of the boss and of each worker, the
scheduler running every thread that can run. Weak is enough: a thread that waits
for the mutex while others take it in turn is not always enabled, so the model
permits it to starve, and the client terminates all the same, because the others
run out of requests. `gfc_perform` is assumed to return, which a silent peer can
prevent, since there is no timeout. No wakeup, fault or request is ever bound to
happen. `Download`: weak fairness of the client and of the server, none of
faults. `Warmup`: weak fairness of the server and of each client; no client is
bound to be killed, no connection to be reset. What a call returns (a failed
bind, a broken pipe) is an outcome of the fair step that makes it. `QTest`: weak
fairness of the statements of a command that was begun; no command, alarm or
failing allocation is bound to come. `Console`: weak fairness of the
interpreter, whose input is a file, so that `read` returns. `BTest` claims no
liveness.

## What the violated runs show

- **client_race**: `localPath` is called outside of the mutex and increments a
  static counter (gfclient_download.c:60). Two workers that ask for the same
  path can get the same local path, then truncate and write one file together;
  both report OK.
- **getfile_spaced**: the header template has a space before the end of the
  header (gfserver.c:23), which Readme.md:216 calls optional; the client counts
  four bytes from the length (gfclient.c:365), so the file starts with the
  header's last byte.
- **getfile_reset**: `recv` returns -1 into a `size_t` (gfclient.c:387), which is
  not `< 0` and goes to `writefunc`; gfclient.h:88 promises a negative result.
- **server_path**: the queue holds the library's pointer to the path
  (gfserver_main.c:60), whose buffer the next request overwrites; the first
  client is sent the file of the second.

Seen while modelling, without a run of their own:

- An insertion stopped by the time limit counts as a success: the insertions return
  without a last `error_check` (qtest.c:189), and `show_queue` (qtest.c:417) or the next
  command clears the flag. `NoFalseVerdict` excepts them.
- In the transfer server a send that took a part of the chunk is followed by one that
  begins where it ended, but is told the whole length again, and so may send bytes
  from behind the chunk (transferserver.c:146); after a second partial send the next
  begins at the wrong place as well; and the loop ends only if the counts meet
  exactly. One partial send of ten bytes is enough, which a socket buffer hardly
  produces. If its port is taken, the loop spins on failing calls for ever; the echo
  server exits.
- `gfserver_serve` returns after one connection, where gfserver.h:59 says that it does not
  return and gfserver_main.c:69 "Loops forever".
- gflib's client prints "Status: OK" for a download that broke off (gfclient.c:388),
  though it removes the file: the status stays as the header set it.
- btest with the repository's solutions comes to 25 of 37 points: the float puzzles are not
  solved, everything else agrees.

## The proofs

Each theorem holds for all values of the constants that satisfy the named
assumptions of its module.

| Module | Theorem | Says |
| --- | --- | --- |
| `MTClientProofs` | `TypeCorrect`, `MutexCorrect`, `QueueCorrect`, `SharingCorrect`, `UnderflowCorrect` | the invariants `TypeOK`, `MutualExclusion`, `QueueIsWindow`, `RequestsNotShared`, `NoUnderflow` |
| | `WakeupCorrect` | `NoLostWakeup` |
| | `LeftoverCorrect` | `NoLeftovers` |
| | `KeptCorrect` | `KeptIntact`, if no path is asked for twice |
| | `ClientImplementsWorkQueue` | `Spec => ImplementsWorkQueue` |
| `MTServerProofs` | `TypeCorrect`, `QueueCorrect`, `AnswerCorrect` | `TypeOK`, `QueueIsWindow`, `AnsweredOnce` |
| | `WakeupCorrect` | `NoLostWakeup` |
| | `SearchCorrect` | `FoundIfListed`, with the binary search of `content_get` |
| `StequeProofs` | `LinksCorrect`, `DestroyCorrect` | `WellLinked`, `DestroyIsSafe` |
| | `StequeImplementsDeque` | `Spec => ImplementsDeque` |
| `WarmupProofs` | `CopyCorrect`, `EchoCorrect` | `CopyIsExact`, `EchoIsOwnMessage` |
| `DownloadProofs` | `RefusalCorrect` | `HonestRefusal` |
| | `CopiesCorrect` | `FilesAreCopies`, without the space in the header |
| `ConsoleProofs` | `StopCorrect`, `ListsCorrect`, `StatusCorrect` | `StopsInTime`, `ListsUsedAlive`, `ExitStatus` |
| | `OrderCorrect` | `ExecutedInOrder` |
| `QTestProofs` | `ModesCorrect` | `ModesRestored` |
| | `QueueCorrect` | `QueueSound` |
| | `VerdictCorrect` | `NoFalseVerdict` |
| | `EffectCorrect` | `CommandEffect` |
| | `QTestImplementsListQueue` | `Spec => ImplementsListQueue` |

Every module has beside these a theorem `Invariance` (in `DownloadProofs`
`ExchangeInvariance`, in `ConsoleProofs` `StopInvariance` and `OrderInvariance`, in
`QTestProofs` `ModesInvariance`, `HeapInvariance`, `VerdictInvariance` and
`EffectInvariance`) for the inductive invariant that the others rest on.
`WindowProofs` has what they share: windows of consecutive numbers under `Append`,
`Tail` and concatenation, and induction.

### Two hypotheses

`KeptCorrect` supposes `NoPathTwice`, that no two requests are for one path.
Without it the two workers that read `localPath`'s counter at once get one file,
and run *client_race* shows it. With it the race cannot matter, as the local path
contains the path.

`CopiesCorrect` supposes `~Spaced`, a server that ends its header right after the
length, as the protocol has it. Run *getfile_spaced* shows what comes of the space.
`RefusalCorrect` and the invariant below do not need it. Both theorems are about
downloads whose header one `recv` returned whole, as `FilesAreCopies` and
`HonestRefusal` say themselves (but for "nothing was written" in the latter).

Other conditions are part of the properties, too. `QueueCorrect`, `EffectCorrect`
and the first half of `VerdictCorrect` hold until an alarm goes off. The second half
is about commands that an alarm interrupted, and excepts the insertions, the display,
verbose mode, and a queue displayed before the verdict, in all of which the tester
does lose the error. `CopyCorrect` excepts the clients for whom the loop for the rest
of a chunk overran.

### The inductive invariants

*MTClient.* None of the properties is inductive by itself. `IInv`
is their conjunction with `ControlInv`, which ties the program counters to the
data: how far the boss's loop counter has come, that a worker past the test of
the queue finds it non-empty (what `NoUnderflow` needs, and what
`MutualExclusion` preserves, as nobody else pops meanwhile), that a worker holds
a request exactly between its pop and its cleanup, and that this request is
below `taken` (what keeps the next one popped from being shared). `Inductive`
has one lemma per conjunct and one step per action. The queue's steps use the
lemmas of `WindowProofs` on what `Append` and `Tail` do to a window.
`FileInv` adds the files: which local paths a worker or `kept` accounts for.

`NoLostWakeup` compares the length of the queue with the number of
awake workers, so its step needs finite cardinalities: a signal moves one
worker from the waiting to the awake, a worker falls asleep only when the queue
is empty, and a pop takes one away from each side.

In the refinement a boss's `Enqueue` is `Submit`, a worker's `Pop` is `Take`, its
`Cleanup` is `Complete`, `Destroy` is `Close`, the exits are `Abort`, all else
stutters. `Close` needs `taken = Total` when all workers are done: `CountInv`
counts the pairs of a worker and a turn that it has had, so that workers who
have handled `NRequests` each have taken `NThreads * NRequests` between them.

*MTServer.* The same hand-off, with one invariant more, `JobInv`: each request
taken is held by one worker and by one only. It is what makes an answer
unique; the workers of the server never come back for a second request, because
the first `FreePath` ends the process. `ContentInv` says that the table is
sorted; the search then keeps the key out of all places below `lo` and above
`hi`, by induction over `hi - lo`.

*Steque.* `WellLinked` is inductive by itself, and with `NotEnded`, that the process
was not ended, makes up the invariant; `DestroyFinds` gets from it what the
destroy loop finds. The work is in the sequences:
an operation at one end changes one node and one pointer, and each of the cases
of no, one and more nodes keeps the others as they are.

*Warmup.* For transfer, `StreamOK`: what a client has got, followed by what is under
way to it, is the beginning of the file up to the server's `Position`, which is read
off `offset`, `total` and `sent` at each statement. For echo, `PeerOK` follows the
message through `up`, the server's buffer, `down` and what is printed. Both rest on
`BacklogInv`: the connections that wait are different ones.

*Download.* `ExchangeInv` says that what is on its way to the client and what the client
was given are consecutive parts of what the server sends, wherever either of them
stands in it, and what `ParseHeader` can make of a first part. Its conjunct `RefusedNothing`, that the
status of a refusal never goes with data, holds for every part. `DiskInv` extends it over
the requests.

*Console.* `StopInv` ties `quit_flag`, `err_cnt`, `freed` and the stack of files to
the place of the control, and `LowersOK` the limit and the flag to the commands that
have lowered the limit and those that failed after one. `OrderInv` is the equation that the reads preserve: the lines
executed, then those in the buffer and unread of every open file, from the innermost
out, are the expansion of the script.

*QTest.* `ModesInv` says at each statement which function it belongs to and which
modes, alarm and jump it runs under; an exception can only come where a jump is
prepared, and comes out in `exception_setup` with the modes as the interrupted
function set them.

`HeapInv` is about the blocks. `Typed`, `CountOK`, `QueueThere` and `RoomForNew` hold on a
damaged heap too: types, the repetitions that are left, whether `q` leads to a queue, and
a free block for `q_new`. `Shape` holds as long as no alarm went off, and for an insertion
that goes on after one: there are sequences `ch`, `vl`, `st` of addresses and strings such
that the blocks in use are, apart from those the statement works on, the elements `ch` in
this order, with the strings `st` at `vl` (`Held`). Each statement changes the sequences in
one of a few ways, which are lemmas about heaps (`PushFront`, `PushBack`, `PopFront`,
`NewEnd`, `TurnedMore`), or leaves them alone. `q_reverse` needs the form in the middle,
`Turned` after `k` elements. That `Chain` and `Strings`, which read the heap by recursion,
give these sequences back is `ReadList`.

`VerdictInv` says when `ok` and `error_occurred` can be what they are. `Doomed` is how far
the verdict of an interrupted command is decided; an alarm makes it true, and no later
statement makes it false before the console has counted the error. In its calm part it
needs `HeapInv`: no statement follows a bad pointer, the insertion's copy is a new block,
`q_size` returns the counted length, and `do_free` finds no block left.

The refinement needs nothing beyond `HeapInv` and `ModesInv`. `ListShown` says that at
every statement the strings `st` of `Shape` are what `Contents` reads off the heap: for
`q_reverse`, that the part already turned, turned back, and the rest make up the list
(`TurnedWhole`). `ContentsMove` then has one case for each statement that changes the
list (`ih.head` prepends, the branch in `it` appends, `remove.head` takes the first,
the end of `reverse.loop` turns it around, `new.ret` creates and `free` destroys it) and says
that every other statement, the failed allocations and the console's part included,
leaves it alone. An alarm or a bad pointer is `Interrupted`.

`CommandEffect` compares the list at the end of a command with `before`, the list
at its beginning, and is far from inductive. `EffectInv` says at each statement how much
of the effect is done: an insertion has put in as many copies as `qcnt` has
risen by, and one more from the write of `head` or of the last `next` until the loop has
counted it (`Inserted`); a removal has its first string in `loc.taken` from the copy on, and has
taken it off the list once `head` is written; `q_reverse` and `q_size` leave the list as it
was up to their last statement. Its step is `ContentsMove`, a command at a time, with lemmas
on what one more copy in front or behind makes of copies of a string (`OneMoreFirst`,
`OneMoreLast`). That the
list has `qcnt` strings between commands comes from `HeapInv`, and that `q_size`
returns this number from `VerdictInv`.

### Induction

The library's induction theorems take an operator as a parameter, which the
installed provers cannot instantiate. Where a proof needs induction over data (the
binary search, the cut of a concatenation of sequences) it goes over a set
instead: `SetInduction` of `WindowProofs` says that a set of naturals that contains
zero and the successor of each of its members is all of them. What is proved of a
recursive definition is proved of a recursive function, whose argument is a pair
where the recursion has two parameters (`content_get`, `Chain`).

### What the proofs changed in the models

- `Transfer`: a failed send that ends the loop for the rest of a chunk left `sent` and `n`
  as they were; `main` sets both to zero before it reads the next chunk
  (transferserver.c:128), and that they are zero there could not be proved. The bound on
  `offset` in the type invariant compared it with `NoFile` when there was no file.
- `MTServer`: the markers for an answer must not be paths (`NoticesAssumption`).
- `QTest`: the marker for "no list" must not be a list of strings, and `MaxBlocks` must
  leave room for a queue, for what `MaxLen` allows of elements and strings, and for
  one block more (`TesterAssumption`). Two CASEs, of `ReturnAgain` and `Judge`, had arms that
  overlap; TLC takes the first, but what the operator says is either.
- `Content`: sorting is stated as `qsort` specifies it, any ordered rearrangement,
  where it had been the choice of one.

### Only model-checked

Liveness (`Termination`, `EveryoneServed`, `DownloadEnds`, `TransferEnds`, `EchoEnds`,
`CommandsEnd`, `InputEnds`): the proof system has no fairness or ENABLED.

`BTest`'s three properties. `SolutionsAgree` is about the bits of particular 32-bit words,
which TLC evaluates and nobody reasons about. `AllTested` has the power `Count ^ args`,
an operator the provers know nothing of, and without it would be a product of three
unknown factors. `ScoreEarned` sums over a set: that adding a puzzle to `passed` adds its
rating is an induction over the fold, in whichever order it takes the set.

## Plan

1. Done: all modules and runs; the proofs about `MTClient`, `MTServer`, `Steque`, `Transfer` and
   `Echo`, `GetFile` and `Download`, `Console` and `QTest`. Every safety property that a run
   checks, and every refinement, is a theorem, but for those of `BTest`.
2. What a later proof could add: `ScoreEarned`, once there are facts about folds
   over finite sets to cite.
3. Details that the models leave out: an alarm inside `test_malloc` and `test_free`,
   with the block list half linked; `pthread_create` failing in the client.
