# Verification of cpp-httpd

TLA+ models, TLC runs and TLAPS proofs for the HTTP server in `src/`. The
models follow the code; where a comment or the readme says something else, a
run shows the difference (see "Disagreements").

## 1. The system

| Component | State | Operations | Hard because |
|---|---|---|---|
| Thread pool (`server/thread_pool_mode.cpp`) | queue of descriptors, mutex, condition variable, one thread per worker | accept, push, notify, wait, pop, serve, close; sentinels and joins at the end | interleavings, lost and spurious wakeups, reuse of descriptor numbers, order of sentinels |
| Management thread (`server/management_thread.cpp`) | `accepting_connections`, shutdown pipe | `shutdown` command, end of input; `wait_for_accept_or_shutdown` for the acceptors | one byte for several readers |
| Event loop (`server/select_mode.cpp`, `server/poller.hpp`) | queue, wake pipe, per worker a poller and a map of `ConnState` | accept, push, wake; drain, pop, dispatch, time out, close | hand-over without a condition variable, edge-triggered polling, partial I/O, shutdown |
| Blocking connection (`http/connection/connection_manager.cpp`) | parser, `ResponsePackage` | read, feed, process, write, `sendfile` | pipelining, silent, slow or resetting clients, files that shrink |
| Request parser (`http/core/request_parser.cpp`) | buffer, state, request, error, bytes of body left | `feed`, `get_request`, `reset` | any segmentation of the stream, limits |
| CGI handler (`http/handlers/cgi_handler.cpp`) | two pipes, a child process | fork, exec, write body, read output, time out, reap | concurrent forks inherit pipe ends, blocking calls on both sides |
| Server start and end (`server/server.cpp`, `server/socket_setup.cpp`, `main.cpp`) | descriptor numbers of listen sockets and pipe, threads | `run`, TLS acceptor, detached connection threads, joins | a closed number that another thread still uses, joins that wait for an `accept()`, each step of start-up may fail |
| TLS connections (`server/tls.cpp`) | as for a blocking connection, and the `SSL` | handshake, the same loop over `SSL_read` and `SSL_write` | the same hazards with other answers to them |
| Request pipeline (`http/handlers/request_handler.cpp`) | `PhaseContext`, per request | FindConfig, Access, Content, Log | ownership of `body_fd`, a path that is replaced after it was authorised |
| Static files and directories (`static_file_handler.cpp`, `directory_handler.cpp`) | the disk, which others write to | conditional requests, Accept, ranges, index files, listings | several system calls on a file that changes between them, numeric edges |
| Virtual hosts and paths (`vhost_resolver.cpp`, `request_handler_utils.cpp`), authentication (`auth_handler.cpp`), configuration (`config/config.cpp`) | none | pure functions of text | `..`, prefixes, order of lines and blocks |
| Logger (`http/core/logger.hpp`) | a stream, a mutex | one line per request | |

The management thread and the acceptor meet in the shutdown pipe; the acceptor
and the workers in the queue (under `queue_mutex`) and, in the event loop, the
wake pipe. A worker owns a connection from the pop to the `close`. Within a
connection the parser hands requests to `process_request`, which calls the
request handler, which may call `run_cgi`. Every hazard we know of is listed in
`PROJECT.json` at its line, with the properties that guard against it.

What makes each part correct: no accepted connection is lost, served twice or
left open; wakeups and wake bytes are not lost; shutdown ends; every complete
request is answered once and in order, whatever the segmentation; buffers are
bounded; a connection or a CGI call does not get stuck; no descriptor or zombie
is left behind.

## 2. Modules

| Module | Models | Correspondence |
|---|---|---|
| `ConnectionService` | the promise of the thread pool | first accepted, first taken; served by at most `Capacity` at once; stopped only when drained |
| `ThreadPool` | `thread_pool_mode.cpp`, `management_thread.cpp`, `accept_connection` | `accPc`, `wpc`, `mainPc`, `mgmtPc` are the threads' control points, `accFd` and `wfd` their local `client_fd`; each critical section is one action, because every access to the queue is under `queue_mutex`; `sock` is the descriptor table |
| `ThreadPoolProofs` | proofs about `ThreadPool` | ownership, draining, wakeups; the refinement of `ConnectionService` |
| `RequestParser` | `request_parser.cpp` | a parser is a record; `Feed`, `AfterGetRequest` and `NewParser` are `feed`, `get_request` and `reset`, `Advance` the loop in `advance`. Apart from them, `Answers` says what a whole byte stream is owed |
| `ParserProofs` | lemmas about `RequestParser` | where a parser stands in a stream, and what the stream still owes |
| `HandleConnection` (+ `MCHandleConnection`) | `handle_connection`, `process_request`, `write_response`, `write_all` | `pc` is the position in the two loops; `pkg` is the `ResponsePackage` |
| `HandleConnectionProofs` | proofs about `HandleConnection` | on top of `ParserProofs` |
| `EventLoop` | `acceptor_loop_select`, `try_accept_from_queue`, the frame of `run_event_loop_worker`, `run_select_loops` | `wakePipe` and `pipe` count bytes; `wakeEdge` and `stopEdge` are unreported edges of each worker's poller; `tokens` are wake bytes read and not yet acted on; `conns` is the map |
| `EventLoopProofs` | proofs about `EventLoop` | |
| `EventConnection` (+ `MCEventConnection`) | `process_readable`, `process_writable`, `reset_conn_to_reading`, the timeout scan | `parser`, `phase`, `out`, `fd`, `left` are the fields of `ConnState`; `edge` is the poller's unreported edge; `room` the free part of the send buffer |
| `EventConnectionProofs` | proofs about `EventConnection` | on top of `ParserProofs` |
| `Cgi` | `run_cgi` and what it calls, once per worker thread | `holders` says which processes hold each pipe end; `fork` copies, `close` and `exit` remove |
| `CgiProofs` | proofs about `Cgi` | |
| `CgiOutput` | `parse_cgi_output` | the output is a sequence of line ends and line starts |
| `Configuration` | `load_config` | a recursive function over the lines; `AsWritten` says by position what it must give |
| `Server` (+ `MCServer`) | `HttpServer::run`, `main`, `create_listen_socket`, `tls_acceptor_loop`, `management_thread_func` | `fds` is the descriptor table, the other numbers are the variables of `run`; `main`, `mgmt`, `acceptor`, `client` are the control points of the threads. `run_thread_pool` and `run_select_loops` are one step each, which `ThreadPool` and `EventLoop` detail |
| `ServerProofs` | proofs about `Server` and `Configuration` | the descriptor table; what the lines read so far mean |
| `PathResolver` | `normalize_path`, `path_under_root`, `resolve_path`, `resolve_vhost` | texts are sequences of `Characters`, the loops recursive functions over them; `Walk` says where a path leads without a stack |
| `StaticFile` | `parse_range`, `generate_etag`, `check_accept`, the two conditions of a 304 | `Named` says which bytes a range names |
| `AuthHandler` | `parse_htaccess`, `check_htaccess_and_auth` | base64 texts stand for what they decode to |
| `RequestHandler` (+ `MCRequestHandler`) | `RequestHandler::handle` with the static file and directory handlers, and the sending of a file | one action per system call; `pc` is the position, `path` and `st` are fields of `PhaseContext`, `resp` the response with its `body_fd`, `file` what that refers to, `disk` what others change, `cache` the copy that a client keeps |
| `RequestHandlerProofs` | proofs about `RequestHandler`, the arithmetic of `StaticFile`, `PathResolver` and `CgiOutput` | one section for each, the pure functions first |

`HandleConnection` has both variants of a blocking connection: `tls` selects
`handle_tls_connection`, which adds a handshake and differs in how a read and the
loop over a file end (`SslReadFails`, `SslWriteLoopLeft`). `RequestHandler`
composes the four pure modules with the file system; `Server` composes
`Configuration` with the threads.

`HandleConnection` and `EventConnection` are built on `RequestParser` and are
checked against the same reference `Answers`. `Dispatch` of `EventLoop` stands
for what `EventConnection` details: within a worker connections do not share
state, so that one connection is modelled in full and the others only by where
they are.

**Abstraction of data.** A byte stream is a sequence of units: `CR`, `LF`, and
units that stand for the part of a line that decides something (a known or
unknown method, `Connection: close`, a `Content-Length` of some size, another
header, other text). A line starts with such a unit. The request handler is a
choice between a string and a file as the body of a 200, since the connection
code does not distinguish more. `GET` stands for `HEAD` and `OPTIONS` in the
parser, which treats them alike. A body, a file, a send buffer and a pipe hold a
few units. In `RequestHandler` a byte of a file says which change wrote it, so that
a copy put together from two versions is visible; names are single characters.

## 3. Runs

Passing runs:

| Run | Bounds | Shows |
|---|---|---|
| `thread_pool` | 3 connections, 2 descriptors, 2 workers | `DescriptorOwnership`, `DrainedAtReturn`, `NoLostWakeup`, `ShutdownCompletes`, and `ServiceSpec`: the pool implements `ConnectionService`, its fairness included |
| `handle_connection` | streams of up to three requests, reads of 1 to 3 units, lines of 3, bodies of 2, a file of 1 | `RepliesInOrder`, `RepliesComplete`, `BufferBounded`, `CooperativeConnectionEnds` |
| `event_loop` | 3 connections, one or two workers, or none where the wake pipe cannot be made, both pollers, batches of 2 wake bytes | `WakeBytesMatchQueue`, `NoConnectionStranded`, `ConnectionOwnedOnce`, `QueuedIsServed` |
| `event_connection` | two-request streams, both pollers, send buffer of 3, `write_buf` of 2, file of 2, reads of 3 | `RepliesInOrder`, `RepliesComplete`, `UnreadIsRead`, `ResponseIsWritten` |
| `server` | every configuration file of up to 4 lines out of 10, or none that opens, 2 TLS clients, 6 descriptor numbers, with and without an `accept()` that `close()` wakes | `ReturnedClean`, `ShutdownByteGoesToPipe`, `RunReturns`, `LoadedAsWritten` |
| `request_handler` | 47 kinds of requests, plain and TLS, two in a row by a client with a cache, two changes of a file of 2 or 3 bytes, two moments of time | `DescriptorOwned`, `OpenedIsAuthorised`, `BodyAsAnnounced`, `NotModifiedIsCurrent`, `RequestIsAnswered`, and over bounded inputs `ResolvesLikeWalk` (paths of up to 5 characters below 4 roots), `RangesAreExact` (files of up to 3 bytes), `CgiOutputSplit` (2 header lines, bodies of up to 5 units) |
| `cgi` | 2 overlapping calls, bodies of 0 or 2, output of 2, pipes of 1; all kinds of scripts, both dispositions of SIGPIPE | `NothingLeftBehind`, `OutputWhole`, `TimeoutExplained`, `CallsReturn` |

Why the bounds are enough to be interesting: with fewer descriptors than
connections numbers are reused and `accept` runs out of them; two workers and
three connections give competing consumers with a queue longer than one; a
batch smaller than the number of wake bytes needs the inner loop; a read smaller
than a request splits every request, one larger than a request pipelines; a send
buffer smaller than a response (and, once filled in part, smaller than `write_buf`
alone), and a pipe smaller than a body or an output, make writes partial.
Nothing is capped but the sets themselves, except time in `EventConnection`, which
stops at `Timeout`.

In `RequestHandler` a second request is only for what the client has a copy of:
the `PhaseContext` ends with a request, so that nothing else is left of the first
one, and the changes of the disk may all come before it. Two changes are needed
for a file that gets the inode, size and time of an earlier version. A file that
was cut does not grow again there, since it is written in one size only. Six
descriptor numbers are two fewer than two clients and the server's own four can
use, so that numbers are reused and run out.

`CHECK_DEADLOCK FALSE` everywhere: servers, connections and calls end.

### Disagreements

| Run | Property | The code |
|---|---|---|
| `event_loop_shutdown` | `ShutdownCompletes` | one byte is written, the acceptor and each worker read one from a blocking pipe: the event loop does not shut down (`select_mode.cpp:210`, `management_thread.cpp:43`) |
| `event_connection_pipelining` | `PipelinedIsAnswered` | `parser.reset()` drops pipelined requests that `get_request` has begun to parse (`select_mode.cpp:86`) |
| `event_connection_edge` | `ReadyIsReported` | one bounded `read` per edge: the rest is not reported (`select_mode.cpp:100`, `poller.hpp:103`) |
| `event_connection_idle` | `OnlyIdleTimesOut` | `accepted_at` is not refreshed: an active connection is closed as idle (`select_mode.cpp:79`, `255`) |
| `cgi_hang` | `HangingScriptGets504` | the body is written before the timeout is armed: a script that hangs without reading it blocks the worker (`cgi_handler.cpp:88`) |

The passing runs state the corresponding properties under the condition that
excludes the disagreement: clients that do not pipeline, receive buffers within
one read, bodies within the pipe. Other properties carry conditions that name
what the code does not give:

- `RunReturns` excepts `WaitsForTls`: on Linux `close()` does not end an
  `accept()` that another thread is in, so that `run()` waits in `join()` until
  one more TLS client connects (`server.cpp:88`; `server.cpp:22` says "Runs until
  the listen socket is closed"). It is stated for the thread pool, because the
  event loop does not return (`event_loop_shutdown`). When the loops end on their
  own, because `select()` fails in the pool's acceptor or `run_select_loops` cannot
  make its wake pipe, `run()` waits for the operator as well, whose command may then
  be written to a descriptor that has taken the pipe's number:
  `ShutdownByteGoesToPipe` excepts that case (`loopsFailed`).
- `RequestIsAnswered` says that every request is answered, whatever happens to the
  files, but for two things that the code does. `std::stoull` may throw, which ends
  the process. And at the end of a file that shrank `sendfile()` returns 0, on which
  neither `write_response` (`connection_manager.cpp:94`) nor `process_writable`
  (`select_mode.cpp:154`) leaves its loop: a plain connection spins (`Spins`) for as
  long as the file stays short. `SendDone` has no way out of that loop; only
  `ssl_write_response` breaks off (`BreaksOff`, `tls.cpp:92`). The run cuts files
  under plain and TLS connections, so both happen in it.
- `RepliesInOrder` and `RepliesComplete` except `TornByTls`: when a file shrinks
  while it is sent, the TLS loop stops short of `Content-Length` and goes on with
  the next request (`tls.cpp:92`), where the plain one spins.
- `CooperativeConnectionEnds` needs a TLS client to close: an elapsed
  `SO_RCVTIMEO` is `SSL_ERROR_WANT_READ`, on which the loop reads again
  (`tls.cpp:153`; `tls.cpp:115` announces a read timeout).
- `NotModifiedIsCurrent` excepts changes that a validator cannot show: an ETag of
  inode, size and time that was there before, and, for `If-Modified-Since`, a file
  that did not get younger. Both headers are looked at and either gives a 304.
- `RangesAreExact` lets a range whose last byte lies behind the end of the file be
  refused (416), and excepts numbers on which `std::stoull` throws; nobody
  catches that, and the process ends (`static_file_handler.cpp:38`).
- `TimeoutExplained` names what leads to a 504: the script hangs or is slow, a
  concurrent child holds an inherited end of a pipe, or `select()` or `read()` fails
  (`ReadFails`, cause `"error"`), which `cgi_handler.cpp:125-142` answers in the same
  way (`GiveUp`).
- `CgiOutputSplit` excepts a script that ends its header lines with LF and prints
  an empty CRLF line in its body: `\r\n\r\n` is looked for first, in all of the
  output (`cgi_handler.cpp:164`).

Differences between code and text that no run is about: `HEAD` for a script is
answered with its body; OPTIONS is answered after authentication and the look at
the file, although `request_handler.cpp:128` says before; `config.hpp:22` wants
three directives for TLS, the code two.

### Fairness

Threads that can run eventually do (`WF` on each thread's steps); the mutex
starves nobody, so a worker that wants the lock gets it; `accept` does not fail
for ever while a connection waits. Clients, the operator, `select` errors and
spurious wakeups owe nothing. In `ThreadPool` a worker's `handle_connection`
returns: that is `CooperativeConnectionEnds` of `HandleConnection`, which needs a
client that takes what it is sent and a file that keeps its length; `SO_RCVTIMEO`
ends the wait for a silent one (`Timeout` only accepts positive values). In
`EventConnection` only the worker is fair, and time need not pass, so that
liveness is not owed to a timeout; `ResponseIsWritten` names what it assumes of
the client and of the file. In `Cgi` threads and scripts are scheduled and `select`
times out; an error of `select` or `read` may come and is not relied upon. In
`Server` threads run, a file is sent in the end, and `run_thread_pool` returns
after the shutdown byte, which `ThreadPool` shows; a client need not connect. In
`RequestHandler` the worker goes on, which includes that it spins; the disk, time
and clients owe nothing, so that a file that was cut need not grow again.

## 4. Proofs

The theorems hold for all values of the constants that satisfy the `ASSUME`s named
below, where a run has one small instance. Each proof of an invariant has one lemma
per conjunct or per action, and in it one step per action or per conjunct. The
inductive invariants were checked by TLC on the runs' instances before they were
proved.

| Module | Proves `Spec => []P` for P = | Rests on |
|---|---|---|
| `ThreadPoolProofs` | `TypeOK`, `DescriptorOwnership`, `DrainedAtReturn`, `NoLostWakeup`; the safety half of `ServiceSpec` | `NoConn` is no connection, descriptors are natural numbers, workers are finite in number and not none |
| `HandleConnectionProofs` | `TypeOK`, `RepliesInOrder`, `RepliesComplete`, `BufferBounded` | the client sends units; sizes are natural numbers, reads take at least one unit |
| `EventLoopProofs` | `TypeOK`, `ConnectionOwnedOnce`, `WakeBytesMatchQueue`, `NoConnectionStranded` | as for the pool; a batch has at least one byte |
| `EventConnectionProofs` | `TypeOK`, `RepliesInOrder`, `RepliesComplete` | `ends` of a stream says truthfully where its requests end (`StreamsAssumption`); sizes as above |
| `CgiProofs` | `TypeOK`, `NothingLeftBehind`, `OutputWhole`, `TimeoutExplained` | no call is named `"server"`; sizes |
| `ServerProofs` | `TypeOK`, `ReturnedClean`, `ShutdownByteGoesToPipe`, `LoadedAsWritten` | descriptor numbers are positive; a configuration file is a sequence of lines of a key and a number |
| `RequestHandlerProofs` | `TypeOK`, `DescriptorOwned`, `BodyAsAnnounced`, `NotModifiedIsCurrent`, `OpenedIsAuthorised`, `RangesAreExact`, `ResolvesLikeWalk`, `CgiOutputSplit` | the disk (below), the methods the parser knows; sizes; document roots and URIs are texts (`PathsAssumption`), with `/`, `.` and the names of index files among the characters |

**Thread pool.** `DescriptorOwnership` and `DrainedAtReturn` are not inductive. `IInv`
adds what they rest on: the pipe is empty until the management thread has exited
(`PipeInv`, which gives the one-byte bound in `TypeOK`); an acceptor that goes to
`accept` has a connection to accept (`BacklogInv`); the local `client_fd` variables
hold a descriptor exactly between taking it over and handing it on (`LocalInv`);
sentinels are queued only after the acceptor was joined and are the tail of the
queue, so that a worker that exits leaves nothing but sentinels (`SentinelInv`).
`NoLostWakeup` counts workers: a push adds one element and one notified worker, and
a spurious wakeup only adds workers on their way. `ImplementsService` shows that
every step maps to a step of `ConnectionService` or leaves it alone. For that the
queue must be descriptors followed by sentinels (`FrontInv`) and each connection
must be in one place of the kernel or the server (`ConnInv`); then the mapped
`waiting` is the queue's descriptors, looked up, and the acceptor's own. The
fairness of `ServiceSpec` stays with TLC.

**Parser and connections.** What the parser makes of a stream is a recursive
function, and induction over data is not available. The proofs use what is: every
non-empty set of numbers below a bound has a least and a greatest element, from which
a least counterexample is refuted (`LeastNumber`, `GreatestMember` in
`ParserProofs`). `StandsIn(s, c, p, b)` relates a parser `p` that was fed the first
`c` units of the stream `s` to the position `b` where its request begins: at the
request line, in the headers, in the body, done, or failed. `Advance` keeps it
(`AdvanceStands`), any segmentation of the input included (`FeedStands`). Against
it stands the reference `Answers`, defined on whole streams without a parser:
`Owing(s, c, sent, b)` says that for however much of the stream will have been read
in the end, its answers are those sent and those due from `b` on.
In `HandleConnectionProofs` `IInv` says that in every state before the return there
is such a `b` (`Accounted`); a request that is done moves `b` behind itself
(`OwingRequest`), and an answer that went out whole moves to `sent` (`OwingNext`). An
exception in the property, the 400 for a line that is too long, is due to the
limit being looked at only when a line is incomplete, so that it depends on the
segmentation. In `EventConnectionProofs` there is one step more:
`reset_conn_to_reading()` drops what the parser still holds. That is harmless if the
client has sent nothing behind the request that was answered, and the invariant
says so by counting: the requests that end before `b` are as many as the answers
sent (`Before`), a client that does not pipeline does not begin the next one, so
that nothing has arrived behind the first end from `b` on (`ReadsAt`,
`StopsBehindRequest`).

**Event loop.** `IInv` adds to the four properties what threads and pollers know of
each other: `AcceptorInv`, `WorkersInv`, `BacklogInv`, `StartedInv` (without a wake
pipe there are no workers, and nobody writes a byte), and `Alert`: with an
edge-triggered poller, bytes left in the wake pipe have a worker that still has an
unreported edge or is draining, unless one has been told to stop. `Alert` is what
makes `NoConnectionStranded` inductive.

**CGI.** For each call `RunInv` says which ends of its pipes the server and the
child hold at each point (`ServerEnds`, `ChildEnds`), that bytes are conserved from
body to script and from script to response (`Conserved`), and that a timeout or an
end of file was told by what happened (`Told`). `HoldersLive` says that only living
processes hold ends: other calls' children may hold ends of this call's pipes, and
`OtherRun` shows that this does not matter to its invariant.

**Server.** `ShutdownByteGoesToPipe` rests on `SInv`: while `run()` is starting up or
in its loops `pipe_w` is open and no connection has its number (`PipeKept`, since a
number handed out was free); a byte in the pipe means that the management thread has
ended (`ByteIsLast`), so `run()` leaves its loops, and closes the pipe, only after
that (`WritesInLoops`). It breaks where the loops end without the byte, which is why the property
excepts it. That the lowest free number is free needs that the natural numbers are
well-founded (`LowestIsFree`). For `ReturnedClean`, `RInv` gives each number of the
table one owner: the server's own numbers by the point `run()` has reached
(`MainsTable`), the others by their connection (`ClientsTable`, `OneOwner`), so that
no `close` hits a number that was handed out again.

**Configuration.** `LoadedAsWritten` compares what the loop of `load_config` has
collected with a definition by positions: which lines stand outside of blocks, which
is the last of them for each key, which block is the n-th. `ReadSoFar` says that for
every prefix of the file the two agree, and that the block being read is the last one
opened. A least prefix where it fails is refuted (`UpTo`, `LineRead`): a line more
leaves all earlier positions inside or outside as they were (`InsideSame`), and adds
itself to the lines that count or changes nothing (`OutsideNext`, `HostTextNext`).
After a line that is refused the prefix is unacceptable for good, and only then.

**Request handler.** Three invariants, each on top of the other. `IInv`: the
response has a descriptor exactly between `open` and its `close`. `BInv`: what is sent
of a file is a part of it in the announced length, copied from one place on, as
long as the file stays as `stat` saw it (`Sending`, `SentAll`). `HInv`: a client's
copy, or the one it is being sent, is a version of the file, and the file has
changed since only in ways that a validator shows (`Transfer`, `Copy`). The
disk is assumed to have no hard links among the files that change, and `Replace` to
use new inodes (`DisksAssumption`). A 304 that a script prints itself is no
statement about a file, and `NotModifiedIsCurrent` leaves it out. `BodyIsAsAnnounced`
and `RangesHold` are about unsigned numbers, the ones `std::stoull` reads; they say
so in an assumption on `Numbers` and `TestNumbers`. A fourth, `AInv`, is about where the
path leads: `phase_find_config` leaves a normal path below the root (`ResolvedBelow`),
`phase_access` allows its directory, and the index file that `serve_directory_index`
puts in its place lies in that directory (`IndexFile`), so that what was allowed is
what is opened (`OpenedAuthorised`).

**Paths.** The loops of `normalize_path` are recursive functions over a text. Functions
of this form have a unique value on every finite text, which `UpTo` gives by a least
prefix without one; from it follow the laws of one step and of concatenation for
`Segments`, `Stack` and `Joined`. A path and the names it is written from determine
each other, so that prefixes of texts at a `/` are prefixes of lists of names: what
`path_under_root` compares is what it means (`UnderIsBelow`, `BelowIsUnder`). The
reference `Walk` has no stack: it counts `..` and names behind each name. That the
stack holds just the names that no `..` takes back is an invariant of the loop, with the
place in the path that each entry came from as its witness (`Placed`). `ResolvesAsNames`
holds for absolute roots, which the `realpath()` in `main` makes of a root that exists.

**Script output.** `OutputSplits` locates the empty line: no header line has one in it,
so the first CRLFCRLF, or LFLF where there is none, is at the end of the header lines,
and each line in front of it begins where the script began it. It needs that there is
a header line, and that a body behind LF line ends has no CRLFCRLF in it, which
`parse_cgi_output` would take for the end of the header; `CgiOutputSplit` says so too.

Proving has corrected the models where runs could not: the variable `tls` was
missing in `vars` of `HandleConnection`, and two `CASE`s, in `resolve_vhost` and in
`check_htaccess_and_auth`, had guards that could hold together.

Model-checked only:

- liveness (`ShutdownCompletes`, `CooperativeConnectionEnds`, `QueuedIsServed`,
  `UnreadIsRead`, `ResponseIsWritten`, `CallsReturn`, `RunReturns`,
  `RequestIsAnswered`) and the fairness of `ServiceSpec`: the prover has no ENABLED;
- what `StaticFile`, `AuthHandler` and `resolve_vhost` compute beyond the above: a
  host, a validator or a password is an input of the proofs.

Every invariant of the passing runs has a theorem.

Some hazards have no property that forbids them, because the code has them: a
client that stops reading keeps a blocked `write()` or a Writing connection for
ever, and a silent TLS client its thread. The models contain these behaviours, and
the liveness properties name them in their conditions; `PROJECT.json` says so at
each such hazard.

## 5. Not modelled

Logging, the text of responses, listings, dates and content types, the
environment of CGI scripts, and the `realpath()` of document roots are
formatting. The calls of OpenSSL are taken to do what they promise, and
`SslServerContext::init` to succeed or fail. Symbolic links are not on the disk
of `RequestHandler`, and `.htaccess` does not change. That detached TLS threads
use a destroyed handler after `run()` has returned is undefined behaviour that no
property states. Of the kernel: SIGPIPE, except in
`Cgi`; the 64 events of one `wait`; the capacity of the wake pipe (65536 bytes,
one per queued connection); the inheritance of client and listen sockets by CGI
children. A worker of `EventLoop` that reads no shutdown byte keeps its
connections; those left in the queue at shutdown are not closed, as in the code.

## 6. Plan

1. *(done)* `ThreadPool` with `ConnectionService` and proofs; `RequestParser`,
   `HandleConnection`; `EventLoop`; `EventConnection`; `Cgi`.
2. *(done)* `Configuration`, `Server`; TLS in `HandleConnection`; `PathResolver`,
   `StaticFile`, `AuthHandler`, `CgiOutput`, `RequestHandler`.
3. *(done)* Proofs: every safety invariant of the passing runs;
   `ThreadPool` implements the safety part of `ConnectionService`.
4. *(done)* The pure functions of paths and script outputs as recursive functions, and
   what they compute for every input; with them `OpenedIsAuthorised`.
5. `EventLoop` as an implementation of `ConnectionService`, with room for every
   connection as its `Capacity`: a worker of the event loop serves many at once.
