-------------------------- MODULE HandleConnection --------------------------
(***************************************************************************)
(* One connection served by blocking I/O: handle_connection and             *)
(* write_response (http/connection/connection_manager.cpp), or for HTTPS    *)
(* handle_tls_connection and ssl_write_response (server/tls.cpp), on top of *)
(* the parser, against a client that sends a stream of bytes in arbitrary   *)
(* segments and may close, reset, fall silent or stop reading.              *)
(***************************************************************************)
EXTENDS RequestParser

CONSTANTS Streams,      \* what the client may send
          ReadMax,      \* sizeof(read_buf), in units
          FileSize      \* size of the served file at first

ASSUME ReadMaxAssumption == ReadMax \in Nat \ {0}
ASSUME FileSizeAssumption == FileSize \in Nat
ASSUME StreamsAssumption == Streams \subseteq Seq(Units)

VARIABLES
  tls,       \* the connection came in on the TLS port
  stream,    \* everything the client sends
  wire,      \* the part of it the server has not read
  peer,      \* the client's end: open, closed (after its last byte) or reset
  reading,   \* the client takes what the server writes
  fileLen,   \* the present length of the served file
  pc, parser,
  pkg,       \* ResponsePackage: the answer, its body_fd, offset and bytes left
  sent       \* history: the answers that went out whole

client == <<tls, stream, peer, reading>>
vars == <<tls, stream, wire, peer, reading, fileLen, pc, parser, pkg, sent>>

NoPkg == [answer |-> ErrorAnswer("none"), fd |-> FALSE, off |-> 0, left |-> 0, whole |-> FALSE]

\* Top of the loops: a request or an error that the parser already holds goes
\* before another read.
After(p) == IF HasRequest(p) THEN "process" ELSE IF HasError(p) THEN "reject" ELSE "read"

Init ==
  /\ tls \in BOOLEAN /\ stream \in Streams /\ wire = stream
  /\ peer = "open" /\ reading = TRUE /\ fileLen = FileSize
  /\ pc = (IF tls THEN "handshake" ELSE "read") /\ parser = NewParser /\ pkg = NoPkg /\ sent = <<>>

(***************************************************************************)
(* The client and the file system.                                          *)
(***************************************************************************)
PeerClose ==
  /\ peer = "open" /\ peer' = "closed"
  /\ UNCHANGED <<tls, stream, wire, reading, fileLen, pc, parser, pkg, sent>>

PeerReset ==
  /\ peer # "reset" /\ peer' = "reset"
  /\ UNCHANGED <<tls, stream, wire, reading, fileLen, pc, parser, pkg, sent>>

PeerStall ==
  /\ reading /\ reading' = FALSE
  /\ UNCHANGED <<tls, stream, wire, peer, fileLen, pc, parser, pkg, sent>>

Truncate ==
  /\ fileLen > 0 /\ fileLen' = fileLen - 1
  /\ UNCHANGED <<client, wire, pc, parser, pkg, sent>>

(***************************************************************************)
(* The server.                                                              *)
(***************************************************************************)
\* SSL_accept succeeds; or SSL_new or SSL_accept fails, also by SO_RCVTIMEO.
Handshake ==
  /\ pc = "handshake"
  /\ \/ peer # "reset" /\ reading /\ pc' = "read"
     \/ pc' = "returned"
  /\ UNCHANGED <<client, wire, fileLen, parser, pkg, sent>>

\* read() or SSL_read() returns n bytes; they are fed and the parser asked.
Read(n) ==
  /\ pc = "read" /\ peer # "reset" /\ n <= Len(wire)
  /\ parser' = Feed(parser, SubSeq(wire, 1, n))
  /\ wire' = From(wire, n + 1)
  /\ pc' = After(parser')
  /\ UNCHANGED <<client, fileLen, pkg, sent>>

\* read() returns 0 (end of stream) or -1 (a reset, or SO_RCVTIMEO elapsed before
\* the next segment of a client that is still open).
ReadFails == peer \in {"open", "reset"} \/ wire = <<>>

\* SSL_read() does so too, but an elapsed timeout is SSL_ERROR_WANT_READ to it, on
\* which the loop reads again.
SslReadFails == peer = "reset" \/ (peer = "closed" /\ wire = <<>>)

ReadEnds ==
  /\ pc = "read" /\ (IF tls THEN SslReadFails ELSE ReadFails)
  /\ pc' = "returned"
  /\ UNCHANGED <<client, wire, fileLen, parser, pkg, sent>>

\* get_request and process_request (inlined for TLS): the answer has a file body,
\* of the size that stat() gives now, or is one string.
Process ==
  /\ pc = "process"
  /\ \E fd \in BOOLEAN :
       pkg' = [answer |-> OkAnswer(parser.request), fd |-> fd, off |-> 0,
               left |-> IF fd THEN fileLen ELSE 0, whole |-> TRUE]
  /\ parser' = AfterGetRequest(parser)
  /\ pc' = "write"
  /\ UNCHANGED <<client, wire, fileLen, sent>>

\* Mutant of Responded: the loop starts with a read, pipelined requests wait.
RespondedThenRead(package) ==
  /\ pkg' = [package EXCEPT !.fd = FALSE]
  /\ sent' = IF package.whole THEN Append(sent, package.answer) ELSE sent
  /\ pc' = IF package.answer.request.close THEN "returned" ELSE "read"

\* After write_response: sent, if every byte was; then return or loop.
Responded(package) ==
  /\ pkg' = [package EXCEPT !.fd = FALSE]
  /\ sent' = IF package.whole THEN Append(sent, package.answer) ELSE sent
  /\ pc' = IF package.answer.request.close THEN "returned" ELSE After(parser)

\* write_all of the header (and of a string body); a failure is ignored.
\* A client that does not read blocks it: the socket has no send timeout.
Write ==
  /\ pc = "write" /\ (reading \/ peer = "reset")
  /\ LET written == [pkg EXCEPT !.whole = (peer # "reset")]
     IN  IF pkg.fd THEN pkg' = written /\ pc' = "sendfile" /\ UNCHANGED sent
                   ELSE Responded(written)
  /\ UNCHANGED <<client, wire, fileLen, parser>>

\* The bytes of the file that are left to send and still exist.
Available == Min({pkg.left, Max({0, fileLen - pkg.off})})

\* sendfile(), or read() and SSL_write(), moves n bytes.  At the end of a file
\* that shrank sendfile() returns 0: the loop goes round without progress.
SendFile(n) ==
  /\ pc = "sendfile" /\ reading /\ peer # "reset"
  /\ n <= Available
  /\ pkg' = [pkg EXCEPT !.off = @ + n, !.left = @ - n]
  /\ UNCHANGED <<client, wire, fileLen, pc, parser, sent>>

\* The sendfile() loop is left when nothing remains, or by break on an error.
SendFileLoopLeft == pkg.left = 0 \/ peer = "reset"

\* The loop of read() and SSL_write() is left at the end of the file too.
SslWriteLoopLeft == pkg.left = 0 \/ peer = "reset" \/ Available = 0

\* Mutant of SendFileDone: every error is retried like EAGAIN.
SendFileDoneRetrying ==
  /\ pc = "sendfile" /\ pkg.left = 0
  /\ Responded(pkg)
  /\ UNCHANGED <<client, wire, fileLen, parser>>

\* body_fd is closed however the loop was left.
SendFileDone ==
  /\ pc = "sendfile" /\ (IF tls THEN SslWriteLoopLeft ELSE SendFileLoopLeft)
  /\ Responded([pkg EXCEPT !.whole = @ /\ pkg.left = 0])
  /\ UNCHANGED <<client, wire, fileLen, parser>>

\* 400 or 413 with Connection: close.
Reject ==
  /\ pc = "reject" /\ (reading \/ peer = "reset")
  /\ sent' = IF peer = "reset" THEN sent ELSE Append(sent, ErrorAnswer(parser.error))
  /\ pc' = "returned"
  /\ UNCHANGED <<client, wire, fileLen, parser, pkg>>

Loop ==
  \/ ReadEnds \/ Process \/ Write \/ SendFileDone \/ Reject
  \/ \E n \in 1..ReadMax : Read(n)
  \/ \E n \in 1..FileSize : SendFile(n)

handle_connection == ~tls /\ Loop
handle_tls_connection == tls /\ (Handshake \/ Loop)
Server == handle_connection \/ handle_tls_connection

Next == PeerClose \/ PeerReset \/ PeerStall \/ Truncate \/ Server

\* The thread runs; without TLS a silent client ends in SO_RCVTIMEO (the Timeout
\* directive only accepts positive values).
Spec == Init /\ [][Next]_vars /\ WF_vars(Server)
-----------------------------------------------------------------------------
\* Types of the connection's state.  body_fd is open only while the response is
\* written.
TypeOK ==
  /\ IsSuffix(wire, stream)
  /\ peer \in {"open", "closed", "reset"} /\ reading \in BOOLEAN
  /\ fileLen \in 0..FileSize
  /\ pc \in {"handshake", "read", "process", "write", "sendfile", "reject", "returned"}
  /\ parser.state \in {"RequestLine", "Headers", "Body", "Done", "Error"}
  /\ parser.remaining \in 0..MaxBody
  /\ pkg.left \in 0..FileSize /\ pkg.off \in 0..FileSize
  /\ (pkg.fd => pc \in {"write", "sendfile"})

Consumed == SubSeq(stream, 1, Len(stream) - Len(wire))

\* The TLS loop goes on after a file that shrank under it, although the client
\* still waits for the bytes that Content-Length promised.
TornByTls == tls /\ fileLen < FileSize

\* However TCP cuts the stream and however many requests a read brings, the
\* client gets the answers that the bytes read so far call for, in order, each
\* whole before the next.  A 400 may come instead where a line is too long.
RepliesInOrder ==
  \/ TornByTls
  \/ IsPrefix(sent, Answers(Consumed))
  \/ /\ HasLongLine(stream) /\ sent # <<>> /\ Last(sent).status = 400
     /\ IsPrefix(Front(sent), Answers(Consumed))

\* When handle_connection returns to the worker, which closes the socket, every
\* request it has read, pipelined ones included, has been answered (unless the
\* client reset the connection).
RepliesComplete ==
  pc = "returned" /\ peer # "reset" /\ ~HasLongLine(stream) /\ ~TornByTls
    => sent = Answers(Consumed)

\* Whenever it reads again, the parser buffers no more than the longest line or
\* the largest body allows.
BufferBounded == pc = "read" => Len(parser.buffer) <= Max({MaxLine, MaxBody})

\* handle_connection returns, whatever the client sends and however it ends,
\* provided that it takes what it is sent and the file keeps its length; so does
\* handle_tls_connection, if the client does not stay connected in silence.
CooperativeConnectionEnds ==
  [](reading /\ fileLen = FileSize) /\ (tls => <>(peer # "open")) => <>(pc = "returned")
=============================================================================
