-------------------------- MODULE EventConnection --------------------------
(***************************************************************************)
(* One connection in the event loop: process_readable, process_writable,    *)
(* reset_conn_to_reading and the timeout scan of run_event_loop_worker      *)
(* (server/select_mode.cpp), over a level-triggered poller (KqueuePoller)   *)
(* or an edge-triggered one (EpollPoller).                                  *)
(*                                                                          *)
(* The client sends its requests one after the other, each after the answer *)
(* to the one before or, when it pipelines, as soon as it likes.            *)
(***************************************************************************)
EXTENDS RequestParser

CONSTANTS Streams,    \* what the client may send: bytes, and where each request ends
          ReadMax,    \* read_buf_size, in units
          Room,       \* capacity of the socket's send buffer, in units
          BufSize,    \* length of write_buf, or of an error answer, in units
          FileSize,   \* size of the served file when it was stat()ed
          Timeout     \* timeout_seconds, in ticks

ASSUME BoundsAssumption ==
  /\ ReadMax \in Nat \ {0} /\ Room \in Nat \ {0} /\ BufSize \in Nat \ {0}
  /\ FileSize \in Nat /\ Timeout \in Nat \ {0}

\* A request that begins the stream, or follows on another, ends at the next end.
ASSUME StreamsAssumption ==
  \A s \in Streams :
    /\ s.bytes \in Seq(Units) /\ s.ends \subseteq 1..Len(s.bytes)
    /\ \A b \in {1} \cup {e + 1 : e \in s.ends} :
         LET next == ReplyAt(s.bytes, b).next
         IN  next # 0 => /\ next - 1 \in s.ends
                         /\ \A e \in s.ends : e >= b => e >= next - 1

VARIABLES
  edgeTriggered,  \* which poller the build uses
  pipelining,     \* whether the client pipelines
  stream,         \* what it sends on this connection
  arrived,        \* how many of the bytes are at the server
  consumed,       \* how many of those the worker has read
  peer,           \* open, closed (end of stream is in the receive buffer), reset
  room,           \* free units in the send buffer
  fileLen,        \* present length of the served file
  edge,           \* the poller has an edge it has not yet reported
  parser, phase,  \* ConnState: parser; Reading or Writing, or Closed
  out, fd, left,  \* ConnState: unsent units of write_buf, sendfile_fd >= 0, sendfile_size
  answer,         \* what write_buf and the file hold
  age, idle,      \* ticks since accept (now - accepted_at), since bytes were last read
  why,            \* history: why the connection was closed
  sent,           \* history: the answers that went out whole
  hung            \* the loop around sendfile() spins

env == <<edgeTriggered, pipelining, stream>>
client == <<arrived, peer, fileLen>>
response == <<out, fd, left, answer>>
clock == <<age, idle>>
vars == <<env, arrived, consumed, peer, room, fileLen, edge, parser, phase, response, clock, why, sent, hung>>

Consumed == SubSeq(stream.bytes, 1, consumed)

\* The receive buffer.
sock == SubSeq(stream.bytes, consumed + 1, arrived)

NoAnswer == ErrorAnswer("none")

Init ==
  /\ edgeTriggered \in BOOLEAN /\ pipelining \in BOOLEAN
  /\ stream \in Streams /\ arrived = 0 /\ consumed = 0 /\ peer = "open"
  /\ room = Room /\ fileLen = FileSize /\ edge = TRUE
  /\ parser = NewParser /\ phase = "Reading"
  /\ out = 0 /\ fd = FALSE /\ left = 0 /\ answer = NoAnswer
  /\ age = 0 /\ idle = 0 /\ why = "none" /\ sent = <<>> /\ hung = FALSE

(***************************************************************************)
(* The client, the network, the file system and the clock.                  *)
(***************************************************************************)
\* A request begins to arrive only after the earlier ones were answered, unless
\* the client pipelines.
MaySend(n) == pipelining \/ Cardinality({e \in stream.ends : e < n}) <= Len(sent)

Arrive(n) ==
  /\ peer = "open" /\ phase # "Closed" /\ n > arrived /\ MaySend(n)
  /\ arrived' = n
  /\ edge' = (edge \/ phase = "Reading")
  /\ UNCHANGED <<env, consumed, peer, room, fileLen, parser, phase, response, clock, why, sent, hung>>

PeerClose ==
  /\ peer = "open" /\ phase # "Closed" /\ peer' = "closed"
  /\ edge' = (edge \/ phase = "Reading")
  /\ UNCHANGED <<env, arrived, consumed, room, fileLen, parser, phase, response, clock, why, sent, hung>>

PeerReset ==
  /\ peer # "reset" /\ phase # "Closed" /\ peer' = "reset" /\ edge' = TRUE
  /\ UNCHANGED <<env, arrived, consumed, room, fileLen, parser, phase, response, clock, why, sent, hung>>

\* The client reads; an edge follows if the send buffer was full.
ClientDrains ==
  /\ room = 0 /\ phase # "Closed" /\ room' = Room
  /\ edge' = (edge \/ phase = "Writing")
  /\ UNCHANGED <<env, arrived, consumed, peer, fileLen, parser, phase, response, clock, why, sent, hung>>

Truncate ==
  /\ fileLen > 0 /\ fileLen' = 0 /\ phase # "Closed"
  /\ UNCHANGED <<env, arrived, consumed, peer, room, edge, parser, phase, response, clock, why, sent, hung>>

Tick ==
  /\ age < Timeout /\ phase # "Closed"
  /\ age' = age + 1 /\ idle' = idle + 1
  /\ UNCHANGED <<env, arrived, consumed, peer, room, fileLen, edge, parser, phase, response, why, sent, hung>>

(***************************************************************************)
(* The poller.                                                              *)
(***************************************************************************)
Readable == sock # <<>> \/ peer # "open"
Writable == room > 0 \/ peer = "reset"

Reported(ready) == ~hung /\ ready /\ (edgeTriggered => edge)

(***************************************************************************)
(* The worker.                                                              *)
(***************************************************************************)
\* to_remove: close sendfile_fd and the socket, erase the ConnState.
Close(reason) ==
  /\ phase' = "Closed" /\ why' = reason
  /\ out' = 0 /\ fd' = FALSE /\ left' = 0 /\ answer' = NoAnswer

\* The socket's bytes that one read() returns.
ReadCount == Min({Len(sock), ReadMax})

\* read() returns 0 or fails.
ReadNothing ==
  /\ phase = "Reading" /\ Reported(Readable)
  /\ sock = <<>> \/ peer = "reset"
  /\ Close(IF peer = "reset" THEN "reset" ELSE "end_of_stream")
  /\ edge' = FALSE
  /\ UNCHANGED <<env, client, consumed, room, parser, clock, sent, hung>>

\* One read() of at most ReadMax; then a request becomes a response, an error is
\* answered at once (as far as the send buffer takes it) and closes.
ReadSome ==
  /\ phase = "Reading" /\ Reported(Readable) /\ sock # <<>> /\ peer # "reset"
  /\ consumed' = consumed + ReadCount /\ idle' = 0
  /\ \E p \in {Feed(parser, SubSeq(sock, 1, ReadCount))} :
         CASE HasRequest(p) ->
                /\ parser' = AfterGetRequest(p)
                /\ phase' = "Writing" /\ edge' = (room > 0)
                /\ answer' = OkAnswer(p.request)
                /\ out' = BufSize /\ fd' \in BOOLEAN /\ left' = IF fd' THEN FileSize ELSE 0
                /\ UNCHANGED <<room, why, sent>>
           [] HasError(p) ->
                /\ parser' = p /\ Close("error") /\ edge' = FALSE
                /\ room' = room - Min({BufSize, room})
                /\ sent' = IF BufSize <= room THEN Append(sent, ErrorAnswer(p.error)) ELSE sent
           [] OTHER ->
                /\ parser' = p /\ edge' = FALSE
                /\ UNCHANGED <<room, phase, response, why, sent>>
  /\ UNCHANGED <<env, client, age, hung>>

WriteFails ==
  /\ phase = "Writing" /\ Reported(Writable) /\ peer = "reset"
  /\ Close("reset") /\ edge' = FALSE
  /\ UNCHANGED <<env, client, consumed, room, parser, clock, sent, hung>>

\* Mutant: the offset is advanced once by sendfile() and once more by the caller.
AvailableOffsetTwice == Min({left, Max({0, fileLen - 2 * (FileSize - left)})})

\* Units the file still has to give.
Available == Min({left, Max({0, fileLen - (FileSize - left)})})

\* Mutant: sendfile_fd stays open.
ResetToReadingLeaking ==
  /\ parser' = NewParser /\ phase' = "Reading" /\ edge' = Readable
  /\ out' = 0 /\ left' = 0 /\ answer' = NoAnswer
  /\ UNCHANGED <<fd, why>>


\* Mutant: no poller.modify(), so bytes that came in while Writing raise no edge.
ResetToReadingSilently ==
  /\ parser' = NewParser /\ phase' = "Reading" /\ edge' = FALSE
  /\ out' = 0 /\ fd' = FALSE /\ left' = 0 /\ answer' = NoAnswer
  /\ UNCHANGED why

\* reset_conn_to_reading: drop what the parser has and wait for the next request.
ResetToReading ==
  /\ parser' = NewParser /\ phase' = "Reading"
  /\ out' = 0 /\ fd' = FALSE /\ left' = 0 /\ answer' = NoAnswer
  /\ edge' = Readable
  /\ UNCHANGED why

\* write() of what the send buffer takes; once write_buf is out, sendfile() until
\* nothing is left or the send buffer is full.
WriteSome ==
  /\ phase = "Writing" /\ Reported(Writable) /\ peer # "reset"
  /\ LET w == Min({out, room})
         f == IF w = out THEN Min({Available, room - w}) ELSE 0
     IN  /\ room' = room - w - f
         /\ IF w = out /\ f = left
            THEN /\ sent' = Append(sent, answer)
                 /\ IF answer.request.close THEN Close("answered") /\ edge' = FALSE /\ UNCHANGED parser
                                            ELSE ResetToReading
                 /\ UNCHANGED hung
            ELSE /\ out' = out - w /\ left' = left - f /\ edge' = FALSE
                 /\ hung' = (w = out /\ room' > 0)  \* sendfile() returns 0 at the end of file
                 /\ UNCHANGED <<parser, phase, fd, answer, why, sent>>
  /\ UNCHANGED <<env, client, consumed, clock>>

\* Reading and now - accepted_at >= timeout_seconds.
TimesOut ==
  /\ phase = "Reading" /\ age >= Timeout /\ ~hung
  /\ Close("timeout") /\ edge' = FALSE
  /\ UNCHANGED <<env, client, consumed, room, parser, clock, sent, hung>>

\* The worker leaves its loop.
Shutdown ==
  /\ phase # "Closed" /\ ~hung /\ Close("shutdown") /\ edge' = FALSE
  /\ UNCHANGED <<env, client, consumed, room, parser, clock, sent, hung>>

Worker == ReadNothing \/ ReadSome \/ WriteFails \/ WriteSome \/ TimesOut

Next ==
  \/ \E n \in 1..Len(stream.bytes) : Arrive(n)
  \/ PeerClose \/ PeerReset \/ ClientDrains \/ Truncate \/ Tick
  \/ Worker \/ Shutdown

\* The worker's loop goes round; nothing is assumed of the clock or the client.
Spec == Init /\ [][Next]_vars /\ WF_vars(Worker)

-----------------------------------------------------------------------------
\* Types; sendfile_fd is open only in a response that is being written.
TypeOK ==
  /\ arrived \in 0..Len(stream.bytes) /\ consumed \in 0..arrived
  /\ peer \in {"open", "closed", "reset"} /\ room \in 0..Room /\ fileLen \in 0..FileSize
  /\ edge \in BOOLEAN /\ hung \in BOOLEAN
  /\ phase \in {"Reading", "Writing", "Closed"}
  /\ parser.state \in {"RequestLine", "Headers", "Body", "Done", "Error"}
  /\ out \in 0..BufSize /\ left \in 0..FileSize /\ fd \in BOOLEAN /\ (fd => phase = "Writing")
  /\ age \in 0..Timeout /\ idle \in 0..Timeout
  /\ why \in {"none", "end_of_stream", "reset", "error", "answered", "timeout", "shutdown"}

\* A client that waits for each answer before the next request gets the answers
\* its bytes call for, in order, across resets of the parser, partial writes
\* and any segmentation.  A 400 may come instead where a line is too long.
RepliesInOrder ==
  ~pipelining =>
    \/ IsPrefix(sent, Answers(Consumed))
    \/ /\ HasLongLine(stream.bytes) /\ sent # <<>> /\ Last(sent).status = 400
       /\ IsPrefix(Front(sent), Answers(Consumed))

\* What was read of such a client's requests has been answered when the
\* connection ends by the client's end of stream or Connection: close.
RepliesComplete ==
  ~pipelining /\ why \in {"end_of_stream", "answered"} => sent = Answers(Consumed)

\* Bytes in the receive buffer of a Reading connection are read: with a
\* level-triggered poller always, with an edge-triggered one as long as no more
\* than one read() takes are there.
UnreadIsRead ==
  (~edgeTriggered \/ [](Len(sock) <= ReadMax)) =>
    [](sock # <<>> /\ phase = "Reading" => <>(phase # "Reading" \/ sock = <<>>))

\* "Block until at least one fd is ready [...]. Returns the set of ready fds":
\* whatever the poller and the size of a read, bytes in the receive buffer get
\* reported and read.
ReadyIsReported ==
  sock # <<>> /\ phase = "Reading" ~> (phase # "Reading" \/ sock = <<>>)

\* A response gets written, by partial writes and partial sendfile() calls, if
\* the client keeps reading and the file keeps its length.
ResponseIsWritten ==
  WF_vars(ClientDrains) /\ [](fileLen = FileSize) => (phase = "Writing" ~> phase # "Writing")

\* "Timeout idle reading connections": a connection that times out has been idle
\* for timeout_seconds.
OnlyIdleTimesOut == [][why' = "timeout" /\ why # "timeout" => idle >= Timeout]_vars

\* A request that the parser has been given is answered before the connection
\* ends regularly, pipelined or not: "parse any pipelined data already in
\* buffer_".
PipelinedIsAnswered == why \in {"end_of_stream", "answered"} => sent = Answers(Consumed)
=============================================================================
