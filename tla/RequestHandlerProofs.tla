------------------------ MODULE RequestHandlerProofs ------------------------
(***************************************************************************)
(* Proofs about RequestHandler, for any site, requests and bounds.           *)
(***************************************************************************)
EXTENDS RequestHandler, FiniteSetTheorems, SequenceTheorems, WellFoundedInduction, TLAPS

(***************************************************************************)
(* The arithmetic of StaticFile, for any size_t.                             *)
(***************************************************************************)
LEMMA NumberFacts ==
  ASSUME NEW text \in Unsigned
  PROVE  text = <<>> \/ (text # <<>> /\ text[1] \in Nat)
BY DEF Unsigned

\* A number that stoull() accepts is what it returns.
LEMMA StoullExact ==
  ASSUME NEW text \in Unsigned, text # <<>>, ~StoullThrows(text)
  PROVE  text[1] \in Nat /\ text[1] <= SizeMax /\ Stoull(text) = text[1]
<1>1. text[1] \in Nat
  BY NumberFacts
<1>2. text[1] \in -SizeMax..SizeMax
  BY DEF StoullThrows
<1>3. text[1] <= SizeMax
  BY <1>1, <1>2, SizeMaxAssumption
<1>4. \A n \in Nat, m \in Nat : n <= m => n % (m + 1) = n
  OBVIOUS
<1> QED
  BY <1>1, <1>3, <1>4, SizeMaxAssumption DEF Stoull

\* Whatever the numbers are, also "-n", what parse_range() accepts lies in the file.
LEMMA RangeWithin ==
  ASSUME NEW header \in Headers(Numbers), NEW size \in Nat, parse_range(header, size).valid
  PROVE  LET range == parse_range(header, size)
         IN  /\ header.form = "bytes"
             /\ range.start \in Nat /\ range.end \in Nat
             /\ range.start <= range.end /\ range.end < size
<1> DEFINE first == RangeStart(header, size)
           last == RangeEnd(header, size)
<1>1. header.form = "bytes" /\ ~(header.start = <<>> /\ header.end = <<>>)
  BY DEF parse_range, InvalidRange
<1>2. \A n \in Int, m \in Nat : n % (m + 1) \in Nat
  OBVIOUS
<1>3. ASSUME NEW text \in Numbers, text # <<>> PROVE Stoull(text) \in Nat
  <2>1. text[1] \in Int
    BY <1>3 DEF Numbers
  <2> QED
    BY <1>2, <2>1, SizeMaxAssumption DEF Stoull
<1>4. header.start \in Numbers /\ header.end \in Numbers
  BY DEF Headers
<1>5. first \in Nat /\ last \in Nat
  <2>1. first \in Nat
    BY <1>1, <1>3, <1>4 DEF RangeStart
  <2>2. last \in Nat
    BY <1>1, <1>3, <1>4 DEF RangeEnd, LastByte
  <2> QED
    BY <2>1, <2>2
<1>6. first <= last /\ last < size
      /\ parse_range(header, size) = [valid |-> TRUE, start |-> first, end |-> last]
  BY <1>1, <1>5 DEF parse_range, InvalidRange
<1> HIDE DEF first, last
<1> QED
  BY <1>1, <1>5, <1>6

\* parse_range() on a header whose numbers have no sign, for a file of any size: what it
\* accepts are exactly the bytes that the header names, and some; and it refuses only a
\* range of no byte, or one that ends behind the file.
THEOREM RangeIsExact ==
  ASSUME NEW header \in Headers(Unsigned), header.form = "bytes", NEW size \in Nat,
         ~RangeThrows(header)
  PROVE  LET range == parse_range(header, size)
         IN  IF range.valid
             THEN /\ range.start \in Nat /\ range.end \in Nat
                  /\ range.start <= range.end /\ range.end < size
                  /\ range.start..range.end = Named(header, size)
             ELSE \/ Named(header, size) = {}
                  \/ header.start # <<>> /\ header.end # <<>> /\ header.end[1] >= size
<1> DEFINE s == header.start
           e == header.end
           first == RangeStart(header, size)
           last == RangeEnd(header, size)
<1>1. /\ s \in Unsigned /\ e \in Unsigned /\ ~StoullThrows(s) /\ ~StoullThrows(e)
  BY DEF Headers, RangeThrows
<1>2. CASE s = <<>> /\ e = <<>>
  <2>1. parse_range(header, size).valid = FALSE
    BY <1>2 DEF parse_range, InvalidRange
  <2>2. Named(header, size) = {}
    BY <1>2 DEF Named
  <2> QED
    BY <2>1, <2>2
<1>3. ASSUME ~(s = <<>> /\ e = <<>>), NEW i \in Nat, NEW j \in Nat, first = i, last = j,
             Named(header, size) = {k \in 0..size - 1 : i <= k /\ k <= j}
      PROVE  LET range == parse_range(header, size)
             IN  /\ range.valid <=> i <= j /\ j < size
                 /\ range.valid => /\ range.start = i /\ range.end = j
                                   /\ i..j = Named(header, size)
                 /\ ~range.valid => Named(header, size) = {} \/ j >= size
  <2>1. CASE i > j \/ j >= size
    <3>1. parse_range(header, size) = InvalidRange
      BY <1>3, <2>1 DEF parse_range
    <3> QED
      BY <1>3, <2>1, <3>1 DEF InvalidRange
  <2>2. CASE ~(i > j \/ j >= size)
    <3>1. parse_range(header, size) = [valid |-> TRUE, start |-> i, end |-> j]
      BY <1>3, <2>2 DEF parse_range
    <3>2. i..j = {k \in 0..size - 1 : i <= k /\ k <= j}
      BY <2>2
    <3> QED
      BY <1>3, <2>2, <3>1, <3>2
  <2> QED
    BY <2>1, <2>2
<1>4. CASE s # <<>> /\ e # <<>>
  <2>1. s[1] \in Nat /\ e[1] \in Nat /\ first = s[1] /\ last = e[1]
    BY <1>1, <1>4, StoullExact DEF RangeStart, RangeEnd
  <2>2. Named(header, size) = {k \in 0..size - 1 : s[1] <= k /\ k <= e[1]}
    BY <1>4, <2>1 DEF Named
  <2> QED
    BY <1>3, <1>4, <2>1, <2>2
<1>5. CASE s # <<>> /\ e = <<>>
  <2>1. s[1] \in Nat /\ first = s[1] /\ last = LastByte(size) /\ last \in Nat
    BY <1>1, <1>5, StoullExact DEF RangeStart, RangeEnd, LastByte
  <2>2. Named(header, size) = {k \in 0..size - 1 : s[1] <= k /\ k <= last}
    BY <1>5, <2>1 DEF Named, LastByte
  <2>3. last >= size => size = 0
    BY <2>1 DEF LastByte
  <2>4. size = 0 => Named(header, size) = {}
    BY DEF Named
  <2> QED
    BY <1>3, <1>5, <2>1, <2>2, <2>3, <2>4
<1>6. CASE s = <<>> /\ e # <<>>
  <2>1. /\ e[1] \in Nat /\ last = LastByte(size) /\ last \in Nat /\ first \in Nat
        /\ first = IF e[1] >= size THEN 0 ELSE size - e[1]
    BY <1>1, <1>6, StoullExact DEF RangeStart, RangeEnd, LastByte
  <2>2. Named(header, size) = {k \in 0..size - 1 : first <= k /\ k <= last}
    BY <1>6, <2>1 DEF Named, LastByte
  <2>3. last >= size => size = 0
    BY <2>1 DEF LastByte
  <2>4. size = 0 => Named(header, size) = {}
    BY DEF Named
  <2> QED
    BY <1>3, <1>6, <2>1, <2>2, <2>3, <2>4
<1> QED
  BY <1>2, <1>4, <1>5, <1>6

(***************************************************************************)
(* Descriptors.                                                             *)
(***************************************************************************)

\* A response says whether it has a descriptor.
FdKnown == "fd" \in DOMAIN resp /\ resp.fd \in BOOLEAN
\* It has one exactly between open() and its close().
FdWhereSent == resp.fd = TRUE <=> pc \in {"opened", "send"}
\* As long as the process lives, its descriptors are those of the response.
Counted ==
  /\ pc \in {"opened", "send"} => open = 1
  /\ pc \notin {"opened", "send", "terminated"} => open = 0

IInv == FdKnown /\ FdWhereSent /\ Counted

LEMMA ResponseHasNoFd ==
  ASSUME NEW status, NEW body
  PROVE  /\ "fd" \in DOMAIN Response(status, body)
         /\ Response(status, body).fd = FALSE
BY DEF Response

\* A step that leaves the descriptors alone, from one place without one to another.
Closed == {"idle", "find_config", "access", "stat", "auth", "content", "is_executable",
           "cgi", "index", "serve", "open", "done"}

LEMMA WithoutFd ==
  ASSUME IInv, pc \in Closed, pc' \in Closed, open' = open,
         resp' = resp \/ ("fd" \in DOMAIN resp' /\ resp'.fd = FALSE)
  PROVE  IInv'
<1>1. resp.fd = FALSE /\ open = 0
  BY DEF IInv, FdKnown, FdWhereSent, Counted, Closed
<1>2. FdKnown' /\ resp'.fd = FALSE
  BY <1>1 DEF IInv, FdKnown
<1>3. FdWhereSent' /\ Counted'
  BY <1>1, <1>2 DEF FdWhereSent, Counted, Closed
<1> QED
  BY <1>2, <1>3 DEF IInv

LEMMA RespondKeeps ==
  ASSUME IInv, pc \in Closed, open' = open,
         NEW status, NEW body, Respond(Response(status, body))
  PROVE  IInv'
<1>1. "fd" \in DOMAIN resp' /\ resp'.fd = FALSE /\ pc' \in Closed
  BY ResponseHasNoFd DEF Respond, Closed
<1> QED
  BY <1>1, WithoutFd

LEMMA InitOwned == Init => IInv
BY ResponseHasNoFd DEF Init, IInv, FdKnown, FdWhereSent, Counted, NoResponse

LEMMA NextOwned == IInv /\ [Next]_vars => IInv'
<1> SUFFICES ASSUME IInv, [Next]_vars PROVE IInv'
  OBVIOUS
<1>s. ASSUME resp' = resp, pc' = pc, open' = open PROVE IInv'
  BY <1>s DEF IInv, FdKnown, FdWhereSent, Counted
<1>1. CASE Others
  <2>1. PICK p, node : Change(p, node)
    BY <1>1 DEF Others, WriteInPlace, Replace, Unlink
  <2>2. resp' = resp /\ pc' = pc /\ open' = open
    BY <2>1 DEF Change
  <2> QED
    BY <2>2, <1>s
<1>2. ASSUME NEW r \in Requests, NEW a \in BOOLEAN, Arrive(r, a) PROVE IInv'
  <2>1. resp' = resp /\ pc \in Closed /\ pc' \in Closed /\ open' = open
    BY <1>2 DEF Arrive, Closed
  <2> QED
    BY <2>1, WithoutFd
<1>3. CASE phase_find_config
  <2>1. open' = open /\ pc \in Closed
    BY <1>3 DEF phase_find_config, Closed
  <2>2. CASE Respond(Response(503, "none"))
    BY <2>1, <2>2, RespondKeeps
  <2>3. CASE resp' = resp /\ pc' = "access"
    BY <2>1, <2>3, WithoutFd DEF Closed
  <2> QED
    BY <1>3, <2>2, <2>3 DEF phase_find_config
<1>4. CASE phase_access
  <2>1. open' = open /\ pc \in Closed
    BY <1>4 DEF phase_access, ResolvePath, Stat, Authenticate, Closed
  <2>2. ASSUME NEW status, Respond(Response(status, "none")) PROVE IInv'
    BY <2>1, <2>2, RespondKeeps
  <2>3. CASE resp' = resp /\ pc' \in {"stat", "auth", "content"}
    BY <2>1, <2>3, WithoutFd DEF Closed
  <2>4. CASE ResolvePath
    BY <2>4, <2>2, <2>3 DEF ResolvePath
  <2>5. CASE Stat
    BY <2>5, <2>2, <2>3 DEF Stat
  <2>6. CASE Authenticate
    BY <2>6, <2>2, <2>3 DEF Authenticate
  <2> QED
    BY <1>4, <2>4, <2>5, <2>6 DEF phase_access
<1>5. CASE phase_content
  <2>1. CASE DispatchContent \/ IsExecutable \/ RunCgi \/ serve_directory_index
                \/ ServeStatic \/ OpenFails
    <3>1. open' = open /\ pc \in Closed
      BY <2>1 DEF DispatchContent, IsExecutable, RunCgi, serve_directory_index, TryIndex, List,
                  ServeStatic, OpenFails, Closed
    <3>2. ASSUME NEW status, NEW body, Respond(Response(status, body)) PROVE IInv'
      BY <3>1, <3>2, RespondKeeps
    <3>3. CASE resp' = resp /\ pc' \in {"is_executable", "index", "cgi", "serve", "open"}
      BY <3>1, <3>3, WithoutFd DEF Closed
    <3>4. CASE DispatchContent
      BY <3>4, <3>2, <3>3 DEF DispatchContent
    <3>5. CASE IsExecutable
      BY <3>5, <3>2, <3>3 DEF IsExecutable
    <3>6. CASE RunCgi
      BY <3>6, <3>2 DEF RunCgi
    <3>7. CASE serve_directory_index
      BY <3>7, <3>2, <3>3 DEF serve_directory_index, TryIndex, List
    <3>8. CASE ServeStatic
      <4>1. CASE Respond([Response(304, "none") EXCEPT !.etag = Etag(st')])
        <5>1. "fd" \in DOMAIN resp' /\ resp'.fd = FALSE /\ pc' \in Closed
          BY <4>1 DEF Respond, Response, Closed
        <5> QED
          BY <5>1, <3>1, WithoutFd
      <4> QED
        BY <3>8, <4>1, <3>2, <3>3 DEF ServeStatic
    <3>9. CASE OpenFails
      BY <3>9, <3>2 DEF OpenFails
    <3> QED
      BY <2>1, <3>4, <3>5, <3>6, <3>7, <3>8, <3>9
  <2>2. CASE Open
    <3>1. pc \in Closed /\ pc = "open"
      BY <2>2 DEF Open, Closed
    <3>2. open = 0 /\ resp.fd = FALSE
      BY <3>1 DEF IInv, FdKnown, FdWhereSent, Counted
    <3>3. ASSUME NEW status, NEW first, NEW size, resp' = FileResponse(status, first, size),
                 pc' = "opened", open' = open + 1
          PROVE  IInv'
      <4>1. "fd" \in DOMAIN resp' /\ resp'.fd = TRUE
        BY <3>3 DEF FileResponse, Response
      <4>2. open' = 1 /\ pc' = "opened"
        BY <3>2, <3>3
      <4>3. FdKnown'
        BY <4>1 DEF FdKnown
      <4>4. FdWhereSent' /\ Counted'
        BY <4>1, <4>2 DEF FdWhereSent, Counted
      <4> QED
        BY <4>3, <4>4 DEF IInv
    <3>4. CASE pc' = "terminated" /\ resp' = resp
      BY <3>2, <3>4 DEF IInv, FdKnown, FdWhereSent, Counted
    <3>5. CASE Respond(Response(416, "none")) /\ open' = open
      BY <3>1, <3>5, RespondKeeps
    <3> QED
      BY <2>2, <3>3, <3>4, <3>5 DEF Open, PartialContent
  <2>3. CASE Opened
    <3>1. pc = "opened" /\ open = 1 /\ FdKnown /\ resp.fd = TRUE
      BY <2>3 DEF Opened, IInv, FdWhereSent, Counted
    <3>2. CASE request.method = "HEAD"
      <4>1. pc' = "done" /\ open' = 0 /\ resp' = [resp EXCEPT !.fd = FALSE, !.body = "none"]
        BY <2>3, <3>1, <3>2 DEF Opened
      <4>2. "fd" \in DOMAIN resp' /\ resp'.fd = FALSE
        BY <4>1, <3>1 DEF FdKnown
      <4> QED
        BY <4>1, <4>2 DEF IInv, FdKnown, FdWhereSent, Counted
    <3>3. CASE request.method # "HEAD"
      <4>1. pc' = "send" /\ resp' = resp /\ open' = open
        BY <2>3, <3>3 DEF Opened
      <4> QED
        BY <4>1, <3>1 DEF IInv, FdKnown, FdWhereSent, Counted
    <3> QED
      BY <3>2, <3>3
  <2> QED
    BY <1>5, <2>1, <2>2, <2>3 DEF phase_content, serve_static_file
<1>6. CASE write_response
  <2>1. pc = "send" /\ open = 1 /\ FdKnown /\ resp.fd = TRUE
    BY <1>6 DEF write_response, SendByte, SendDone, IInv, FdWhereSent, Counted
  <2>2. CASE SendByte
    <3>1. /\ pc' = pc /\ open' = open
          /\ resp' = [resp EXCEPT !.off = @ + 1, !.left = @ - 1,
                                  !.sent = Append(@, file.bytes[resp.off + 1])]
      BY <2>2 DEF SendByte
    <3>2. "fd" \in DOMAIN resp' /\ resp'.fd = TRUE
      BY <3>1, <2>1 DEF FdKnown
    <3> QED
      BY <2>1, <3>1, <3>2 DEF IInv, FdKnown, FdWhereSent, Counted
  <2>3. CASE SendDone
    <3>1. pc' = "done" /\ open' = 0 /\ resp' = [resp EXCEPT !.fd = FALSE]
      BY <2>1, <2>3 DEF SendDone
    <3>2. "fd" \in DOMAIN resp' /\ resp'.fd = FALSE
      BY <3>1, <2>1 DEF FdKnown
    <3> QED
      BY <3>1, <3>2 DEF IInv, FdKnown, FdWhereSent, Counted
  <2> QED
    BY <1>6, <2>2, <2>3 DEF write_response
<1>7. CASE Receive
  <2>1. /\ pc \in Closed /\ pc' \in Closed /\ open' = open
        /\ "fd" \in DOMAIN resp' /\ resp'.fd = FALSE
    BY <1>7, ResponseHasNoFd DEF Receive, NoResponse, Closed
  <2> QED
    BY <2>1, WithoutFd
<1>8. CASE UNCHANGED vars
  <2>1. resp' = resp /\ pc' = pc /\ open' = open
    BY <1>8 DEF vars
  <2> QED
    BY <2>1, <1>s
<1> QED
  BY <1>1, <1>2, <1>3, <1>4, <1>5, <1>6, <1>7, <1>8 DEF Next, Server

\* No descriptor of a file is leaked and none is closed twice, on whatever site and
\* however a request ends: a descriptor is open exactly while the response has it.
THEOREM OwnedHolds == Spec => []DescriptorOwned
<1>1. IInv => DescriptorOwned
  BY DEF IInv, FdKnown, FdWhereSent, Counted, DescriptorOwned
<1> QED
  BY InitOwned, NextOwned, <1>1, PTL DEF Spec

(***************************************************************************)
(* What is sent.  From stat() to the last byte: as long as the file stays as  *)
(* it was, the copy grows along what Content-Length or Content-Range named.   *)
(***************************************************************************)
Typed ==
  /\ Mutable \subseteq DOMAIN disk /\ \A p \in DOMAIN disk : disk[p] \in Nodes
  /\ st \in Nodes /\ file \in Nodes
  /\ now \in 0..MaxTime /\ changes \in 0..MaxChanges /\ served \in 0..MaxRequests
  /\ quiet \subseteq {"etag", "date"} /\ steady \in BOOLEAN
  /\ pc \in Closed \cup {"opened", "send", "terminated"}
  /\ vhost \in 0..Len(VirtualHosts)
  /\ pc # "idle" => request \in Requests /\ served < MaxRequests

\* Only a GET or HEAD of what is no script gets to a file.
MethodKnown ==
  /\ pc = "is_executable" => request.method # "OPTIONS"
  /\ pc \in {"index", "serve", "open", "opened"} => request.method \in {"GET", "HEAD"}
  /\ pc = "send" => request.method = "GET"

\* There is no response before one of the steps that make one.
Blank == pc \notin {"opened", "send", "done"} => resp = NoResponse

\* The result of stat() is good until the file changes, also for the open file.
StatIsGood ==
  steady => /\ pc = "open" => st = Node(path)
            /\ pc \in {"opened", "send"} => file.bytes = st.bytes

\* The bytes that the response has announced.
Announced ==
  IF resp.status = 200 THEN 0..Len(st.bytes) - 1 ELSE Named(request.range, Len(st.bytes))

\* They are count bytes from first on, of which the first Len(resp.sent) are sent.
Copied(first, count) ==
  /\ {"status", "body", "fd", "off", "left", "sent"} \subseteq DOMAIN resp
  /\ resp.body = "file" /\ resp.sent \in Seq(Nat)
  /\ resp.off \in Nat /\ resp.left \in Nat
  /\ first + count <= Len(st.bytes)
  /\ request.range \in Headers(Unsigned) => Announced = first..first + count - 1
  /\ resp.off = first + Len(resp.sent) /\ resp.left + Len(resp.sent) = count
  /\ steady => \A i \in 1..Len(resp.sent) : resp.sent[i] = st.bytes[first + i]

Sending == pc \in {"opened", "send"} => \E first, count \in Nat : Copied(first, count)

SentAll ==
  pc = "done" =>
    /\ {"status", "body", "fd", "off", "left", "sent"} \subseteq DOMAIN resp
    /\ resp.off \in Nat /\ resp.left \in Nat /\ resp.fd = FALSE
    /\ resp.body = "file" =>
         /\ request.method = "GET"
         /\ \E first, count \in Nat : Copied(first, count)
         /\ steady => resp.left = 0

BInv == IInv /\ Typed /\ MethodKnown /\ Blank /\ StatIsGood /\ Sending /\ SentAll

(***************************************************************************)
(* Its steps.                                                               *)
(***************************************************************************)
LEMMA NodeTyped ==
  ASSUME Typed, NEW p
  PROVE  Node(p) \in Nodes
BY DEF Typed, Node, Nothing, Nodes

\* What the steps of the server leave as it is.
LEMMA TypedKept ==
  ASSUME Typed, UNCHANGED <<world>>, st' \in Nodes, file' \in Nodes, steady' \in BOOLEAN,
         pc' \in Closed \cup {"opened", "send", "terminated"},
         vhost' \in 0..Len(VirtualHosts), served' \in 0..MaxRequests,
         pc' # "idle" => request' \in Requests /\ served' < MaxRequests
  PROVE  Typed'
BY DEF Typed, world

LEMMA ResponseFields ==
  ASSUME NEW status, NEW body
  PROVE  /\ DOMAIN Response(status, body)
              = {"status", "body", "fd", "off", "left", "etag", "date", "sent"}
         /\ Response(status, body).status = status /\ Response(status, body).body = body
         /\ Response(status, body).fd = FALSE
         /\ Response(status, body).off = 0 /\ Response(status, body).left = 0
         /\ Response(status, body).sent = <<>>
BY DEF Response

\* A step that ends the request without a file, whatever went before.
LEMMA Ended ==
  ASSUME IInv', Typed', pc' = "done",
         DOMAIN resp' = {"status", "body", "fd", "off", "left", "etag", "date", "sent"},
         resp'.body # "file", resp'.fd = FALSE, resp'.off \in Nat, resp'.left \in Nat
  PROVE  BInv'
<1>1. MethodKnown' /\ Blank' /\ StatIsGood' /\ Sending'
  BY DEF MethodKnown, Blank, StatIsGood, Sending
<1>2. SentAll'
  BY DEF SentAll
<1> QED
  BY <1>1, <1>2 DEF BInv

LEMMA EndedByResponse ==
  ASSUME IInv', Typed', NEW status, NEW body, body # "file", Respond(Response(status, body))
  PROVE  BInv'
<1>1. pc' = "done" /\ resp' = Response(status, body)
  BY DEF Respond
<1>2. /\ DOMAIN resp' = {"status", "body", "fd", "off", "left", "etag", "date", "sent"}
      /\ resp'.body = body /\ resp'.fd = FALSE /\ resp'.off = 0 /\ resp'.left = 0
  BY <1>1 DEF Response
<1>3. resp'.body # "file" /\ resp'.off \in Nat /\ resp'.left \in Nat
  BY <1>2
<1> QED
  BY <1>1, <1>2, <1>3, Ended, Zenon

\* A step on the way to a response.
LEMMA GoesOn ==
  ASSUME BInv, IInv', Typed', resp' = resp,
         pc \notin {"opened", "send", "done"}, pc' \notin {"open", "opened", "send", "done"},
         MethodKnown'
  PROVE  BInv'
<1>1. Blank' /\ StatIsGood' /\ Sending' /\ SentAll'
  BY DEF BInv, Blank, StatIsGood, Sending, SentAll
<1> QED
  BY <1>1 DEF BInv

(***************************************************************************)
(* The others.                                                              *)
(***************************************************************************)
LEMMA NewBytesTyped ==
  ASSUME Typed, NEW n \in Sizes
  PROVE  NewBytes(n) \in Seq(Nat)
<1>1. n \in Nat /\ changes \in Nat
  BY BoundsAssumption DEF Typed
<1>2. \A i \in 1..n : 10 * (changes + 1) + i \in Nat
  BY <1>1
<1> QED
  BY <1>1, <1>2 DEF NewBytes

\* What one of the others does: it changes one place, and the open file only if that is
\* the one in this place.
LEMMA ChangeFacts ==
  ASSUME Typed, Others
  PROVE  /\ now' \in now..MaxTime
         /\ \E p \in Mutable, node \in Nodes :
              /\ Change(p, node) /\ file' \in Nodes
              /\ file' = file \/ file.ino = disk[p].ino
              /\ \/ node.kind = "file" /\ node.ino \in {disk[p].ino, 10 + changes}
                 \/ node.kind = "none" /\ node.ino = disk[p].ino /\ node.mtime = disk[p].mtime
<1> DEFINE Changed(p, node) ==
             /\ Change(p, node) /\ file' \in Nodes
             /\ file' = file \/ file.ino = disk[p].ino
             /\ \/ node.kind = "file" /\ node.ino \in {disk[p].ino, 10 + changes}
                \/ node.kind = "none" /\ node.ino = disk[p].ino /\ node.mtime = disk[p].mtime
<1>1. now' \in now..MaxTime
  BY DEF Others
<1>2. PICK p \in Mutable :
        \/ \E n \in Sizes, t \in 0..MaxTime : WriteInPlace(p, n, t) \/ Replace(p, n, t)
        \/ Unlink(p)
  BY DEF Others
<1>3. disk[p] \in Nodes /\ file \in Nodes /\ changes \in Nat
  BY BoundsAssumption DEF Typed
<1>4. ASSUME NEW n \in Sizes, NEW t \in 0..MaxTime, WriteInPlace(p, n, t)
      PROVE  \E node \in Nodes : Changed(p, node)
  <2>1. NewBytes(n) \in Seq(Nat) /\ t \in Nat
    BY NewBytesTyped, BoundsAssumption
  <2> DEFINE node == [disk[p] EXCEPT !.mtime = t, !.bytes = NewBytes(n)]
  <2>2. node \in Nodes /\ node.kind = disk[p].kind /\ node.ino = disk[p].ino
    BY <1>3, <2>1 DEF Nodes
  <2>3. file' \in Nodes /\ (file' = file \/ file.ino = disk[p].ino)
    BY <1>3, <1>4, <2>1 DEF Nodes, WriteInPlace
  <2>4. Change(p, node) /\ disk[p].kind = "file"
    BY <1>4 DEF WriteInPlace
  <2> HIDE DEF node
  <2> QED
    BY <2>2, <2>3, <2>4
<1>5. ASSUME NEW n \in Sizes, NEW t \in 0..MaxTime, Replace(p, n, t)
      PROVE  \E node \in Nodes : Changed(p, node)
  <2>1. NewBytes(n) \in Seq(Nat) /\ t \in Nat
    BY NewBytesTyped, BoundsAssumption
  <2>2. PICK ino \in {10 + changes}
                      \cup {i \in {disk[p].ino} : disk[p].kind = "none" /\ i # file.ino} :
          Change(p, [kind |-> "file", exec |-> FALSE, ino |-> ino, mtime |-> t,
                     bytes |-> NewBytes(n)])
    BY <1>5 DEF Replace
  <2> DEFINE node == [kind |-> "file", exec |-> FALSE, ino |-> ino, mtime |-> t,
                      bytes |-> NewBytes(n)]
  <2>3. ino \in {disk[p].ino, 10 + changes} /\ ino \in Nat
    BY <1>3, <2>2 DEF Nodes
  <2>4. node \in Nodes /\ node.kind = "file" /\ node.ino = ino
    BY <2>1, <2>3 DEF Nodes
  <2>5. file' = file
    BY <1>5 DEF Replace
  <2>6. Change(p, node)
    BY <2>2
  <2> HIDE DEF node
  <2> QED
    BY <1>3, <2>3, <2>4, <2>5, <2>6
<1>6. ASSUME Unlink(p) PROVE \E node \in Nodes : Changed(p, node)
  <2> DEFINE node == [disk[p] EXCEPT !.kind = "none", !.bytes = <<>>]
  <2>1. <<>> \in Seq(Nat)
    OBVIOUS
  <2>2. /\ node \in Nodes /\ node.kind = "none" /\ node.ino = disk[p].ino
        /\ node.mtime = disk[p].mtime
    BY <1>3, <2>1 DEF Nodes
  <2>3. Change(p, node) /\ file' = file
    BY <1>6 DEF Unlink
  <2> HIDE DEF node
  <2> QED
    BY <1>3, <2>2, <2>3
<1> QED
  BY <1>1, <1>2, <1>4, <1>5, <1>6

LEMMA OthersTyped ==
  ASSUME Typed, Others
  PROVE  Typed' /\ steady' = FALSE /\ UNCHANGED <<st, pc, request, resp>>
<1>1. PICK p \in Mutable, node \in Nodes : Change(p, node) /\ file' \in Nodes
  BY ChangeFacts
<1>2. now' \in 0..MaxTime
  <2>1. now' \in now..MaxTime
    BY ChangeFacts
  <2> QED
    BY <2>1, BoundsAssumption DEF Typed
<1>3. /\ changes < MaxChanges /\ changes' = changes + 1 /\ disk' = [disk EXCEPT ![p] = node]
      /\ steady' = FALSE /\ UNCHANGED <<served, request, vhost, pc, st, resp>>
      /\ quiet' \subseteq quiet \cup {"etag", "date"}
  BY <1>1 DEF Change, context
<1>4. /\ Mutable \subseteq DOMAIN disk'
      /\ \A q \in DOMAIN disk' : disk'[q] \in Nodes
  BY <1>3 DEF Typed
<1>5. changes' \in 0..MaxChanges
  BY <1>3, BoundsAssumption DEF Typed
<1> QED
  BY <1>1, <1>2, <1>3, <1>4, <1>5 DEF Typed

LEMMA OthersKeep == BInv /\ IInv' /\ Others => BInv'
<1> SUFFICES ASSUME BInv, IInv', Others PROVE BInv'
  OBVIOUS
<1>1. Typed' /\ steady' = FALSE /\ UNCHANGED <<st, pc, request, resp>>
  BY OthersTyped DEF BInv
<1>2. MethodKnown' /\ Blank' /\ StatIsGood'
  BY <1>1 DEF BInv, MethodKnown, Blank, StatIsGood
<1>3. ASSUME NEW first \in Nat, NEW count \in Nat, Copied(first, count)
      PROVE  Copied(first, count)'
  BY <1>1, <1>3 DEF Copied, Announced
<1>4. Sending' /\ SentAll'
  <2>1. Sending'
    BY <1>1, <1>3 DEF BInv, Sending
  <2>2. SentAll'
    BY <1>1, <1>3 DEF BInv, SentAll
  <2> QED
    BY <2>1, <2>2
<1> QED
  BY <1>1, <1>2, <1>4 DEF BInv

(***************************************************************************)
(* A request, up to the file.                                               *)
(***************************************************************************)
LEMMA LowestMember ==
  ASSUME NEW S, S \subseteq Nat, S # {}
  PROVE  Min(S) \in S
<1> DEFINE R == {r \in Nat \X Nat : r[1] < r[2]}
<1>1. IsWellFoundedOn(R, Nat)
  BY NatLessThanWellFounded DEF OpToRel
<1>2. PICK n \in S : \A m \in S : ~ (<<m, n>> \in R)
  BY <1>1, WFMin
<1>3. ASSUME NEW m \in S PROVE n <= m
  <2>1. m \in Nat /\ n \in Nat /\ ~(<<m, n>> \in R)
    BY <1>2
  <2> QED
    BY <2>1
<1> QED
  BY <1>2, <1>3 DEF Min

LEMMA VhostInRange ==
  ASSUME NEW host
  PROVE  resolve_vhost(VirtualHosts, host) \in 0..Len(VirtualHosts)
<1>1. Len(VirtualHosts) \in Nat /\ (VirtualHosts # <<>> => Len(VirtualHosts) # 0)
  BY VirtualHostsAssumption
<1> DEFINE name == to_lower(Before(host, ":"))
           I == {i \in 1..Len(VirtualHosts) : to_lower(VirtualHosts[i].server_name) = name}
           match == IF I # {} THEN Min(I) ELSE 0
<1>2. match \in 0..Len(VirtualHosts)
  <2>1. I \subseteq Nat
    BY <1>1
  <2>2. I # {} => Min(I) \in I
    BY <2>1, LowestMember
  <2> QED
    BY <1>1, <2>2
<1>3. resolve_vhost(VirtualHosts, host)
        = CASE VirtualHosts = <<>> -> 0
            [] VirtualHosts # <<>> /\ (name = <<>> \/ match = 0) -> 1
            [] OTHER -> match
  BY DEF resolve_vhost, SelectInSeq
<1> HIDE DEF match, name
<1>4. CASE VirtualHosts = <<>>
  <2>1. resolve_vhost(VirtualHosts, host) = 0
    BY <1>3, <1>4
  <2> QED
    BY <1>1, <2>1
<1>5. CASE VirtualHosts # <<>>
  <2>1. resolve_vhost(VirtualHosts, host) \in {1, match}
    BY <1>3, <1>5
  <2> QED
    BY <1>1, <1>2, <1>5, <2>1
<1> QED
  BY <1>4, <1>5

LEMMA ArriveKeeps == 
  ASSUME BInv, IInv', NEW r \in Requests, NEW a \in BOOLEAN, Arrive(r, a)
  PROVE  BInv'
<1>1. /\ pc = "idle" /\ pc' = "find_config" /\ served < MaxRequests /\ request' = r
      /\ UNCHANGED <<world, steady, served, vhost, st, resp, file>>
  BY DEF Arrive
<1>2. Typed'
  BY <1>1, TypedKept, BoundsAssumption DEF BInv, Typed, Closed
<1>3. MethodKnown'
  BY <1>1 DEF MethodKnown
<1> QED
  BY <1>1, <1>2, <1>3, GoesOn

LEMMA FindConfigKeeps == BInv /\ IInv' /\ phase_find_config => BInv'
<1> SUFFICES ASSUME BInv, IInv', phase_find_config PROVE BInv'
  OBVIOUS
<1>1. /\ pc = "find_config" /\ pc' \in {"access", "done"}
      /\ vhost' = resolve_vhost(VirtualHosts, request.host)
      /\ UNCHANGED <<world, steady, served, request, st, file>>
  BY DEF phase_find_config, Respond
<1>2. vhost' \in 0..Len(VirtualHosts)
  BY <1>1, VhostInRange
<1>3. Typed'
  BY <1>1, <1>2, TypedKept DEF BInv, Typed, Closed
<1>4. CASE Respond(Response(503, "none"))
  BY <1>3, <1>4, EndedByResponse
<1>5. CASE resp' = resp /\ pc' = "access"
  BY <1>1, <1>3, <1>5, GoesOn DEF MethodKnown
<1> QED
  BY <1>4, <1>5 DEF phase_find_config

LEMMA AccessKeeps == BInv /\ IInv' /\ phase_access => BInv'
<1> SUFFICES ASSUME BInv, IInv', phase_access PROVE BInv'
  OBVIOUS
<1>1. /\ pc \in {"access", "stat", "auth"} /\ pc' \in {"stat", "auth", "content", "done"}
      /\ UNCHANGED <<world, steady, served, request, vhost, file>>
  BY DEF phase_access, ResolvePath, Stat, Authenticate, Respond, context
<1>2. st' \in Nodes
  BY NodeTyped DEF phase_access, ResolvePath, Stat, Authenticate, BInv, Typed
<1>3. Typed'
  BY <1>1, <1>2, TypedKept DEF BInv, Typed, Closed
<1>4. ASSUME NEW status, Respond(Response(status, "none")) PROVE BInv'
  BY <1>3, <1>4, EndedByResponse
<1>5. CASE resp' = resp /\ pc' \in {"stat", "auth", "content"}
  BY <1>1, <1>3, <1>5, GoesOn DEF MethodKnown
<1> QED
  BY <1>4, <1>5 DEF phase_access, ResolvePath, Stat, Authenticate

LEMMA DispatchKeeps == BInv /\ IInv' /\ (DispatchContent \/ IsExecutable \/ RunCgi) => BInv'
<1> SUFFICES ASSUME BInv, IInv', DispatchContent \/ IsExecutable \/ RunCgi PROVE BInv'
  OBVIOUS
<1>1. /\ pc \in {"content", "is_executable", "cgi"}
      /\ pc' \in {"is_executable", "index", "cgi", "serve", "done"}
      /\ UNCHANGED <<world, steady, served, request, vhost, st, file>>
  BY DEF DispatchContent, IsExecutable, RunCgi, Respond, context
<1>2. Typed'
  BY <1>1, TypedKept DEF BInv, Typed, Closed
<1>3. ASSUME NEW status, NEW body, body # "file", Respond(Response(status, body)) PROVE BInv'
  BY <1>2, <1>3, EndedByResponse
<1>4. request.method \in {"GET", "HEAD", "POST", "OPTIONS"}
  BY <1>1, RequestsAssumption DEF BInv, Typed
<1>5. ASSUME resp' = resp, pc' # "done", MethodKnown' PROVE BInv'
  BY <1>1, <1>2, <1>5, GoesOn
<1>6. CASE DispatchContent
  <2>1. CASE pc' = "is_executable" /\ resp' = resp /\ request.method # "OPTIONS"
    BY <1>1, <1>5, <2>1 DEF MethodKnown
  <2>2. CASE pc' = "index" /\ resp' = resp /\ request.method \in {"GET", "HEAD"}
    BY <1>1, <1>5, <2>2 DEF MethodKnown
  <2> QED
    BY <1>3, <1>6, <2>1, <2>2 DEF DispatchContent
<1>7. CASE IsExecutable
  <2>1. CASE pc' = "cgi" /\ resp' = resp
    BY <1>1, <1>5, <2>1 DEF MethodKnown
  <2>2. CASE pc' = "serve" /\ resp' = resp /\ ~(Node(path).kind = "file" /\ Node(path).exec)
             /\ ~(request.method = "POST" /\ ~(Node(path).kind = "file" /\ Node(path).exec))
    <3>1. request.method \in {"GET", "HEAD"}
      BY <1>4, <1>7, <2>2 DEF IsExecutable, BInv, MethodKnown
    <3> QED
      BY <1>1, <1>5, <2>2, <3>1 DEF MethodKnown
  <2> QED
    BY <1>3, <1>7, <2>1, <2>2 DEF IsExecutable
<1>8. CASE RunCgi
  BY <1>3, <1>8 DEF RunCgi
<1> QED
  BY <1>6, <1>7, <1>8

LEMMA IndexKeeps == BInv /\ IInv' /\ serve_directory_index => BInv'
<1> SUFFICES ASSUME BInv, IInv', serve_directory_index PROVE BInv'
  OBVIOUS
<1>1. /\ pc = "index" /\ pc' \in {"index", "serve", "done"}
      /\ UNCHANGED <<world, steady, served, request, vhost, st, file>>
  BY DEF serve_directory_index, TryIndex, List, Respond, context
<1>2. Typed'
  BY <1>1, TypedKept DEF BInv, Typed, Closed
<1>3. ASSUME NEW status, NEW body, body # "file", Respond(Response(status, body)) PROVE BInv'
  BY <1>2, <1>3, EndedByResponse
<1>4. CASE TryIndex
  <2>1. resp' = resp /\ pc' # "done"
    BY <1>1, <1>4 DEF TryIndex
  <2>2. MethodKnown'
    BY <1>1, <2>1 DEF BInv, MethodKnown
  <2> QED
    BY <1>1, <1>2, <2>1, <2>2, GoesOn
<1>5. CASE List
  BY <1>3, <1>5 DEF List
<1> QED
  BY <1>4, <1>5 DEF serve_directory_index

(***************************************************************************)
(* The file.                                                                *)
(***************************************************************************)
LEMMA ServeKeeps == BInv /\ IInv' /\ (ServeStatic \/ OpenFails) => BInv'
<1> SUFFICES ASSUME BInv, IInv', ServeStatic \/ OpenFails PROVE BInv'
  OBVIOUS
<1>1. /\ pc \in {"serve", "open"} /\ pc' \in {"open", "done"} /\ steady' \in {steady, TRUE}
      /\ UNCHANGED <<world, served, request, vhost, file>>
  BY DEF ServeStatic, OpenFails, Respond, context
<1>2. st' \in Nodes
  BY NodeTyped DEF ServeStatic, OpenFails, BInv, Typed
<1>3. Typed'
  BY <1>1, <1>2, TypedKept DEF BInv, Typed, Closed
<1>4. ASSUME NEW status, Respond(Response(status, "none")) PROVE BInv'
  BY <1>3, <1>4, EndedByResponse
<1>5. CASE Respond([Response(304, "none") EXCEPT !.etag = Etag(st')])
  <2>1. /\ pc' = "done" /\ resp'.body = "none" /\ resp'.fd = FALSE
        /\ resp'.off = 0 /\ resp'.left = 0
        /\ DOMAIN resp' = {"status", "body", "fd", "off", "left", "etag", "date", "sent"}
    BY <1>5 DEF Respond, Response
  <2>2. resp'.body # "file" /\ resp'.off \in Nat /\ resp'.left \in Nat
    BY <2>1
  <2> QED
    BY <1>3, <2>1, <2>2, Ended, Zenon
<1>6. CASE ServeStatic /\ pc' = "open" /\ resp' = resp
  <2>1. pc = "serve" /\ st' = Node(path) /\ UNCHANGED <<disk, path, request>>
    BY <1>6 DEF ServeStatic, world, context
  <2>2. StatIsGood'
    BY <1>6, <2>1 DEF StatIsGood, Node
  <2>3. MethodKnown' /\ Blank' /\ Sending' /\ SentAll'
    BY <1>6, <2>1 DEF BInv, MethodKnown, Blank, Sending, SentAll
  <2> QED
    BY <1>3, <2>2, <2>3 DEF BInv
<1>7. CASE OpenFails
  BY <1>4, <1>7 DEF OpenFails
<1>8. CASE ServeStatic
  <2>1. \/ Respond(Response(404, "none"))
        \/ Respond([Response(304, "none") EXCEPT !.etag = Etag(st')])
        \/ Respond(Response(406, "none"))
        \/ pc' = "open" /\ resp' = resp
    BY <1>8, Zenon DEF ServeStatic
  <2> QED
    BY <1>4, <1>5, <1>6, <1>8, <2>1
<1> QED
  BY <1>7, <1>8

\* What open() begins: nothing is sent of what was announced.
LEMMA FileOpened ==
  ASSUME BInv, IInv', pc = "open", pc' = "opened", file' = Node(path),
         UNCHANGED <<world, steady, served, request, vhost, st>>,
         NEW status, NEW first \in Nat, NEW count \in Nat,
         resp' = FileResponse(status, first, count),
         first + count <= Len(st.bytes),
         request.range \in Headers(Unsigned) =>
           first..first + count - 1
             = IF status = 200 THEN 0..Len(st.bytes) - 1 ELSE Named(request.range, Len(st.bytes))
  PROVE  BInv'
<1>1. Typed'
  BY NodeTyped, TypedKept DEF BInv, Typed, Closed
<1>2. MethodKnown' /\ Blank' /\ SentAll'
  BY DEF BInv, MethodKnown, Blank, SentAll
<1>3. StatIsGood'
  BY DEF BInv, StatIsGood
<1>4. /\ DOMAIN resp' = {"status", "body", "fd", "off", "left", "etag", "date", "sent"}
      /\ resp'.status = status /\ resp'.body = "file" /\ resp'.sent = <<>>
      /\ resp'.off = first /\ resp'.left = count
  BY DEF FileResponse, Response
<1>5. request'.range \in Headers(Unsigned) => Announced' = first..first + count - 1
  BY <1>4 DEF Announced
<1>6. Copied(first, count)'
  <2>1. resp'.sent \in Seq(Nat) /\ Len(resp'.sent) = 0
    BY <1>4
  <2>2. \A i \in 1..Len(resp'.sent) : resp'.sent[i] = st'.bytes[first + i]
    BY <2>1
  <2> QED
    BY <1>4, <1>5, <2>1, <2>2 DEF Copied
<1>7. Sending'
  BY <1>6 DEF Sending
<1> QED
  BY <1>1, <1>2, <1>3, <1>7 DEF BInv

LEMMA OpenKeeps == BInv /\ IInv' /\ Open => BInv'
<1> SUFFICES ASSUME BInv, IInv', Open PROVE BInv'
  OBVIOUS
<1> DEFINE size == Len(st.bytes)
           range == parse_range(request.range, size)
<1>1. /\ pc = "open" /\ UNCHANGED <<world, steady, served, request, vhost, st, path>>
  BY DEF Open, context
<1>2. size \in Nat /\ request.range \in Headers(Numbers)
  BY <1>1, RequestsAssumption DEF BInv, Typed, Nodes
<1>3. CASE resp' = FileResponse(200, 0, size) /\ pc' = "opened" /\ file' = Node(path)
  <2>1. 0..size - 1 = 0..0 + size - 1 /\ 0 + size <= size
    BY <1>2
  <2> QED
    BY <1>1, <1>2, <1>3, <2>1, FileOpened
<1>4. CASE pc' = "terminated" /\ UNCHANGED <<resp, file>>
  <2>1. Typed'
    BY <1>1, <1>4, TypedKept DEF BInv, Typed
  <2>2. MethodKnown'
    BY <1>4 DEF MethodKnown
  <2> QED
    BY <1>1, <1>4, <2>1, <2>2, GoesOn
<1>5. CASE /\ ~RangeThrows(request.range) /\ range.valid
           /\ resp' = PartialContent(range) /\ pc' = "opened" /\ file' = Node(path)
  <2>1. /\ request.range.form = "bytes" /\ range.start \in Nat /\ range.end \in Nat
        /\ range.start <= range.end /\ range.end < size
    BY <1>2, <1>5, RangeWithin
  <2>2. request.range \in Headers(Unsigned) =>
          range.start..range.end = Named(request.range, size)
    BY <1>2, <1>5, <2>1, RangeIsExact
  <2> DEFINE first == range.start
             count == range.end - range.start + 1
  <2>3. /\ first \in Nat /\ count \in Nat /\ first + count <= size
        /\ first + count - 1 = range.end
    BY <1>2, <2>1
  <2>4. resp' = FileResponse(206, first, count)
    BY <1>5 DEF PartialContent
  <2>5. request.range \in Headers(Unsigned) =>
          first..first + count - 1 = Named(request.range, size)
    BY <2>2, <2>3
  <2> HIDE DEF first, count, range
  <2> QED
    BY <1>1, <1>5, <2>3, <2>4, <2>5, FileOpened
<1>6. CASE Respond(Response(416, "none")) /\ file' = file
  <2>1. pc' = "done"
    BY <1>6 DEF Respond
  <2>2. Typed'
    BY <1>1, <1>6, <2>1, TypedKept DEF BInv, Typed, Closed
  <2> QED
    BY <1>6, <2>2, EndedByResponse
<1> QED
  BY <1>3, <1>4, <1>5, <1>6 DEF Open

LEMMA OpenedKeeps == BInv /\ IInv' /\ Opened => BInv'
<1> SUFFICES ASSUME BInv, IInv', Opened PROVE BInv'
  OBVIOUS
<1>1. /\ pc = "opened" /\ pc' \in {"send", "done"}
      /\ file' \in {file, Nothing} /\ UNCHANGED <<world, steady, served, request, vhost, st>>
  BY DEF Opened, context
<1>2. Nothing \in Nodes
  BY DEF Nothing, Nodes
<1>3. Typed'
  BY <1>1, <1>2, TypedKept DEF BInv, Typed, Closed
<1>4. PICK first \in Nat, count \in Nat : Copied(first, count)
  BY <1>1 DEF BInv, Sending
<1>5. CASE request.method = "HEAD"
  <2>1. pc' = "done" /\ resp' = [resp EXCEPT !.fd = FALSE, !.body = "none"]
    BY <1>5 DEF Opened
  <2>2. /\ DOMAIN resp' = DOMAIN resp /\ resp'.body = "none" /\ resp'.fd = FALSE
        /\ resp'.off = resp.off /\ resp'.left = resp.left
    BY <1>4, <2>1 DEF Copied
  <2>3. MethodKnown' /\ Blank' /\ StatIsGood' /\ Sending'
    BY <2>1 DEF MethodKnown, Blank, StatIsGood, Sending
  <2>4. SentAll'
    BY <1>4, <2>2 DEF SentAll, Copied
  <2> QED
    BY <1>3, <2>3, <2>4 DEF BInv
<1>6. CASE request.method # "HEAD"
  <2>1. pc' = "send" /\ resp' = resp /\ file' = file /\ request.method = "GET"
    BY <1>1, <1>6 DEF Opened, BInv, MethodKnown
  <2>2. MethodKnown' /\ Blank' /\ StatIsGood' /\ SentAll'
    BY <1>1, <2>1 DEF BInv, MethodKnown, Blank, StatIsGood, SentAll
  <2>3. Copied(first, count)'
    BY <1>1, <1>4, <2>1 DEF Copied, Announced
  <2>4. Sending'
    BY <2>3 DEF Sending
  <2> QED
    BY <1>3, <2>2, <2>4 DEF BInv
<1> QED
  BY <1>5, <1>6

LEMMA SendByteKeeps == BInv /\ IInv' /\ SendByte => BInv'
<1> SUFFICES ASSUME BInv, IInv', SendByte PROVE BInv'
  OBVIOUS
<1>1. /\ pc = "send" /\ pc' = "send" /\ resp.left > 0 /\ resp.off < Len(file.bytes)
      /\ resp' = [resp EXCEPT !.off = @ + 1, !.left = @ - 1,
                              !.sent = Append(@, file.bytes[resp.off + 1])]
      /\ UNCHANGED <<world, steady, served, request, vhost, st, file>>
  BY DEF SendByte, context
<1>2. Typed'
  BY <1>1, TypedKept DEF BInv, Typed
<1>3. MethodKnown' /\ Blank' /\ StatIsGood' /\ SentAll'
  BY <1>1 DEF BInv, MethodKnown, Blank, StatIsGood, SentAll
<1>4. PICK first \in Nat, count \in Nat : Copied(first, count)
  BY <1>1 DEF BInv, Sending
<1> DEFINE sent == resp.sent
           byte == file.bytes[resp.off + 1]
<1>5. /\ sent \in Seq(Nat) /\ Len(sent) \in Nat /\ resp.off \in Nat /\ resp.left \in Nat
      /\ resp.off = first + Len(sent) /\ resp.left + Len(sent) = count
  BY <1>4 DEF Copied
<1>6. file.bytes \in Seq(Nat) /\ byte \in Nat
  <2>1. file.bytes \in Seq(Nat)
    BY DEF BInv, Typed, Nodes
  <2>2. resp.off + 1 \in 1..Len(file.bytes)
    BY <1>1, <1>5, <2>1
  <2> QED
    BY <2>1, <2>2
<1>7. /\ DOMAIN resp' = DOMAIN resp /\ resp'.status = resp.status /\ resp'.body = resp.body
      /\ resp'.off = resp.off + 1 /\ resp'.left = resp.left - 1 /\ resp'.sent = Append(sent, byte)
  BY <1>1, <1>4 DEF Copied
<1>8. /\ resp'.sent \in Seq(Nat) /\ Len(resp'.sent) = Len(sent) + 1
      /\ resp'.sent[Len(sent) + 1] = byte /\ \A i \in 1..Len(sent) : resp'.sent[i] = sent[i]
  BY <1>5, <1>6, <1>7
<1>9. Copied(first, count)'
  <2>1. /\ first + count <= Len(st'.bytes)
        /\ request'.range \in Headers(Unsigned) => Announced' = first..first + count - 1
    BY <1>1, <1>4, <1>7 DEF Copied, Announced
  <2>2. /\ resp'.off \in Nat /\ resp'.left \in Nat
        /\ resp'.off = first + Len(resp'.sent) /\ resp'.left + Len(resp'.sent) = count
    <3>1. resp.left > 0
      BY <1>1
    <3>2. /\ resp'.off = resp.off + 1 /\ resp'.left = resp.left - 1
          /\ Len(resp'.sent) = Len(sent) + 1
      BY <1>7, <1>8
    <3> QED
      BY <1>5, <3>1, <3>2
  <2>3. ASSUME steady', NEW i \in 1..Len(resp'.sent) PROVE resp'.sent[i] = st'.bytes[first + i]
    <3>1. steady /\ file.bytes = st.bytes /\ st' = st
      BY <1>1, <2>3 DEF BInv, StatIsGood
    <3>2. CASE i \in 1..Len(sent)
      BY <1>4, <1>8, <3>1, <3>2 DEF Copied
    <3>3. CASE i = Len(sent) + 1
      <4>1. resp.off + 1 = first + i
        BY <1>5, <3>3
      <4> QED
        BY <1>8, <3>1, <3>3, <4>1
    <3> QED
      BY <1>5, <1>8, <3>2, <3>3
  <2> QED
    BY <1>4, <1>7, <1>8, <2>1, <2>2, <2>3 DEF Copied
<1>10. Sending'
  BY <1>9 DEF Sending
<1> QED
  BY <1>2, <1>3, <1>10 DEF BInv

LEMMA SendDoneKeeps == BInv /\ IInv' /\ SendDone => BInv'
<1> SUFFICES ASSUME BInv, IInv', SendDone PROVE BInv'
  OBVIOUS
<1>1. /\ pc = "send" /\ pc' = "done" /\ (resp.left = 0 \/ resp.off >= Len(file.bytes))
      /\ resp' = [resp EXCEPT !.fd = FALSE] /\ file' = Nothing
      /\ UNCHANGED <<world, steady, served, request, vhost, st>>
  BY DEF SendDone, BreaksOff, context
<1>2. Typed'
  <2>1. Nothing \in Nodes
    BY DEF Nothing, Nodes
  <2> QED
    BY <1>1, <2>1, TypedKept DEF BInv, Typed, Closed
<1>3. MethodKnown' /\ Blank' /\ StatIsGood' /\ Sending'
  BY <1>1 DEF MethodKnown, Blank, StatIsGood, Sending
<1>4. PICK first \in Nat, count \in Nat : Copied(first, count)
  BY <1>1 DEF BInv, Sending
<1>5. /\ DOMAIN resp' = DOMAIN resp /\ resp'.status = resp.status /\ resp'.body = resp.body
      /\ resp'.off = resp.off /\ resp'.left = resp.left /\ resp'.sent = resp.sent
      /\ resp'.fd = FALSE
  <2>1. "fd" \in DOMAIN resp
    BY <1>4 DEF Copied
  <2> QED
    BY <1>1, <1>4, <2>1 DEF Copied
<1>6. Copied(first, count)'
  BY <1>1, <1>4, <1>5 DEF Copied, Announced
<1>7. steady => resp.left = 0
  <2>1. /\ resp.off \in Nat /\ resp.left \in Nat /\ Len(resp.sent) \in Nat
        /\ resp.off = first + Len(resp.sent) /\ resp.left + Len(resp.sent) = count
        /\ first + count <= Len(st.bytes)
    BY <1>4 DEF Copied
  <2>2. Len(st.bytes) \in Nat
    BY DEF BInv, Typed, Nodes
  <2>3. steady => file.bytes = st.bytes
    BY <1>1 DEF BInv, StatIsGood
  <2> QED
    BY <1>1, <2>1, <2>2, <2>3
<1>8. SentAll'
  <2>1. request'.method = "GET" /\ (steady' => resp'.left = 0)
    BY <1>1, <1>5, <1>7 DEF BInv, MethodKnown
  <2> QED
    BY <1>4, <1>5, <1>6, <2>1 DEF SentAll, Copied
<1> QED
  BY <1>2, <1>3, <1>8 DEF BInv

LEMMA ReceiveKeeps == BInv /\ IInv' /\ Receive => BInv'
<1> SUFFICES ASSUME BInv, IInv', Receive PROVE BInv'
  OBVIOUS
<1>1. /\ pc = "done" /\ pc' = "idle" /\ served' = served + 1 /\ st' = Nothing /\ vhost' = 0
      /\ resp' = NoResponse /\ steady' = TRUE /\ UNCHANGED <<world, file>>
  BY DEF Receive
<1>2. Nothing \in Nodes /\ Len(VirtualHosts) \in Nat
  BY VirtualHostsAssumption DEF Nothing, Nodes
<1>3. served' \in 0..MaxRequests /\ vhost' \in 0..Len(VirtualHosts)
  BY <1>1, <1>2, BoundsAssumption DEF BInv, Typed
<1>4. Typed'
  BY <1>1, <1>2, <1>3, TypedKept DEF BInv, Typed, Closed
<1>5. MethodKnown' /\ Blank' /\ StatIsGood' /\ Sending' /\ SentAll'
  BY <1>1 DEF MethodKnown, Blank, StatIsGood, Sending, SentAll
<1> QED
  BY <1>4, <1>5 DEF BInv

(***************************************************************************)
(* The invariant, and what follows from it.                                 *)
(***************************************************************************)
LEMMA InitBInv == Init => BInv
<1> SUFFICES ASSUME Init PROVE BInv
  OBVIOUS
<1>1. Nothing \in Nodes /\ Len(VirtualHosts) \in Nat
  BY VirtualHostsAssumption DEF Nothing, Nodes
<1>2. Typed
  BY <1>1, BoundsAssumption, DisksAssumption DEF Init, Typed, Closed
<1>3. MethodKnown /\ Blank /\ StatIsGood /\ Sending /\ SentAll
  BY DEF Init, MethodKnown, Blank, StatIsGood, Sending, SentAll
<1> QED
  BY <1>2, <1>3, InitOwned DEF BInv

LEMMA NextBInv == BInv /\ [Next]_vars => BInv'
<1> SUFFICES ASSUME BInv, [Next]_vars PROVE BInv'
  OBVIOUS
<1>1. IInv'
  BY NextOwned DEF BInv
<1>2. CASE Others
  BY <1>1, <1>2, OthersKeep
<1>3. CASE \E r \in Requests, a \in BOOLEAN : Arrive(r, a)
  BY <1>1, <1>3, ArriveKeeps
<1>4. CASE phase_find_config \/ phase_access
  BY <1>1, <1>4, FindConfigKeeps, AccessKeeps
<1>5. CASE phase_content
  BY <1>1, <1>5, DispatchKeeps, IndexKeeps, ServeKeeps, OpenKeeps, OpenedKeeps
     DEF phase_content, serve_static_file
<1>6. CASE write_response
  BY <1>1, <1>6, SendByteKeeps, SendDoneKeeps DEF write_response
<1>7. CASE Receive
  BY <1>1, <1>7, ReceiveKeeps
<1>8. CASE UNCHANGED vars
  <2>1. UNCHANGED <<disk, now, changes, quiet, steady, served, request, vhost, pc, path, st, resp,
                    file>>
    BY <1>8 DEF vars, world, context
  <2>2. Typed' /\ MethodKnown' /\ Blank' /\ StatIsGood'
    BY <2>1 DEF BInv, Typed, MethodKnown, Blank, StatIsGood, Node
  <2>3. ASSUME NEW first \in Nat, NEW count \in Nat, Copied(first, count)
        PROVE  Copied(first, count)'
    BY <2>1, <2>3 DEF Copied, Announced
  <2>4. Sending'
    BY <2>1, <2>3 DEF BInv, Sending
  <2>5. SentAll'
    BY <2>1, <2>3 DEF BInv, SentAll
  <2> QED
    BY <1>1, <2>2, <2>4, <2>5 DEF BInv
<1> QED
  BY <1>2, <1>3, <1>4, <1>5, <1>6, <1>7, <1>8 DEF Next, Server

LEMMA InvariantHolds == Spec => []BInv
BY InitBInv, NextBInv, PTL DEF Spec

\* The state is of its type, and what a response has left to send lies within the file
\* that stat() saw, whatever the others do to the file meanwhile.
THEOREM TypeCorrect == Spec => []TypeOK
<1>1. ASSUME BInv PROVE TypeOK
  <2>1. FdKnown /\ FdWhereSent
    BY <1>1 DEF BInv, IInv
  <2>2. st \in Nodes /\ Len(st.bytes) \in Nat
    BY <1>1 DEF BInv, Typed, Nodes
  <2>3. resp.off \in Nat /\ resp.left \in Nat
    <3>1. CASE pc \in {"opened", "send"}
      BY <1>1, <3>1 DEF BInv, Sending, Copied
    <3>2. CASE pc = "done"
      BY <1>1, <3>2 DEF BInv, SentAll
    <3>3. CASE pc \notin {"opened", "send", "done"}
      BY <1>1, <3>3 DEF BInv, Blank, NoResponse, Response
    <3> QED
      BY <3>1, <3>2, <3>3
  <2>4. resp.fd => resp.off + resp.left <= Len(st.bytes)
    <3>1. SUFFICES ASSUME pc \in {"opened", "send"} PROVE resp.off + resp.left <= Len(st.bytes)
      BY <2>1 DEF FdKnown, FdWhereSent
    <3>2. PICK first \in Nat, count \in Nat : Copied(first, count)
      BY <1>1, <3>1 DEF BInv, Sending
    <3>3. /\ resp.off = first + Len(resp.sent) /\ resp.left + Len(resp.sent) = count
          /\ first + count <= Len(st.bytes) /\ Len(resp.sent) \in Nat
      BY <3>2 DEF Copied
    <3> QED
      BY <2>2, <2>3, <3>3
  <2> QED
    BY <1>1, <2>1, <2>2, <2>3, <2>4 DEF TypeOK, BInv, Typed, Closed, FdKnown, Nodes
<1> QED
  BY InvariantHolds, <1>1, PTL

LEMMA LowestOfInterval ==
  ASSUME NEW first \in Nat, NEW count \in Nat \ {0}
  PROVE  Min(first..first + count - 1) = first
<1> DEFINE S == first..first + count - 1
<1>1. S \subseteq Nat /\ first \in S /\ \A m \in S : first <= m
  OBVIOUS
<1>2. Min(S) \in S /\ \A m \in S : Min(S) <= m
  <2> HIDE DEF S
  <2> QED
    BY <1>1 DEF Min
<1> QED
  BY <1>1, <1>2

\* As long as the file stays as stat() saw it, a GET is sent the bytes that its
\* Content-Length or Content-Range announces and no other, and only a GET is sent any.
\* The reference gives "bytes=--1" no meaning, so the numbers asked for have no sign.
THEOREM BodyIsAsAnnounced ==
  ASSUME \A r \in Requests : r.range \in Headers(Unsigned)
  PROVE  Spec => []BodyAsAnnounced
<1>1. ASSUME BInv, pc = "done", steady, resp.body = "file"
      PROVE  /\ request.method = "GET"
             /\ resp.sent = [i \in 1..Cardinality(Announced) |-> st.bytes[Min(Announced) + i]]
  <2>1. request.method = "GET" /\ resp.left = 0
    BY <1>1 DEF BInv, SentAll
  <2>2. PICK first \in Nat, count \in Nat : Copied(first, count)
    BY <1>1 DEF BInv, SentAll
  <2>u. request.range \in Headers(Unsigned)
    BY <1>1 DEF BInv, Typed
  <2>3. /\ resp.sent \in Seq(Nat) /\ Len(resp.sent) = count /\ Announced = first..first + count - 1
        /\ \A i \in 1..count : resp.sent[i] = st.bytes[first + i]
    BY <1>1, <2>1, <2>2, <2>u DEF Copied
  <2>4. Cardinality(Announced) = count
    <3>1. Cardinality(first..first + count - 1)
            = IF first > first + count - 1 THEN 0 ELSE first + count - 1 - first + 1
      BY FS_Interval
    <3> QED
      BY <2>3, <3>1
  <2>5. ASSUME NEW i \in 1..count PROVE resp.sent[i] = st.bytes[Min(Announced) + i]
    <3>1. Min(Announced) = first
      <4>1. count \in Nat \ {0}
        OBVIOUS
      <4> QED
        BY <2>3, <4>1, LowestOfInterval
    <3> QED
      BY <2>3, <3>1
  <2>6. resp.sent = [i \in 1..count |-> resp.sent[i]]
    BY <2>3
  <2> QED
    BY <2>1, <2>4, <2>5, <2>6
<1>2. BInv => BodyAsAnnounced
  BY <1>1 DEF BodyAsAnnounced, Announced
<1> QED
  BY InvariantHolds, <1>2, PTL

\* parse_range() gives exactly the bytes that a header names, and refuses if there are
\* none or if the last one would lie behind the end, for all numbers without a sign.
THEOREM RangesHold ==
  ASSUME TestNumbers \subseteq Unsigned, TestSizes \subseteq Nat
  PROVE  Spec => []RangesAreExact
<1>1. ASSUME NEW size \in Nat, NEW first \in Unsigned, NEW last \in Unsigned,
             ~RangeThrows([form |-> "bytes", start |-> first, end |-> last])
      PROVE  LET header == [form |-> "bytes", start |-> first, end |-> last]
                 range == parse_range(header, size)
             IN  IF range.valid THEN range.start..range.end = Named(header, size)
                 ELSE Named(header, size) = {} \/ (first # <<>> /\ last # <<>> /\ last[1] >= size)
  <2> DEFINE header == [form |-> "bytes", start |-> first, end |-> last]
  <2>1. /\ header \in Headers(Unsigned) /\ header.form = "bytes"
        /\ header.start = first /\ header.end = last
    BY DEF Headers
  <2>2. ~RangeThrows(header)
    BY <1>1
  <2> HIDE DEF header
  <2>3. LET range == parse_range(header, size)
        IN  IF range.valid THEN range.start..range.end = Named(header, size)
            ELSE Named(header, size) = {} \/ (first # <<>> /\ last # <<>> /\ last[1] >= size)
    BY <2>1, <2>2, RangeIsExact
  <2> QED
    BY <2>3 DEF header
<1>2. RangesAreExact
  BY <1>1 DEF RangesAreExact
<1> QED
  BY <1>2, PTL

(***************************************************************************)
(* What the client keeps.  If no change has given a place an inode, size and  *)
(* time that it had before, a validator tells whether the bytes are the same: *)
(* those of a copy, and those on their way to become one.                    *)
(***************************************************************************)
Inodes ==
  /\ <<>> \notin DOMAIN disk
  /\ \A p \in DOMAIN disk : /\ disk[p].ino < 10 + changes
                            /\ disk[p].kind = "file" \/ p \in Mutable => disk[p].ino # 0
  /\ \A p \in Mutable, q \in DOMAIN disk : p # q => disk[p].ino # disk[q].ino

VersionsKnown == \A p \in Mutable : Version(p, disk[p]) \in versions

\* The place has the version (p, etag, date) still, and the file got younger since if
\* not.
Since(p, etag, date) ==
  /\ p \in Mutable => <<p, etag.ino, etag.size, etag.mtime>> \in versions
  /\ p \in DOMAIN disk /\ "date" \notin quiet =>
       /\ disk[p].mtime >= date
       /\ disk[p].kind = "file" /\ disk[p].mtime = date => Etag(disk[p]) = etag

\* From serve_static_file's stat() to the end of the response.
Reading == pc \in {"open", "opened", "send"} \/ (pc = "done" /\ resp.body = "file")

Same == "etag" \notin quiet /\ Etag(Node(path)) = Etag(st)

\* A whole file: what is sent of it are its first bytes.
Whole ==
  /\ {"status", "etag", "date", "sent", "off", "left"} \subseteq DOMAIN resp
  /\ resp.etag = Etag(st) /\ resp.date = st.mtime
  /\ resp.off = Len(resp.sent) /\ resp.off + resp.left = Len(st.bytes)
  /\ Same => \A i \in 1..Len(resp.sent) : resp.sent[i] = st.bytes[i]

Transfer ==
  Reading =>
    /\ st.kind = "file" /\ path \in DOMAIN disk /\ Since(path, Etag(st), st.mtime)
    /\ Same => /\ st = disk[path]
               /\ pc \in {"opened", "send"} => file.bytes = st.bytes /\ file.ino = st.ino
    /\ pc # "open" => resp.status # 304 /\ (resp.status = 200 => Whole)

Copy ==
  /\ cache.etag \in [ino : Nat, size : Nat, mtime : Nat] /\ cache.date \in Nat
  /\ Since(cache.path, cache.etag, cache.date)
  /\ cache.path \in DOMAIN disk /\ "etag" \notin quiet /\ Etag(Node(cache.path)) = cache.etag
       => cache.bytes = disk[cache.path].bytes

HInv == Inodes /\ VersionsKnown /\ Transfer /\ Copy /\ NotModifiedIsCurrent

(***************************************************************************)
(* Its steps.                                                               *)
(***************************************************************************)
LEMMA EtagFacts ==
  ASSUME NEW node \in Nodes
  PROVE  /\ Etag(node) \in [ino : Nat, size : Nat, mtime : Nat] /\ node.mtime \in Nat
         /\ Etag(node).ino = node.ino /\ Etag(node).size = Len(node.bytes)
         /\ Etag(node).mtime = node.mtime
BY DEF Nodes, Etag

\* A change leads to a version of its place that is new, or it is a quiet one.
LEMMA SinceKept ==
  ASSUME Typed, NEW p \in Mutable, NEW node \in Nodes, Change(p, node),
         node.kind = "file" \/ (node.kind = "none" /\ node.mtime = disk[p].mtime),
         NEW q, NEW etag, NEW date \in Nat, Since(q, etag, date)
  PROVE  Since(q, etag, date)'
<1>1. /\ versions \subseteq versions' /\ quiet \subseteq quiet'
      /\ disk' = [disk EXCEPT ![p] = node]
      /\ "date" \notin quiet' => ~(node.kind = "file" /\ node.mtime <= disk[p].mtime)
  BY DEF Change
<1>2. q \in Mutable => <<q, etag.ino, etag.size, etag.mtime>> \in versions'
  BY <1>1 DEF Since
<1>3. ASSUME q \in DOMAIN disk', "date" \notin quiet'
      PROVE  /\ disk'[q].mtime >= date
             /\ disk'[q].kind = "file" /\ disk'[q].mtime = date => Etag(disk'[q]) = etag
  <2>1. /\ q \in DOMAIN disk /\ disk[q].mtime >= date /\ disk[q].mtime \in Nat
        /\ disk[q].kind = "file" /\ disk[q].mtime = date => Etag(disk[q]) = etag
    BY <1>1, <1>3, EtagFacts DEF Since, Typed
  <2>2. CASE q # p
    BY <1>1, <2>1, <2>2
  <2>3. CASE q = p
    <3>1. disk'[q] = node /\ node.mtime \in Nat
      BY <1>1, <2>1, <2>3, EtagFacts
    <3>2. CASE node.kind = "file"
      <4>1. node.mtime > disk[q].mtime
        BY <1>1, <1>3, <2>1, <2>3, <3>1, <3>2
      <4> QED
        BY <2>1, <3>1, <4>1
    <3>3. CASE node.kind = "none" /\ node.mtime = disk[q].mtime
      BY <2>1, <3>1, <3>3
    <3> QED
      BY <2>3, <3>2, <3>3
  <2> QED
    BY <2>2, <2>3
<1> QED
  BY <1>2, <1>3 DEF Since

\* If it is not quiet, no place gets a version again that was known.
LEMMA NewVersion ==
  ASSUME NEW p \in Mutable, NEW node \in Nodes, Change(p, node), "etag" \notin quiet',
         NEW etag, <<p, etag.ino, etag.size, etag.mtime>> \in versions
  PROVE  Etag(node) # etag
<1>1. Version(p, node) \notin versions
  BY DEF Change
<1>2. Version(p, node) = <<p, Etag(node).ino, Etag(node).size, Etag(node).mtime>>
  BY DEF Version, Etag
<1> QED
  BY <1>1, <1>2

LEMMA OthersHInv == BInv /\ HInv /\ Others => HInv'
<1> SUFFICES ASSUME BInv, HInv, Others PROVE HInv'
  OBVIOUS
<1>0. Typed
  BY DEF BInv
<1>1. PICK p \in Mutable, node \in Nodes :
        /\ Change(p, node) /\ (file' = file \/ file.ino = disk[p].ino)
        /\ \/ node.kind = "file" /\ node.ino \in {disk[p].ino, 10 + changes}
           \/ node.kind = "none" /\ node.ino = disk[p].ino /\ node.mtime = disk[p].mtime
  BY <1>0, ChangeFacts
<1>2. /\ changes \in Nat /\ changes' = changes + 1 /\ disk' = [disk EXCEPT ![p] = node]
      /\ p \in DOMAIN disk /\ versions' = versions \cup {Version(p, node)}
      /\ quiet \subseteq quiet' /\ UNCHANGED <<request, pc, path, st, resp, cache>>
  BY <1>0, <1>1, BoundsAssumption DEF Change, context, Typed
<1>3. /\ DOMAIN disk' = DOMAIN disk /\ disk'[p] = node
      /\ \A q \in DOMAIN disk : q # p => disk'[q] = disk[q]
  BY <1>2
<1>4. Inodes'
  <2>1. \A q \in DOMAIN disk : disk[q].ino \in Nat /\ disk[q].ino < 10 + changes
    <3>1. \A q \in DOMAIN disk : disk[q] \in Nodes
      BY <1>0 DEF Typed
    <3>2. \A q \in DOMAIN disk : disk[q].ino < 10 + changes
      BY DEF HInv, Inodes
    <3> QED
      BY <3>1, <3>2 DEF Nodes
  <2>2. node.ino \in Nat /\ node.ino # 0 /\ node.ino < 10 + changes'
    BY <1>1, <1>2, <2>1 DEF HInv, Inodes
  <2>3. \A q \in DOMAIN disk : q # p => node.ino # disk[q].ino
    BY <1>1, <1>2, <2>1 DEF HInv, Inodes
  <2>4. <<>> \notin DOMAIN disk'
    BY <1>3 DEF HInv, Inodes
  <2>5. ASSUME NEW q \in DOMAIN disk'
        PROVE  /\ disk'[q].ino < 10 + changes'
               /\ disk'[q].kind = "file" \/ q \in Mutable => disk'[q].ino # 0
    BY <1>2, <1>3, <2>1, <2>2 DEF HInv, Inodes
  <2>6. ASSUME NEW r \in Mutable, NEW q \in DOMAIN disk', r # q PROVE disk'[r].ino # disk'[q].ino
    <3>1. r \in DOMAIN disk
      BY <1>0 DEF Typed
    <3> QED
      BY <1>3, <2>3, <2>6, <3>1 DEF HInv, Inodes
  <2> QED
    BY <2>4, <2>5, <2>6 DEF Inodes
<1>5. VersionsKnown'
  BY <1>0, <1>2, <1>3 DEF HInv, VersionsKnown, Version, Typed
<1>6. ASSUME NEW q, NEW etag, NEW date \in Nat, Since(q, etag, date)
      PROVE  Since(q, etag, date)'
  BY <1>0, <1>1, <1>6, SinceKept
\* A place that has a known version has kept it.
<1>7. ASSUME NEW q \in DOMAIN disk, NEW etag, NEW date, Since(q, etag, date),
             "etag" \notin quiet', Etag(disk'[q]) = etag
      PROVE  q # p
  <2>1. SUFFICES ASSUME q = p PROVE FALSE
    OBVIOUS
  <2>2. <<p, etag.ino, etag.size, etag.mtime>> \in versions
    BY <1>7, <2>1 DEF Since
  <2> QED
    BY <1>1, <1>3, <1>7, <2>1, <2>2, NewVersion
<1>8. Copy'
  <2>1. Since(cache.path, cache.etag, cache.date) /\ cache.date \in Nat
    BY DEF HInv, Copy
  <2>2. ASSUME cache.path \in DOMAIN disk', "etag" \notin quiet',
               Etag(disk'[cache.path]) = cache.etag
        PROVE  cache.bytes = disk'[cache.path].bytes
    <3>1. cache.path # p /\ cache.path \in DOMAIN disk
      BY <1>3, <1>7, <2>1, <2>2
    <3> QED
      BY <1>2, <1>3, <2>2, <3>1 DEF HInv, Copy, Node
  <2>3. Since(cache.path, cache.etag, cache.date)'
    BY <1>2, <1>6, <2>1
  <2> QED
    BY <1>2, <2>2, <2>3 DEF HInv, Copy, Node
<1>9. Transfer'
  <2> SUFFICES ASSUME Reading PROVE Transfer'
    BY <1>2 DEF Transfer, Reading
  <2>1. /\ st.kind = "file" /\ path \in DOMAIN disk /\ Since(path, Etag(st), st.mtime)
        /\ st.mtime \in Nat
    BY <1>0, EtagFacts DEF HInv, Transfer, Typed
  <2>2. Since(path, Etag(st), st.mtime)'
    BY <1>2, <1>6, <2>1
  <2>3. ASSUME Same' PROVE Same /\ disk'[path] = disk[path] /\ path # p
    <3>1. "etag" \notin quiet' /\ Etag(disk'[path]) = Etag(st)
      BY <1>2, <1>3, <2>1, <2>3 DEF Same, Node
    <3>2. path # p
      BY <1>7, <2>1, <3>1
    <3> QED
      BY <1>2, <1>3, <2>1, <3>1, <3>2 DEF Same, Node
  <2>4. ASSUME Same'
        PROVE  /\ st' = disk'[path']
               /\ pc' \in {"opened", "send"} => file'.bytes = st'.bytes /\ file'.ino = st'.ino
    <3>1. st = disk[path]
      BY <2>3, <2>4 DEF HInv, Transfer
    <3>2. ASSUME pc \in {"opened", "send"}
          PROVE  file' = file /\ file.bytes = st.bytes /\ file.ino = st.ino
      <4>1. file.bytes = st.bytes /\ file.ino = st.ino
        BY <2>3, <2>4, <3>2 DEF HInv, Transfer
      <4>2. disk[path].ino # disk[p].ino
        BY <2>1, <2>3, <2>4 DEF HInv, Inodes
      <4> QED
        BY <1>1, <3>1, <4>1, <4>2
    <3> QED
      BY <1>2, <2>3, <2>4, <3>1, <3>2
  <2>5. pc' # "open" => resp'.status # 304 /\ (resp'.status = 200 => Whole')
    BY <1>2, <2>3 DEF HInv, Transfer, Whole
  <2> QED
    BY <1>2, <1>3, <2>1, <2>2, <2>4, <2>5 DEF Transfer
<1>10. NotModifiedIsCurrent'
  BY <1>2 DEF HInv, NotModifiedIsCurrent
<1> QED
  BY <1>4, <1>5, <1>8, <1>9, <1>10 DEF HInv

\* A step that leaves disk and copy as they are, and is no part of a transfer.
LEMMA Elsewhere ==
  ASSUME HInv, UNCHANGED <<world, cache>>, pc' \notin {"open", "opened", "send"},
         pc' = "done" => resp'.body # "file" /\ (resp'.body = "none" => resp'.status # 304)
  PROVE  HInv'
<1>1. UNCHANGED <<disk, changes, versions, quiet, cache>>
  BY DEF world
<1>2. Inodes' /\ VersionsKnown'
  BY <1>1 DEF HInv, Inodes, VersionsKnown, Version
<1>3. Transfer'
  BY DEF Transfer, Reading
<1>4. Copy'
  <2>1. Since(cache.path, cache.etag, cache.date)'
    BY <1>1 DEF HInv, Copy, Since
  <2> QED
    BY <1>1, <2>1 DEF HInv, Copy, Node
<1>5. NotModifiedIsCurrent'
  BY DEF NotModifiedIsCurrent
<1> QED
  BY <1>2, <1>3, <1>4, <1>5 DEF HInv

\* A step of a transfer.
LEMMA Continues ==
  ASSUME HInv, UNCHANGED <<world, cache>>, Transfer', pc' = "done" => resp'.status # 304
  PROVE  HInv'
<1>1. UNCHANGED <<disk, changes, versions, quiet, cache>>
  BY DEF world
<1>2. Inodes' /\ VersionsKnown'
  BY <1>1 DEF HInv, Inodes, VersionsKnown, Version
<1>3. Copy'
  <2>1. Since(cache.path, cache.etag, cache.date)'
    BY <1>1 DEF HInv, Copy, Since
  <2> QED
    BY <1>1, <2>1 DEF HInv, Copy, Node
<1>4. NotModifiedIsCurrent'
  BY DEF NotModifiedIsCurrent
<1> QED
  BY <1>2, <1>3, <1>4 DEF HInv

\* The steps before and after a transfer.
LEMMA RespondsElsewhere ==
  ASSUME HInv, UNCHANGED <<world, cache>>, NEW status, NEW body, Respond(Response(status, body)),
         body # "file", body = "none" => status # 304
  PROVE  HInv'
<1>1. pc' = "done" /\ resp' = Response(status, body)
  BY DEF Respond
<1>2. resp'.body = body /\ resp'.status = status
  <2>1. Response(status, body).status = status /\ Response(status, body).body = body
    BY ResponseFields
  <2> QED
    BY <1>1, <2>1
<1>3. pc' \notin {"open", "opened", "send"}
  BY <1>1
<1> QED
  BY <1>2, <1>3, Elsewhere

LEMMA OthersElsewhere ==
  ASSUME HInv,
         \/ \E r \in Requests, a \in BOOLEAN : Arrive(r, a)
         \/ phase_find_config \/ phase_access \/ DispatchContent \/ IsExecutable \/ RunCgi
         \/ serve_directory_index \/ OpenFails
  PROVE  HInv'
<1>1. UNCHANGED <<world, cache>>
  BY DEF Arrive, phase_find_config, phase_access, ResolvePath, Stat, Authenticate,
         DispatchContent, IsExecutable, RunCgi, serve_directory_index, TryIndex, List, OpenFails
<1>2. ASSUME NEW status, NEW body, Respond(Response(status, body)), body # "file",
             body = "none" => status # 304
      PROVE  HInv'
  BY <1>1, <1>2, RespondsElsewhere
<1>3. CASE pc' \notin {"open", "opened", "send", "done"}
  BY <1>1, <1>3, Elsewhere
<1>4. CASE \E r \in Requests, a \in BOOLEAN : Arrive(r, a)
  BY <1>3, <1>4 DEF Arrive
<1>5. CASE phase_find_config
  BY <1>2, <1>3, <1>5 DEF phase_find_config
<1>6. CASE phase_access
  <2>1. CASE ResolvePath
    BY <1>2, <1>3, <2>1 DEF ResolvePath
  <2>2. CASE Stat
    BY <1>2, <1>3, <2>2 DEF Stat
  <2>3. CASE Authenticate
    BY <1>2, <1>3, <2>3 DEF Authenticate
  <2> QED
    BY <1>6, <2>1, <2>2, <2>3 DEF phase_access
<1>7. CASE DispatchContent
  BY <1>2, <1>3, <1>7 DEF DispatchContent
<1>8. CASE IsExecutable
  BY <1>2, <1>3, <1>8 DEF IsExecutable
<1>9. CASE RunCgi
  BY <1>2, <1>9 DEF RunCgi
<1>10. CASE serve_directory_index
  <2>1. CASE TryIndex
    BY <1>3, <2>1 DEF TryIndex
  <2>2. CASE List
    BY <1>2, <2>2 DEF List
  <2> QED
    BY <1>10, <2>1, <2>2 DEF serve_directory_index
<1>11. CASE OpenFails
  BY <1>2, <1>11 DEF OpenFails
<1> QED
  BY <1>4, <1>5, <1>6, <1>7, <1>8, <1>9, <1>10, <1>11

\* stat(): a validator that matches is that of the version which the place has.
LEMMA ServeHInv == BInv /\ HInv /\ ServeStatic => HInv'
<1> SUFFICES ASSUME BInv, HInv, ServeStatic PROVE HInv'
  OBVIOUS
<1>1. /\ pc = "serve" /\ st' = Node(path) /\ UNCHANGED <<world, cache, path, request>>
      /\ UNCHANGED <<disk, versions, quiet>>
  BY DEF ServeStatic, world, context
<1>2. ASSUME NEW status, Respond(Response(status, "none")), status # 304 PROVE HInv'
  BY <1>1, <1>2, RespondsElsewhere
<1>3. ASSUME st'.kind = "file"
      PROVE  path \in DOMAIN disk /\ st' = disk[path] /\ disk[path] \in Nodes /\ disk[path].ino # 0
  BY <1>1, <1>3 DEF Node, Nothing, BInv, Typed, HInv, Inodes
<1>4. ASSUME st'.kind = "file", pc' = "open", resp' = resp PROVE HInv'
  <2>1. st' = disk[path] /\ path \in DOMAIN disk
    BY <1>3, <1>4
  <2>2. Since(path, Etag(st'), st'.mtime)
    <3>1. path \in Mutable => <<path, Etag(st').ino, Etag(st').size, Etag(st').mtime>> \in versions
      BY <2>1 DEF HInv, VersionsKnown, Version, Etag
    <3>2. st'.mtime >= st'.mtime
      BY <1>3, <1>4, EtagFacts
    <3> QED
      BY <2>1, <3>1, <3>2 DEF Since
  <2>3. Transfer'
    BY <1>1, <1>4, <2>1, <2>2 DEF Transfer, Since, Etag
  <2>4. pc' # "done"
    BY <1>4
  <2> QED
    BY <1>1, <2>3, <2>4, Continues
<1>5. CASE /\ st'.kind = "file" /\ NotModified(IfNoneMatch, IfModifiedSince, st', now)
           /\ Respond([Response(304, "none") EXCEPT !.etag = Etag(st')])
  <2>1. pc' = "done" /\ resp'.body = "none"
    BY <1>5 DEF Respond, Response
  <2>2. ASSUME cache.path = path, "etag" \notin quiet, request.ims => "date" \notin quiet
        PROVE  cache.bytes = st'.bytes
    <3>1. /\ path \in DOMAIN disk /\ st' = disk[path] /\ disk[path] \in Nodes
          /\ disk[path].ino # 0 /\ disk[path].kind = "file"
      BY <1>3, <1>5
    <3>2. Since(path, cache.etag, cache.date) /\ cache.date \in Nat
      BY <2>2 DEF HInv, Copy
    <3>3. SUFFICES Etag(disk[path]) = cache.etag
      BY <1>1, <2>2, <3>1, <3>3 DEF HInv, Copy, Node
    <3>4. CASE IfNoneMatch = Etag(st')
      <4>1. IfNoneMatch # NoEtag
        BY <3>1, <3>4, EtagFacts DEF NoEtag
      <4> QED
        BY <3>1, <3>4, <4>1 DEF IfNoneMatch
    <3>5. CASE \E t \in IfModifiedSince : t <= now /\ st'.mtime <= t
      <4>1. request.ims /\ disk[path].mtime <= cache.date
        BY <3>1, <3>5 DEF IfModifiedSince
      <4>2. disk[path].mtime >= cache.date /\ disk[path].mtime \in Nat
        BY <2>2, <3>1, <3>2, <4>1, EtagFacts DEF Since
      <4>3. disk[path].mtime = cache.date
        BY <3>2, <4>1, <4>2
      <4> QED
        BY <2>2, <3>1, <3>2, <4>1, <4>3 DEF Since
    <3> QED
      BY <1>5, <3>4, <3>5 DEF NotModified
  <2>3. NotModifiedIsCurrent'
    BY <1>1, <2>2 DEF NotModifiedIsCurrent
  <2>4. Transfer'
    BY <2>1 DEF Transfer, Reading
  <2>5. Inodes' /\ VersionsKnown' /\ Copy'
    <3>1. UNCHANGED <<disk, changes, versions, quiet, cache>>
      BY <1>1 DEF world
    <3>2. Since(cache.path, cache.etag, cache.date)'
      BY <3>1 DEF HInv, Copy, Since
    <3> QED
      BY <3>1, <3>2 DEF HInv, Inodes, VersionsKnown, Version, Copy, Node
  <2> QED
    BY <2>3, <2>4, <2>5 DEF HInv
<1> QED
  BY <1>2, <1>4, <1>5 DEF ServeStatic

\* open(): what it opens is what stat() saw, if that is there still.
LEMMA OpenHInv == BInv /\ HInv /\ Open => HInv'
<1> SUFFICES ASSUME BInv, HInv, Open PROVE HInv'
  OBVIOUS
<1>1. /\ pc = "open" /\ UNCHANGED <<world, cache, path, st, request>>
      /\ UNCHANGED <<disk, versions, quiet>>
  BY DEF Open, world, context
<1>2. CASE pc' = "terminated"
  BY <1>1, <1>2, Elsewhere
<1>3. CASE Respond(Response(416, "none"))
  BY <1>1, <1>3, RespondsElsewhere
<1>4. ASSUME NEW status, NEW first, NEW size, resp' = FileResponse(status, first, size),
             pc' = "opened", file' = Node(path),
             status # 304, status = 200 => first = 0 /\ size = Len(st.bytes)
      PROVE  HInv'
  <2>1. /\ DOMAIN resp' = {"status", "body", "fd", "off", "left", "etag", "date", "sent"}
        /\ resp'.status = status /\ resp'.sent = <<>> /\ resp'.off = first /\ resp'.left = size
        /\ resp'.etag = Etag(st) /\ resp'.date = st.mtime
    BY <1>4 DEF FileResponse, Response
  <2>2. Len(st.bytes) \in Nat
    BY DEF BInv, Typed, Nodes
  <2>3. resp'.status = 200 => Whole'
    <3>1. st' = st /\ Etag(st') = Etag(st)
      BY <1>1
    <3>2. Len(resp'.sent) = 0
      BY <2>1
    <3> QED
      BY <1>4, <2>1, <2>2, <3>1, <3>2 DEF Whole
  <2>4. /\ st.kind = "file" /\ path \in DOMAIN disk /\ Since(path, Etag(st), st.mtime)
        /\ Same => st = disk[path]
    BY <1>1 DEF HInv, Transfer, Reading
  <2>5. Transfer'
    <3>1. Since(path, Etag(st), st.mtime)'
      BY <1>1, <2>4 DEF Since, Etag
    <3>2. Same' => Same
      BY <1>1 DEF Same, Node, Etag
    <3>3. Same' => file' = st'
      BY <1>1, <1>4, <2>4, <3>2 DEF Node
    <3> QED
      BY <1>1, <1>4, <2>1, <2>3, <2>4, <3>1, <3>2, <3>3 DEF Transfer
  <2> QED
    BY <1>1, <1>4, <2>5, Continues
<1>5. CASE resp' = FileResponse(200, 0, Len(st.bytes)) /\ pc' = "opened" /\ file' = Node(path)
  BY <1>4, <1>5
<1>6. ASSUME NEW range, resp' = PartialContent(range), pc' = "opened", file' = Node(path)
      PROVE  HInv'
  BY <1>4, <1>6 DEF PartialContent
<1> QED
  BY <1>2, <1>3, <1>5, <1>6 DEF Open

\* HEAD closes the file, a GET passes it on.
LEMMA OpenedHInv == BInv /\ HInv /\ BInv' /\ Opened => HInv'
<1> SUFFICES ASSUME BInv, HInv, BInv', Opened PROVE HInv'
  OBVIOUS
<1>1. pc = "opened" /\ UNCHANGED <<world, cache, path, st>> /\ UNCHANGED <<disk, versions, quiet>>
  BY DEF Opened, world
<1>2. CASE request.method = "HEAD"
  <2>1. pc' = "done" /\ resp' = [resp EXCEPT !.fd = FALSE, !.body = "none"]
    BY <1>2 DEF Opened
  <2>2. \E first, count \in Nat : Copied(first, count)
    BY <1>1 DEF BInv, Sending
  <2>3. {"status", "body", "fd"} \subseteq DOMAIN resp
    BY <2>2 DEF Copied
  <2>4. resp'.body = "none" /\ resp'.status = resp.status
    BY <2>1, <2>3
  <2>5. resp.status # 304
    BY <1>1 DEF HInv, Transfer, Reading
  <2> QED
    BY <1>1, <2>1, <2>4, <2>5, Elsewhere
<1>3. CASE request.method # "HEAD"
  <2>1. pc' = "send" /\ resp' = resp /\ file' = file
    BY <1>3 DEF Opened
  <2>2. Transfer'
    BY <1>1, <2>1 DEF HInv, Transfer, Reading, Same, Whole, Since, Node, Etag
  <2> QED
    BY <1>1, <2>1, <2>2, Continues
<1> QED
  BY <1>2, <1>3

\* The next byte is the next one of what stat() saw, if that is there still.
LEMMA SendByteHInv == BInv /\ HInv /\ BInv' /\ SendByte => HInv'
<1> SUFFICES ASSUME BInv, HInv, BInv', SendByte PROVE HInv'
  OBVIOUS
<1>1. /\ pc = "send" /\ pc' = "send" /\ resp.left > 0 /\ resp.off < Len(file.bytes)
      /\ resp' = [resp EXCEPT !.off = @ + 1, !.left = @ - 1,
                              !.sent = Append(@, file.bytes[resp.off + 1])]
      /\ UNCHANGED <<world, cache, path, st, file>> /\ UNCHANGED <<disk, versions, quiet>>
  BY DEF SendByte, world
<1>2. PICK first \in Nat, count \in Nat : Copied(first, count)
  BY <1>1 DEF BInv, Sending
<1> DEFINE sent == resp.sent
           byte == file.bytes[resp.off + 1]
<1>3. /\ {"status", "sent", "off", "left"} \subseteq DOMAIN resp
      /\ sent \in Seq(Nat) /\ Len(sent) \in Nat /\ resp.off \in Nat /\ resp.left \in Nat
  BY <1>2 DEF Copied
<1>4. byte \in Nat
  <2>1. file.bytes \in Seq(Nat)
    BY DEF BInv, Typed, Nodes
  <2>2. resp.off + 1 \in 1..Len(file.bytes)
    BY <1>1, <1>3, <2>1
  <2> QED
    BY <2>1, <2>2
<1>5. /\ DOMAIN resp' = DOMAIN resp /\ resp'.status = resp.status
      /\ resp'.off = resp.off + 1 /\ resp'.left = resp.left - 1 /\ resp'.sent = Append(sent, byte)
  BY <1>1, <1>3
<1>6. /\ Len(resp'.sent) = Len(sent) + 1
      /\ resp'.sent[Len(sent) + 1] = byte /\ \A i \in 1..Len(sent) : resp'.sent[i] = sent[i]
  BY <1>3, <1>4, <1>5
<1>7. ASSUME resp.status = 200 PROVE Whole'
  <2>1. Whole
    BY <1>1, <1>7 DEF HInv, Transfer, Reading
  <2>2. {"etag", "date"} \subseteq DOMAIN resp /\ resp'.etag = resp.etag /\ resp'.date = resp.date
    BY <1>1, <2>1 DEF Whole
  <2>3. resp'.off = Len(resp'.sent) /\ resp'.off + resp'.left = Len(st'.bytes)
    <3>1. resp.off = Len(sent) /\ resp.off + resp.left = Len(st.bytes)
      BY <2>1 DEF Whole
    <3>2. Len(st'.bytes) = Len(st.bytes)
      BY <1>1
    <3> HIDE DEF sent, byte
    <3> QED
      BY <1>3, <1>5, <1>6, <3>1, <3>2
  <2>4. ASSUME Same', NEW i \in 1..Len(resp'.sent) PROVE resp'.sent[i] = st'.bytes[i]
    <3>1. Same
      BY <1>1, <2>4 DEF Same, Node, Etag
    <3>2. file.bytes = st.bytes /\ st' = st /\ resp.off = Len(sent)
      BY <1>1, <2>1, <3>1 DEF HInv, Transfer, Reading, Whole
    <3>3. CASE i \in 1..Len(sent)
      BY <1>6, <2>1, <3>1, <3>2, <3>3 DEF Whole
    <3>4. CASE i = Len(sent) + 1
      BY <1>6, <3>2, <3>4
    <3> QED
      BY <1>3, <1>6, <3>3, <3>4
  <2>5. Etag(st') = Etag(st) /\ st'.mtime = st.mtime
    BY <1>1
  <2> QED
    BY <1>3, <1>5, <2>1, <2>2, <2>3, <2>4, <2>5 DEF Whole
<1>8. Transfer'
  <2>1. /\ st.kind = "file" /\ path \in DOMAIN disk /\ Since(path, Etag(st), st.mtime)
        /\ Same => st = disk[path] /\ file.bytes = st.bytes /\ file.ino = st.ino
        /\ resp.status # 304
    BY <1>1 DEF HInv, Transfer, Reading
  <2>2. Since(path, Etag(st), st.mtime)' /\ (Same' => Same)
    BY <1>1, <2>1 DEF Since, Same, Node, Etag
  <2> QED
    BY <1>1, <1>5, <1>7, <2>1, <2>2 DEF Transfer
<1> QED
  BY <1>1, <1>8, Continues

LEMMA SendDoneHInv == BInv /\ HInv /\ BInv' /\ SendDone => HInv'
<1> SUFFICES ASSUME BInv, HInv, BInv', SendDone PROVE HInv'
  OBVIOUS
<1>1. /\ pc = "send" /\ pc' = "done" /\ resp' = [resp EXCEPT !.fd = FALSE]
      /\ UNCHANGED <<world, cache, path, st>> /\ UNCHANGED <<disk, versions, quiet>>
  BY DEF SendDone, world
<1>2. PICK first \in Nat, count \in Nat : Copied(first, count)
  BY <1>1 DEF BInv, Sending
<1>3. /\ DOMAIN resp' = DOMAIN resp
      /\ \A f \in {"status", "body", "off", "left", "sent", "etag", "date"} :
           f \in DOMAIN resp => resp'[f] = resp[f]
  BY <1>1
<1>4. resp'.status = resp.status /\ resp'.body = "file"
  BY <1>2, <1>3 DEF Copied
<1>5. /\ st.kind = "file" /\ path \in DOMAIN disk /\ Since(path, Etag(st), st.mtime)
      /\ Same => st = disk[path]
      /\ resp.status # 304 /\ (resp.status = 200 => Whole)
  BY <1>1 DEF HInv, Transfer, Reading
<1>6. Since(path, Etag(st), st.mtime)' /\ (Same' => Same)
  BY <1>1, <1>5 DEF Since, Same, Node, Etag
<1>7. resp.status = 200 => Whole'
  <2>1. SUFFICES ASSUME Whole PROVE Whole'
    BY <1>5
  <2>2. /\ resp'.off = resp.off /\ resp'.left = resp.left /\ resp'.sent = resp.sent
        /\ resp'.etag = resp.etag /\ resp'.date = resp.date
    BY <1>3, <2>1 DEF Whole
  <2>3. Etag(st') = Etag(st) /\ st' = st
    BY <1>1
  <2> QED
    BY <1>3, <1>6, <2>1, <2>2, <2>3 DEF Whole
<1>8. Transfer'
  BY <1>1, <1>4, <1>5, <1>6, <1>7 DEF Transfer
<1>9. resp'.status # 304
  BY <1>1, <1>4 DEF HInv, Transfer, Reading
<1> QED
  BY <1>1, <1>8, <1>9, Continues

LEMMA SameElements ==
  ASSUME NEW s \in Seq(Nat), NEW t \in Seq(Nat), Len(s) = Len(t),
         \A i \in 1..Len(s) : s[i] = t[i]
  PROVE  s = t
OBVIOUS

\* A copy is whole, and has the validators of the version that it is of, or of none.
LEMMA ReceiveHInv == BInv /\ HInv /\ Receive => HInv'
<1> SUFFICES ASSUME BInv, HInv, Receive PROVE HInv'
  OBVIOUS
<1>1. /\ pc = "done" /\ pc' = "idle" /\ UNCHANGED <<disk, changes, versions, quiet>>
  BY DEF Receive, world
<1>2. Inodes' /\ VersionsKnown'
  BY <1>1 DEF HInv, Inodes, VersionsKnown, Version
<1>3. Transfer' /\ NotModifiedIsCurrent'
  BY <1>1 DEF Transfer, Reading, NotModifiedIsCurrent
<1>4. Copy'
  <2>1. CASE cache' = cache
    <3>1. Since(cache.path, cache.etag, cache.date)'
      BY <1>1, <2>1 DEF HInv, Copy, Since
    <3> QED
      BY <1>1, <2>1, <3>1 DEF HInv, Copy, Node
  <2>2. CASE /\ resp.status = 200 /\ resp.body = "file" /\ resp.left = 0
             /\ cache' = [uri |-> request.uri, path |-> path, etag |-> resp.etag,
                          date |-> resp.date, bytes |-> resp.sent]
    <3>1. /\ Whole /\ path \in DOMAIN disk /\ Since(path, Etag(st), st.mtime)
          /\ Same => st = disk[path]
      BY <1>1, <2>2 DEF HInv, Transfer, Reading
    <3>2. /\ cache'.path = path /\ cache'.etag = Etag(st) /\ cache'.date = st.mtime
          /\ cache'.bytes = resp.sent
      BY <2>2, <3>1 DEF Whole
    <3>3. /\ Etag(st) \in [ino : Nat, size : Nat, mtime : Nat] /\ st.mtime \in Nat
          /\ st.bytes \in Seq(Nat)
      BY EtagFacts DEF BInv, Typed, Nodes
    <3>4. Since(cache.path, cache.etag, cache.date)'
      BY <1>1, <3>1, <3>2 DEF Since
    <3>5. ASSUME "etag" \notin quiet, Etag(disk[path]) = Etag(st) PROVE resp.sent = disk[path].bytes
      <4>1. Same
        BY <3>1, <3>5 DEF Same, Node
      <4>2. resp.sent \in Seq(Nat) /\ Len(resp.sent) = Len(st.bytes)
        <5>1. \E first, count \in Nat : Copied(first, count)
          BY <1>1, <2>2 DEF BInv, SentAll
        <5>2. resp.sent \in Seq(Nat) /\ resp.off \in Nat
          BY <5>1 DEF Copied
        <5> QED
          BY <2>2, <5>2, <3>1 DEF Whole
      <4>3. \A i \in 1..Len(resp.sent) : resp.sent[i] = st.bytes[i]
        BY <3>1, <4>1 DEF Whole
      <4>4. st = disk[path]
        BY <3>1, <4>1
      <4>5. resp.sent = st.bytes
        BY <3>3, <4>2, <4>3, SameElements
      <4> QED
        BY <4>4, <4>5
    <3> QED
      BY <1>1, <3>1, <3>2, <3>3, <3>4, <3>5 DEF Copy, Node
  <2> QED
    BY <2>1, <2>2 DEF Receive
<1> QED
  BY <1>2, <1>3, <1>4 DEF HInv

LEMMA InitHInv == Init => HInv
<1> SUFFICES ASSUME Init PROVE HInv
  OBVIOUS
<1>1. Inodes
  <2>1. disk \in Disks /\ changes = 0
    BY DEF Init
  <2> QED
    BY <2>1, DisksAssumption DEF Inodes
<1>2. VersionsKnown
  BY DEF Init, VersionsKnown
<1>3. Transfer /\ NotModifiedIsCurrent
  BY DEF Init, Transfer, Reading, NotModifiedIsCurrent
<1>4. Copy
  <2>1. cache = NoCopy /\ <<>> \notin DOMAIN disk /\ <<>> \notin Mutable
    BY <1>1, DisksAssumption DEF Init, Inodes
  <2> QED
    BY <2>1 DEF Copy, NoCopy, NoEtag, Since
<1> QED
  BY <1>1, <1>2, <1>3, <1>4 DEF HInv

LEMMA NextHInv == BInv /\ HInv /\ [Next]_vars => HInv'
<1> SUFFICES ASSUME BInv, HInv, [Next]_vars PROVE HInv'
  OBVIOUS
<1>1. BInv'
  BY NextBInv
<1>2. CASE Others
  BY <1>2, OthersHInv
<1>3. CASE \/ \E r \in Requests, a \in BOOLEAN : Arrive(r, a)
           \/ phase_find_config \/ phase_access \/ DispatchContent \/ IsExecutable \/ RunCgi
           \/ serve_directory_index \/ OpenFails
  BY <1>3, OthersElsewhere
<1>4. CASE ServeStatic \/ Open \/ Opened
  BY <1>1, <1>4, ServeHInv, OpenHInv, OpenedHInv
<1>5. CASE write_response
  BY <1>1, <1>5, SendByteHInv, SendDoneHInv DEF write_response
<1>6. CASE Receive
  BY <1>6, ReceiveHInv
<1>7. CASE UNCHANGED vars
  <2>1. UNCHANGED <<disk, changes, versions, quiet, request, pc, path, st, resp, file, cache>>
    BY <1>7 DEF vars, world, context
  <2>2. Since(cache.path, cache.etag, cache.date)'
    BY <2>1 DEF HInv, Copy, Since
  <2>3. Inodes' /\ VersionsKnown' /\ Copy' /\ NotModifiedIsCurrent'
    BY <2>1, <2>2 DEF HInv, Inodes, VersionsKnown, Version, Copy, Node, NotModifiedIsCurrent
  <2>4. Transfer'
    BY <2>1 DEF HInv, Transfer, Reading, Same, Whole, Since, Node, Etag
  <2> QED
    BY <2>3, <2>4 DEF HInv
<1> QED
  BY <1>2, <1>3, <1>4, <1>5, <1>6, <1>7 DEF Next, Server, phase_content, serve_static_file

\* After a 304 the client's copy is the file that stat() saw: no order of the changes, of
\* the system calls and of the requests gives a copy the validators of other bytes, but a
\* change that leaves inode, size and time, or for a date does not make the file younger.
THEOREM NotModifiedHolds == Spec => []NotModifiedIsCurrent
<1>1. HInv => NotModifiedIsCurrent
  BY DEF HInv
<1> QED
  BY InitBInv, NextBInv, InitHInv, NextHInv, <1>1, PTL DEF Spec

(***************************************************************************)
(* Induction over a sequence, and functions that a loop over it computes.    *)
(***************************************************************************)
\* A set with 0, and with the successor of each of its numbers below N, has all
\* numbers up to N: there is no least one that it has not.
LEMMA UpTo ==
  ASSUME NEW N \in Nat, NEW T, 0 \in T, \A n \in 1..N : n - 1 \in T => n \in T
  PROVE  \A n \in 0..N : n \in T
<1>1. SUFFICES ASSUME NEW n \in 0..N, n \notin T PROVE FALSE
  OBVIOUS
<1> DEFINE S == {m \in 0..N : m \notin T}
           R == {r \in Nat \X Nat : r[1] < r[2]}
<1>2. IsWellFoundedOn(R, Nat)
  BY NatLessThanWellFounded DEF OpToRel
<1>3. S \subseteq Nat /\ S # {}
  BY <1>1
<1>4. PICK m \in S : \A k \in S : ~ (<<k, m>> \in R)
  BY <1>2, <1>3, WFMin
<1>5. m \in 1..N /\ m - 1 \in Nat /\ m - 1 \in 0..N
  BY <1>4
<1>6. m - 1 \in T
  <2>1. <<m - 1, m>> \in R
    BY <1>5
  <2>2. m - 1 \notin S
    <3> HIDE DEF S, R
    <3> QED
      BY <1>4, <2>1
  <2> QED
    BY <1>5, <2>2
<1> QED
  BY <1>4, <1>5, <1>6

LEMMA Appended ==
  ASSUME NEW A, NEW s \in Seq(A), NEW x \in A
  PROVE  /\ Append(s, x) \in Seq(A) /\ Len(s) \in Nat
         /\ Len(Append(s, x)) = Len(s) + 1 /\ Append(s, x)[Len(s) + 1] = x
         /\ \A i \in 1..Len(s) : Append(s, x)[i] = s[i]
<1> QED
  BY AppendProperties

\* The first n elements are the first n - 1 and one more.
LEMMA PrefixNext ==
  ASSUME NEW A, NEW s \in Seq(A), NEW n \in 1..Len(s)
  PROVE  /\ SubSeq(s, 1, n - 1) \in Seq(A) /\ s[n] \in A
         /\ SubSeq(s, 1, n) = Append(SubSeq(s, 1, n - 1), s[n])
<1> DEFINE p == SubSeq(s, 1, n - 1)
           q == SubSeq(s, 1, n)
<1>1. s[n] \in A /\ Len(s) \in Nat
  OBVIOUS
<1>2. /\ p \in Seq(A) /\ q \in Seq(A) /\ Len(p) = n - 1 /\ Len(q) = n
      /\ \A i \in 1..(n - 1) : p[i] = s[i]
      /\ \A i \in 1..n : q[i] = s[i]
  BY <1>1
<1> HIDE DEF p, q
<1>3. /\ Append(p, s[n]) \in Seq(A) /\ Len(Append(p, s[n])) = n
      /\ Append(p, s[n])[n] = s[n] /\ \A i \in 1..(n - 1) : Append(p, s[n])[i] = s[i]
  BY <1>1, <1>2, Appended
<1>4. \A i \in 1..n : i = n \/ i \in 1..(n - 1)
  BY <1>1
<1>5. \A i \in 1..n : q[i] = Append(p, s[n])[i]
  BY <1>2, <1>3, <1>4
<1>6. q = Append(p, s[n])
  BY <1>2, <1>3, <1>5, SeqEqual
<1> QED
  BY <1>1, <1>2, <1>6 DEF p, q

\* A set of sequences that has the empty one, and stays it with one element more.
LEMMA SeqInduct ==
  ASSUME NEW A, NEW T, <<>> \in T,
         \A s \in Seq(A), x \in A : s \in T => Append(s, x) \in T
  PROVE  \A s \in Seq(A) : s \in T
<1> SUFFICES ASSUME NEW s \in Seq(A) PROVE s \in T
  OBVIOUS
<1> DEFINE N == Len(s)
           U == {n \in 0..N : SubSeq(s, 1, n) \in T}
<1>1. N \in Nat
  OBVIOUS
<1>2. 0 \in U
  <2>1. SubSeq(s, 1, 0) = <<>>
    BY SubSeqEmpty
  <2>2. SubSeq(s, 1, 0) \in T
    BY <2>1, Zenon
  <2>3. 0 \in 0..N
    BY <1>1
  <2> QED
    BY <2>2, <2>3
<1>3. ASSUME NEW n \in 1..N, n - 1 \in U PROVE n \in U
  <2>1. SubSeq(s, 1, n) \in T
    <3>1. SubSeq(s, 1, n - 1) \in T
      BY <1>3
    <3>2. SubSeq(s, 1, n - 1) \in Seq(A) /\ s[n] \in A
          /\ SubSeq(s, 1, n) = Append(SubSeq(s, 1, n - 1), s[n])
      BY PrefixNext
    <3> QED
      BY <3>1, <3>2
  <2>2. n \in 0..N
    BY <1>1
  <2> QED
    BY <2>1, <2>2
<1>4. N \in U
  <2>1. \A n \in 0..N : n \in U
    <3> HIDE DEF U, N
    <3> QED
      BY <1>1, <1>2, <1>3, UpTo
  <2> QED
    BY <1>1, <2>1
<1>5. SubSeq(s, 1, N) = s
  BY SubSeqFull
<1> QED
  BY <1>4, <1>5

\* f holds what a loop over s has computed after each step.
IsFold(f, s, start, step) ==
  f[0] = start /\ \A n \in 1..Len(s) : f[n] = step[<<f[n - 1], s[n]>>]

LEMMA FoldExists ==
  ASSUME NEW A, NEW S, NEW start \in S, NEW step \in [S \X A -> S], NEW s \in Seq(A)
  PROVE  \E f \in [0..Len(s) -> S] : IsFold(f, s, start, step)
<1> DEFINE Has(t) == \E f \in [0..Len(t) -> S] : IsFold(f, t, start, step)
           T == {t \in Seq(A) : Has(t)}
<1>1. <<>> \in T
  <2> DEFINE f == [n \in 0..0 |-> start]
  <2>1. Len(<<>>) = 0 /\ <<>> \in Seq(A)
    OBVIOUS
  <2>2. f \in [0..0 -> S] /\ f[0] = start
    OBVIOUS
  <2> HIDE DEF f
  <2>3. IsFold(f, <<>>, start, step)
    BY <2>1, <2>2 DEF IsFold
  <2> QED
    BY <2>1, <2>2, <2>3
<1>2. ASSUME NEW t \in Seq(A), NEW x \in A, t \in T PROVE Append(t, x) \in T
  <2> DEFINE M == Len(t)
             q == Append(t, x)
  <2>1. PICK f \in [0..M -> S] : IsFold(f, t, start, step)
    BY <1>2
  <2>2. /\ q \in Seq(A) /\ M \in Nat /\ Len(q) = M + 1 /\ q[M + 1] = x
        /\ \A i \in 1..M : q[i] = t[i]
    BY Appended
  <2> HIDE DEF M, q
  <2> DEFINE g == [n \in 0..(M + 1) |-> IF n = M + 1 THEN step[<<f[M], x>>] ELSE f[n]]
  <2>3. f[M] \in S /\ step[<<f[M], x>>] \in S
    BY <2>1, <2>2
  <2>4. g \in [0..(M + 1) -> S]
    <3>1. \A n \in 0..(M + 1) : n = M + 1 \/ n \in 0..M
      BY <2>2
    <3> QED
      BY <2>1, <2>3, <3>1
  <2>5. g[M + 1] = step[<<f[M], x>>] /\ \A n \in 0..M : g[n] = f[n]
    <3>1. M + 1 \in 0..(M + 1) /\ \A n \in 0..M : n \in 0..(M + 1) /\ n # M + 1
      BY <2>2
    <3> QED
      BY <3>1
  <2> HIDE DEF g
  <2>6. IsFold(g, q, start, step)
    <3>1. 0 \in 0..M /\ f[0] = start
      BY <2>1, <2>2 DEF IsFold
    <3>2. ASSUME NEW n \in 1..(M + 1) PROVE g[n] = step[<<g[n - 1], q[n]>>]
      <4>1. CASE n = M + 1
        <5>1. n - 1 = M /\ M \in 0..M
          BY <2>2, <4>1
        <5> QED
          BY <2>2, <2>5, <4>1, <5>1
      <4>2. CASE n # M + 1
        <5>1. n \in 1..M /\ n \in 0..M /\ n - 1 \in 0..M
          BY <2>2, <4>2
        <5>2. f[n] = step[<<f[n - 1], t[n]>>]
          BY <2>1, <5>1 DEF IsFold, M
        <5> QED
          BY <2>2, <2>5, <5>1, <5>2
      <4> QED
        BY <4>1, <4>2
    <3> QED
      BY <2>2, <2>5, <3>1, <3>2 DEF IsFold
  <2> QED
    BY <2>2, <2>4, <2>6 DEF q
<1> HIDE DEF Has
<1>3. \A t \in Seq(A) : t \in T
  <2> HIDE DEF T
  <2> QED
    BY <1>1, <1>2, SeqInduct
<1> QED
  BY <1>3 DEF Has

\* op[s] is what the loop over s has computed in the end.
Computes(op, A, S, start, step) ==
  \A s \in Seq(A) : \E f \in [0..Len(s) -> S] : IsFold(f, s, start, step) /\ op[s] = f[Len(s)]

Recurs(op, A, S, start, step) ==
  /\ op[<<>>] = start
  /\ \A s \in Seq(A) : op[s] \in S
  /\ \A s \in Seq(A), x \in A : op[Append(s, x)] = step[<<op[s], x>>]

LEMMA FoldLaws ==
  ASSUME NEW A, NEW S, NEW start \in S, NEW step \in [S \X A -> S], NEW op,
         Computes(op, A, S, start, step)
  PROVE  Recurs(op, A, S, start, step)
<1> USE DEF Computes
<1>1. op[<<>>] = start
  <2>1. <<>> \in Seq(A) /\ Len(<<>>) = 0
    OBVIOUS
  <2> QED
    BY <2>1 DEF IsFold
<1>2. ASSUME NEW s \in Seq(A) PROVE op[s] \in S
  <2>1. PICK f \in [0..Len(s) -> S] : op[s] = f[Len(s)]
    OBVIOUS
  <2>2. Len(s) \in 0..Len(s)
    OBVIOUS
  <2> QED
    BY <2>1, <2>2
<1>3. ASSUME NEW s \in Seq(A), NEW x \in A
      PROVE  op[Append(s, x)] = step[<<op[s], x>>]
  <2> DEFINE M == Len(s)
             q == Append(s, x)
  <2>1. PICK f \in [0..M -> S] : IsFold(f, s, start, step) /\ op[s] = f[M]
    OBVIOUS
  <2>2. /\ q \in Seq(A) /\ M \in Nat /\ Len(q) = M + 1 /\ q[M + 1] = x
        /\ \A i \in 1..M : q[i] = s[i]
    BY Appended
  <2> HIDE DEF q
  <2>3. PICK g \in [0..Len(q) -> S] : IsFold(g, q, start, step) /\ op[q] = g[Len(q)]
    BY <2>2
  <2> HIDE DEF M
  <2> DEFINE T == {n \in 0..M : g[n] = f[n]}
  <2>4. 0 \in T
    BY <2>1, <2>2, <2>3 DEF IsFold
  <2>5. ASSUME NEW n \in 1..M, n - 1 \in T PROVE n \in T
    <3>1. n \in 1..(M + 1) /\ n \in 0..M /\ g[n - 1] = f[n - 1] /\ q[n] = s[n]
      BY <2>2, <2>5
    <3>2. g[n] = step[<<g[n - 1], q[n]>>]
      BY <2>2, <2>3, <3>1 DEF IsFold
    <3>3. f[n] = step[<<f[n - 1], s[n]>>]
      BY <2>1 DEF IsFold, M
    <3> QED
      BY <3>1, <3>2, <3>3
  <2>6. g[M] = f[M]
    <3>1. \A n \in 0..M : n \in T
      <4> HIDE DEF T
      <4> QED
        BY <2>2, <2>4, <2>5, UpTo
    <3> QED
      BY <2>2, <3>1
  <2>7. g[M + 1] = step[<<g[M], q[M + 1]>>]
    <3>1. M + 1 \in 1..(M + 1) /\ M + 1 - 1 = M
      BY <2>2
    <3> QED
      BY <2>2, <2>3, <3>1 DEF IsFold
  <2> QED
    BY <2>1, <2>2, <2>3, <2>6, <2>7 DEF q
<1> QED
  BY <1>1, <1>2, <1>3 DEF Recurs

LEMMA OneValue == \A x : (CHOOSE y \in {x} : TRUE) = x
OBVIOUS

LEMMA SlashTyped ==
  ASSUME NEW s \in Strings, NEW t \in Strings
  PROVE  s \o <<"/">> \o t \in Strings
<1>1. <<"/">> \in Seq(Characters)
  BY CharactersAssumption
<1> QED
  BY <1>1 DEF Strings

LEMMA EndSegmentTyped ==
  ASSUME NEW parts \in Seq(Strings), NEW segment \in Strings
  PROVE  EndSegment(parts, segment) \in Seq(Strings)
<1> HIDE DEF Strings
<1>1. Front(parts) \in Seq(Strings)
  BY DEF Front
<1>2. Append(parts, segment) \in Seq(Strings)
  OBVIOUS
<1> QED
  BY <1>1, <1>2 DEF EndSegment, Name

LEMMA CharacterTyped ==
  ASSUME NEW segments \in Seq(Strings) \ {<<>>}, NEW c \in Characters
  PROVE  Character(segments, c) \in Seq(Strings) \ {<<>>}
<1> DEFINE last == segments[Len(segments)]
<1>1. Len(segments) \in 1..Len(segments) /\ Len(segments) \in Nat
  BY EmptySeq
<1>2. last \in Strings
  BY <1>1
<1>3. Append(last, c) \in Strings /\ <<>> \in Strings
  <2> HIDE DEF last
  <2>1. Append(last, c) \in Strings
    BY <1>2 DEF Strings
  <2>2. <<>> \in Strings
    BY DEF Strings
  <2> QED
    BY <2>1, <2>2
<1> HIDE DEF Strings
<1>4. Append(segments, <<>>) \in Seq(Strings) \ {<<>>}
  BY <1>3
<1>5. [segments EXCEPT ![Len(segments)] = Append(last, c)] \in Seq(Strings) \ {<<>>}
  <2>1. /\ [segments EXCEPT ![Len(segments)] = Append(last, c)] \in Seq(Strings)
        /\ Len([segments EXCEPT ![Len(segments)] = Append(last, c)]) = Len(segments)
    <3> DEFINE N == Len(segments)
               e == Append(last, c)
    <3> HIDE DEF e, N
    <3>1. N \in 1..Len(segments) /\ e \in Strings
      BY <1>1, <1>3 DEF e, N
    <3>2. [segments EXCEPT ![N] = e] \in Seq(Strings)
          /\ Len([segments EXCEPT ![N] = e]) = Len(segments)
      BY <3>1, ExceptSeq
    <3> QED
      BY <3>2 DEF e, N
  <2> DEFINE q == [segments EXCEPT ![Len(segments)] = Append(last, c)]
  <2>2. q \in Seq(Strings) /\ Len(q) # 0
    BY <1>1, <2>1
  <2> HIDE DEF q
  <2>3. q # <<>>
    BY <2>2
  <2> QED
    BY <2>2, <2>3 DEF q
<1> QED
  BY <1>4, <1>5 DEF Character

\* Two functions that agree at 0, and stay in agreement up to N.
LEMMA SameLoop ==
  ASSUME NEW N \in Nat, NEW q, NEW f, q[0] = f[0],
         \A n \in 1..N : q[n - 1] = f[n - 1] => q[n] = f[n]
  PROVE  q[N] = f[N]
<1> DEFINE T == {n \in 0..N : q[n] = f[n]}
<1>1. 0 \in T
  OBVIOUS
<1>2. \A n \in 1..N : n - 1 \in T => n \in T
  OBVIOUS
<1>3. \A n \in 0..N : n \in T
  <2> HIDE DEF T
  <2> QED
    BY <1>1, <1>2, UpTo
<1> QED
  BY <1>3

\* The stack that is left of segments, one segment at a time.
LEMMA StackLaws ==
         /\ Stack(<<>>) = <<>>
         /\ \A s \in Seq(Strings) : Stack(s) \in Seq(Strings)
         /\ \A s \in Seq(Strings), x \in Strings :
              Stack(Append(s, x)) = EndSegment(Stack(s), x)
<1> DEFINE A == Strings
           S == Seq(Strings)
           step == [r \in S \X A |-> EndSegment(r[1], r[2])]
           op == [s \in Seq(A) |-> Stack(s)]
<1>1. <<>> \in S
  OBVIOUS
<1>2. step \in [S \X A -> S]
  BY EndSegmentTyped
<1>3. ASSUME NEW s \in Seq(A)
      PROVE  \E f \in [0..Len(s) -> S] : IsFold(f, s, <<>>, step) /\ op[s] = f[Len(s)]
  <2> DEFINE N == Len(s)
             E(g, n) == IF n = 0 THEN <<>> ELSE EndSegment(g[n - 1], s[n])
             q == CHOOSE g : g = [n \in 0..N |-> E(g, n)]
  <2> HIDE DEF step
  <2>1. PICK f \in [0..N -> S] : IsFold(f, s, <<>>, step)
    <3> HIDE DEF A, S
    <3> QED
      BY <1>1, <1>2, FoldExists
  <2>2. N \in Nat /\ \A n \in 1..N : s[n] \in A /\ n - 1 \in 0..N /\ n \in 0..N
    <3> HIDE DEF A
    <3> QED
      OBVIOUS
  <2>3. \A n \in 0..N : f[n] = E(f, n)
    <3>1. ASSUME NEW n \in 1..N PROVE f[n] = E(f, n)
      <4>1. f[n] = step[<<f[n - 1], s[n]>>] /\ f[n - 1] \in S /\ s[n] \in A
        BY <2>1, <2>2 DEF IsFold
      <4>2. step[<<f[n - 1], s[n]>>] = EndSegment(f[n - 1], s[n])
        <5> HIDE DEF A, S
        <5> QED
          BY <4>1 DEF step
      <4>3. n # 0
        OBVIOUS
      <4>4. E(f, n) = EndSegment(f[n - 1], s[n])
        BY <4>3
      <4> QED
        BY <4>1, <4>2, <4>4
    <3>2. \A n \in 0..N : n = 0 \/ n \in 1..N
      BY <2>2
    <3> HIDE DEF N
    <3> QED
      BY <2>1, <3>1, <3>2 DEF IsFold
  <2>4. f = [n \in 0..N |-> E(f, n)]
    <3> HIDE DEF E, N
    <3> QED
      BY <2>1, <2>3
  <2>5. q = [n \in 0..N |-> E(q, n)]
    <3> HIDE DEF E, N
    <3> QED
      BY <2>4
  <2>6. Stack(s) = q[N]
    BY DEF Stack
  <2> HIDE DEF q
  <2>7. \A n \in 0..N : q[n] = E(q, n)
    <3> HIDE DEF E, N
    <3> QED
      BY <2>5
  <2>8. q[0] = f[0]
    <3>1. q[0] = E(q, 0) /\ f[0] = E(f, 0)
      <4>1. 0 \in 0..N
        BY <2>2
      <4> HIDE DEF E, N
      <4> QED
        BY <2>3, <2>7, <4>1
    <3>2. E(q, 0) = <<>> /\ E(f, 0) = <<>>
      OBVIOUS
    <3> QED
      BY <3>1, <3>2
  <2>9. \A n \in 1..N : q[n - 1] = f[n - 1] => q[n] = f[n]
    BY <2>2, <2>3, <2>7
  <2>10. q[N] = f[N]
    <3> HIDE DEF E, N, A, S
    <3> QED
      BY <2>2, <2>8, <2>9, SameLoop
  <2>11. op[s] = Stack(s)
    <3> HIDE DEF A
    <3> QED
      OBVIOUS
  <2> HIDE DEF A, S, E, op
  <2> QED
    BY <2>1, <2>6, <2>10, <2>11
<1> HIDE DEF step
<1>4. /\ op[<<>>] = <<>>
      /\ \A s \in Seq(A) : op[s] \in S
      /\ \A s \in Seq(A), x \in A : op[Append(s, x)] = step[<<op[s], x>>]
  <2> DEFINE start == <<>>
  <2>1. start \in S
    BY <1>1
  <2>2. Computes(op, A, S, start, step)
    BY <1>3 DEF Computes
  <2> HIDE DEF A, S, op, start
  <2>3. Recurs(op, A, S, start, step)
    BY <1>2, <2>1, <2>2, FoldLaws
  <2> QED
    BY <2>3 DEF start, Recurs
<1>5. ASSUME NEW s \in Seq(A), NEW x \in A
      PROVE  Stack(Append(s, x)) = EndSegment(Stack(s), x)
  <2> HIDE DEF A, S
  <2>1. Append(s, x) \in Seq(A)
    OBVIOUS
  <2>2. op[Append(s, x)] = Stack(Append(s, x)) /\ op[s] = Stack(s)
    BY <2>1
  <2>3. step[<<op[s], x>>] = EndSegment(op[s], x)
    <3> HIDE DEF op
    <3> QED
      BY <1>4 DEF step
  <2> HIDE DEF op
  <2> QED
    BY <1>4, <2>2, <2>3
<1>6. <<>> \in Seq(A)
  OBVIOUS
<1> HIDE DEF A, S
<1> QED
  BY <1>4, <1>5, <1>6 DEF A, S

\* Names with slashes before them, one name at a time.
LEMMA JoinedLaws ==
         /\ Joined(<<>>) = <<>>
         /\ \A s \in Seq(Strings) : Joined(s) \in Strings
         /\ \A s \in Seq(Strings), x \in Strings :
              Joined(Append(s, x)) = Joined(s) \o <<"/">> \o x
<1> DEFINE A == Strings
           S == Strings
           step == [r \in S \X A |-> r[1] \o <<"/">> \o r[2]]
           op == [s \in Seq(A) |-> Joined(s)]
<1>1. <<>> \in S
  BY DEF Strings
<1>2. step \in [S \X A -> S]
  <2>1. \A a \in Strings, x \in Strings : a \o <<"/">> \o x \in Strings
    BY SlashTyped
  <2> HIDE DEF Strings
  <2> QED
    BY <2>1
<1>3. ASSUME NEW s \in Seq(A)
      PROVE  \E f \in [0..Len(s) -> S] : IsFold(f, s, <<>>, step) /\ op[s] = f[Len(s)]
  <2> DEFINE N == Len(s)
             E(g, n) == IF n = 0 THEN <<>> ELSE g[n - 1] \o <<"/">> \o s[n]
             q == CHOOSE g : g = [n \in 0..N |-> E(g, n)]
  <2> HIDE DEF step
  <2>1. PICK f \in [0..N -> S] : IsFold(f, s, <<>>, step)
    <3> HIDE DEF A, S
    <3> QED
      BY <1>1, <1>2, FoldExists
  <2>2. N \in Nat /\ \A n \in 1..N : s[n] \in A /\ n - 1 \in 0..N /\ n \in 0..N
    <3> HIDE DEF A
    <3> QED
      OBVIOUS
  <2>3. \A n \in 0..N : f[n] = E(f, n)
    <3>1. ASSUME NEW n \in 1..N PROVE f[n] = E(f, n)
      <4>1. f[n] = step[<<f[n - 1], s[n]>>] /\ f[n - 1] \in S /\ s[n] \in A
        BY <2>1, <2>2 DEF IsFold
      <4>2. step[<<f[n - 1], s[n]>>] = f[n - 1] \o <<"/">> \o s[n]
        <5> HIDE DEF A, S
        <5> QED
          BY <4>1 DEF step
      <4>3. n # 0
        OBVIOUS
      <4>4. E(f, n) = f[n - 1] \o <<"/">> \o s[n]
        BY <4>3
      <4> QED
        BY <4>1, <4>2, <4>4
    <3>2. \A n \in 0..N : n = 0 \/ n \in 1..N
      BY <2>2
    <3> HIDE DEF N
    <3> QED
      BY <2>1, <3>1, <3>2 DEF IsFold
  <2>4. f = [n \in 0..N |-> E(f, n)]
    <3> HIDE DEF E, N
    <3> QED
      BY <2>1, <2>3
  <2>5. q = [n \in 0..N |-> E(q, n)]
    <3> HIDE DEF E, N
    <3> QED
      BY <2>4
  <2>6. Joined(s) = q[N]
    BY DEF Joined
  <2> HIDE DEF q
  <2>7. \A n \in 0..N : q[n] = E(q, n)
    <3> HIDE DEF E, N
    <3> QED
      BY <2>5
  <2>8. q[0] = f[0]
    <3>1. q[0] = E(q, 0) /\ f[0] = E(f, 0)
      <4>1. 0 \in 0..N
        BY <2>2
      <4> HIDE DEF E, N
      <4> QED
        BY <2>3, <2>7, <4>1
    <3>2. E(q, 0) = <<>> /\ E(f, 0) = <<>>
      OBVIOUS
    <3> QED
      BY <3>1, <3>2
  <2>9. \A n \in 1..N : q[n - 1] = f[n - 1] => q[n] = f[n]
    BY <2>2, <2>3, <2>7
  <2>10. q[N] = f[N]
    <3> HIDE DEF E, N, A, S
    <3> QED
      BY <2>2, <2>8, <2>9, SameLoop
  <2>11. op[s] = Joined(s)
    <3> HIDE DEF A
    <3> QED
      OBVIOUS
  <2> HIDE DEF A, S, E, op
  <2> QED
    BY <2>1, <2>6, <2>10, <2>11
<1> HIDE DEF step
<1>4. /\ op[<<>>] = <<>>
      /\ \A s \in Seq(A) : op[s] \in S
      /\ \A s \in Seq(A), x \in A : op[Append(s, x)] = step[<<op[s], x>>]
  <2> DEFINE start == <<>>
  <2>1. start \in S
    BY <1>1
  <2>2. Computes(op, A, S, start, step)
    BY <1>3 DEF Computes
  <2> HIDE DEF A, S, op, start
  <2>3. Recurs(op, A, S, start, step)
    BY <1>2, <2>1, <2>2, FoldLaws
  <2> QED
    BY <2>3 DEF start, Recurs
<1>5. ASSUME NEW s \in Seq(A), NEW x \in A
      PROVE  Joined(Append(s, x)) = Joined(s) \o <<"/">> \o x
  <2> HIDE DEF A, S
  <2>1. Append(s, x) \in Seq(A)
    OBVIOUS
  <2>2. op[Append(s, x)] = Joined(Append(s, x)) /\ op[s] = Joined(s)
    BY <2>1
  <2>3. step[<<op[s], x>>] = op[s] \o <<"/">> \o x
    <3> HIDE DEF op
    <3> QED
      BY <1>4 DEF step
  <2> HIDE DEF op
  <2> QED
    BY <1>4, <2>2, <2>3
<1>6. <<>> \in Seq(A)
  OBVIOUS
<1> HIDE DEF A, S
<1> QED
  BY <1>4, <1>5, <1>6 DEF A, S

\* What lies between the slashes, one character at a time.
LEMMA SegmentsLaws ==
         /\ Segments(<<>>) = << <<>> >>
         /\ \A s \in Seq(Characters) : Segments(s) \in Seq(Strings) \ {<<>>}
         /\ \A s \in Seq(Characters), x \in Characters :
              Segments(Append(s, x)) = Character(Segments(s), x)
<1> DEFINE A == Characters
           S == Seq(Strings) \ {<<>>}
           step == [r \in S \X A |-> Character(r[1], r[2])]
           op == [s \in Seq(A) |-> Segments(s)]
<1>1. << <<>> >> \in S
  BY DEF Strings
<1>2. step \in [S \X A -> S]
  BY CharacterTyped
<1>3. ASSUME NEW s \in Seq(A)
      PROVE  \E f \in [0..Len(s) -> S] : IsFold(f, s, << <<>> >>, step) /\ op[s] = f[Len(s)]
  <2> DEFINE N == Len(s)
             E(g, n) == IF n = 0 THEN << <<>> >>
                       ELSE Once(g[n - 1], LAMBDA segments : Character(segments, s[n]))
             q == CHOOSE g : g = [n \in 0..N |-> E(g, n)]
  <2> HIDE DEF step
  <2>1. PICK f \in [0..N -> S] : IsFold(f, s, << <<>> >>, step)
    <3> HIDE DEF A, S
    <3> QED
      BY <1>1, <1>2, FoldExists
  <2>2. N \in Nat /\ \A n \in 1..N : s[n] \in A /\ n - 1 \in 0..N /\ n \in 0..N
    <3> HIDE DEF A
    <3> QED
      OBVIOUS
  <2>3. \A n \in 0..N : f[n] = E(f, n)
    <3>1. ASSUME NEW n \in 1..N PROVE f[n] = E(f, n)
      <4>1. f[n] = step[<<f[n - 1], s[n]>>] /\ f[n - 1] \in S /\ s[n] \in A
        BY <2>1, <2>2 DEF IsFold
      <4>2. step[<<f[n - 1], s[n]>>] = Character(f[n - 1], s[n])
        <5> HIDE DEF A, S
        <5> QED
          BY <4>1 DEF step
      <4>3. n # 0
        OBVIOUS
      <4>4. E(f, n) = Character(f[n - 1], s[n])
        BY <4>3, OneValue DEF Once
      <4> QED
        BY <4>1, <4>2, <4>4
    <3>2. \A n \in 0..N : n = 0 \/ n \in 1..N
      BY <2>2
    <3> HIDE DEF N
    <3> QED
      BY <2>1, <3>1, <3>2 DEF IsFold
  <2>4. f = [n \in 0..N |-> E(f, n)]
    <3> HIDE DEF E, N
    <3> QED
      BY <2>1, <2>3
  <2>5. q = [n \in 0..N |-> E(q, n)]
    <3> HIDE DEF E, N
    <3> QED
      BY <2>4
  <2>6. Segments(s) = q[N]
    BY DEF Segments
  <2> HIDE DEF q
  <2>7. \A n \in 0..N : q[n] = E(q, n)
    <3> HIDE DEF E, N
    <3> QED
      BY <2>5
  <2>8. q[0] = f[0]
    <3>1. q[0] = E(q, 0) /\ f[0] = E(f, 0)
      <4>1. 0 \in 0..N
        BY <2>2
      <4> HIDE DEF E, N
      <4> QED
        BY <2>3, <2>7, <4>1
    <3>2. E(q, 0) = << <<>> >> /\ E(f, 0) = << <<>> >>
      OBVIOUS
    <3> QED
      BY <3>1, <3>2
  <2>9. \A n \in 1..N : q[n - 1] = f[n - 1] => q[n] = f[n]
    BY <2>2, <2>3, <2>7
  <2>10. q[N] = f[N]
    <3> HIDE DEF E, N, A, S
    <3> QED
      BY <2>2, <2>8, <2>9, SameLoop
  <2>11. op[s] = Segments(s)
    <3> HIDE DEF A
    <3> QED
      OBVIOUS
  <2> HIDE DEF A, S, E, op
  <2> QED
    BY <2>1, <2>6, <2>10, <2>11
<1> HIDE DEF step
<1>4. /\ op[<<>>] = << <<>> >>
      /\ \A s \in Seq(A) : op[s] \in S
      /\ \A s \in Seq(A), x \in A : op[Append(s, x)] = step[<<op[s], x>>]
  <2> DEFINE start == << <<>> >>
  <2>1. start \in S
    BY <1>1
  <2>2. Computes(op, A, S, start, step)
    BY <1>3 DEF Computes
  <2> HIDE DEF A, S, op, start
  <2>3. Recurs(op, A, S, start, step)
    BY <1>2, <2>1, <2>2, FoldLaws
  <2> QED
    BY <2>3 DEF start, Recurs
<1>5. ASSUME NEW s \in Seq(A), NEW x \in A
      PROVE  Segments(Append(s, x)) = Character(Segments(s), x)
  <2> HIDE DEF A, S
  <2>1. Append(s, x) \in Seq(A)
    OBVIOUS
  <2>2. op[Append(s, x)] = Segments(Append(s, x)) /\ op[s] = Segments(s)
    BY <2>1
  <2>3. step[<<op[s], x>>] = Character(op[s], x)
    <3> HIDE DEF op
    <3> QED
      BY <1>4 DEF step
  <2> HIDE DEF op
  <2> QED
    BY <1>4, <2>2, <2>3
<1>6. <<>> \in Seq(A)
  OBVIOUS
<1> HIDE DEF A, S
<1> QED
  BY <1>4, <1>5, <1>6 DEF A, S

(***************************************************************************)
(* Paths and their segments.                                                *)
(***************************************************************************)
\* Texts without a slash, and those of them that are names, or empty.
Slashless == {x \in Strings : \A i \in 1..Len(x) : x[i] # "/"}
Names == {x \in Slashless : Name(x)}
Plain == Names \cup {<<>>}

LEMMA EmptyText ==
  /\ <<>> \in Strings /\ <<>> \in Slashless /\ <<>> \in Plain /\ <<>> \notin Names
  /\ <<>> \in Seq(Strings) /\ <<>> \in Seq(Slashless) /\ <<>> \in Seq(Names)
<1>1. <<>> \in Strings /\ Len(<<>>) = 0
  BY DEF Strings
<1>2. <<>> \in Slashless /\ <<>> \in Plain /\ <<>> \notin Names
  BY <1>1 DEF Slashless, Plain, Names, Name
<1> HIDE DEF Strings, Slashless, Names, Plain
<1>3. <<>> \in Seq(Strings) /\ <<>> \in Seq(Slashless) /\ <<>> \in Seq(Names)
  OBVIOUS
<1> QED
  BY <1>1, <1>2, <1>3

\* An element more at the end of the right half.
LEMMA ConcatAppend ==
  ASSUME NEW A, NEW s \in Seq(A), NEW t \in Seq(A), NEW x \in A
  PROVE  s \o Append(t, x) = Append(s \o t, x) /\ s \o <<x>> = Append(s, x)
<1> DEFINE p == s \o Append(t, x)
           q == Append(s \o t, x)
<1>1. Append(t, x) \in Seq(A) /\ s \o t \in Seq(A) /\ Len(s) \in Nat /\ Len(t) \in Nat
  OBVIOUS
<1>2. p \in Seq(A) /\ q \in Seq(A) /\ Len(p) = Len(s) + Len(t) + 1 /\ Len(q) = Len(p)
  BY <1>1
<1>3. \A i \in 1..Len(p) : p[i] = q[i]
  BY <1>1, <1>2
<1>4. p = q
  <2> HIDE DEF p, q
  <2> QED
    BY <1>2, <1>3, SeqEqual
<1>5. s \o <<x>> = Append(s, x)
  OBVIOUS
<1> QED
  BY <1>4, <1>5

LEMMA CharacterConcat ==
  ASSUME NEW X \in Seq(Strings), NEW Y \in Seq(Strings) \ {<<>>}, NEW c \in Characters
  PROVE  Character(X \o Y, c) = X \o Character(Y, c)
<1> HIDE DEF Strings
<1>1. CASE c = "/"
  <2>1. X \o Append(Y, <<>>) = Append(X \o Y, <<>>)
    BY EmptyText, ConcatAppend
  <2> QED
    BY <1>1, <2>1 DEF Character
<1>2. CASE c # "/"
  <2> DEFINE m == Len(X)
             n == Len(Y)
             last == Append(Y[n], c)
             p == [X \o Y EXCEPT ![m + n] = last]
             q == X \o [Y EXCEPT ![n] = last]
  <2>1. m \in Nat /\ n \in Nat /\ n # 0 /\ n \in 1..n
    BY EmptySeq
  <2>2. X \o Y \in Seq(Strings) /\ Len(X \o Y) = m + n /\ (X \o Y)[m + n] = Y[n]
          /\ m + n \in 1..(m + n)
    BY <2>1
  <2>3. last \in Strings
    <3>1. Y[n] \in Strings
      BY <2>1
    <3> HIDE DEF n
    <3> QED
      BY <3>1 DEF Strings
  <2>4. Character(X \o Y, c) = p /\ Character(Y, c) = [Y EXCEPT ![n] = last]
    BY <1>2, <2>2 DEF Character
  <2> HIDE DEF last, m, n
  <2>5. /\ p \in Seq(Strings) /\ Len(p) = m + n
        /\ \A i \in 1..(m + n) : p[i] = IF i = m + n THEN last ELSE (X \o Y)[i]
    <3> DEFINE W == X \o Y
               k == m + n
    <3>1. W \in Seq(Strings) /\ k = Len(W) /\ k \in 1..Len(W)
      BY <2>2
    <3> HIDE DEF W, k
    <3>2. /\ [W EXCEPT ![k] = last] \in Seq(Strings) /\ Len([W EXCEPT ![k] = last]) = Len(W)
          /\ \A i \in 1..Len(W) : [W EXCEPT ![k] = last][i] = IF i = k THEN last ELSE W[i]
      BY <2>3, <3>1, ExceptSeq
    <3> QED
      BY <3>1, <3>2 DEF W, k, p
  <2> DEFINE Z == [Y EXCEPT ![n] = last]
  <2>6. /\ Z \in Seq(Strings) /\ Len(Z) = n
        /\ \A i \in 1..n : Z[i] = IF i = n THEN last ELSE Y[i]
    BY <2>1, <2>3, ExceptSeq DEF n
  <2> HIDE DEF Z, p
  <2>7. X \o Z \in Seq(Strings) /\ Len(X \o Z) = m + n
    BY <2>6 DEF m
  <2>8. \A i \in 1..(m + n) : p[i] = (X \o Z)[i]
    <3>1. ASSUME NEW i \in 1..(m + n), i <= m PROVE p[i] = (X \o Z)[i]
      <4>1. i # m + n /\ i \in 1..Len(X)
        BY <2>1, <3>1 DEF m
      <4>2. (X \o Y)[i] = X[i] /\ (X \o Z)[i] = X[i]
        BY <2>1, <2>6, <4>1 DEF n
      <4> QED
        BY <2>5, <4>1, <4>2
    <3>2. ASSUME NEW i \in 1..(m + n), ~(i <= m) PROVE p[i] = (X \o Z)[i]
      <4>1. i - m \in 1..n /\ i \in Int /\ (i = m + n <=> i - m = n)
        BY <2>1, <3>2
      <4>2. (X \o Y)[i] = Y[i - m] /\ (X \o Z)[i] = Z[i - m]
        BY <2>1, <2>6, <3>2, <4>1, ConcatProperties DEF m, n
      <4> QED
        BY <2>5, <2>6, <4>1, <4>2
    <3> QED
      BY <3>1, <3>2
  <2>9. p = X \o Z
    BY <2>5, <2>7, <2>8, SeqEqual
  <2> QED
    BY <2>4, <2>9 DEF p, Z
<1> QED
  BY <1>1, <1>2

\* A slash between two texts ends the last segment of the one and begins the first
\* segment of the other.
LEMMA SegmentsConcat ==
  ASSUME NEW a \in Strings, NEW b \in Strings
  PROVE  Segments(a \o <<"/">> \o b) = Segments(a) \o Segments(b)
<1> DEFINE T == {t \in Strings : Segments(a \o <<"/">> \o t) = Segments(a) \o Segments(t)}
           h == a \o <<"/">>
<1>0. "/" \in Characters
  BY CharactersAssumption
<1>1. h \in Strings /\ h = Append(a, "/") /\ h \o <<>> = h
  BY <1>0 DEF Strings
<1>2. <<>> \in T
  <2>1. Segments(h) = Character(Segments(a), "/")
    BY <1>0, <1>1, SegmentsLaws DEF Strings
  <2>2. Character(Segments(a), "/") = Append(Segments(a), <<>>)
    BY DEF Character
  <2>3. Segments(a) \in Seq(Strings) /\ Segments(<<>>) = << <<>> >>
    BY SegmentsLaws DEF Strings
  <2>4. Segments(a) \o << <<>> >> = Append(Segments(a), <<>>)
    <3> HIDE DEF Strings
    <3> QED
      BY <2>3, EmptyText, ConcatAppend
  <2> QED
    BY <1>1, <2>1, <2>2, <2>3, <2>4, EmptyText
<1>3. ASSUME NEW t \in Strings, NEW c \in Characters, t \in T PROVE Append(t, c) \in T
  <2>1. h \o t \in Strings /\ Append(t, c) \in Strings /\ h \o Append(t, c) = Append(h \o t, c)
    <3> HIDE DEF h
    <3> QED
      BY <1>1, ConcatAppend DEF Strings
  <2>2. /\ Segments(Append(h \o t, c)) = Character(Segments(h \o t), c)
        /\ Segments(Append(t, c)) = Character(Segments(t), c)
    <3> HIDE DEF h
    <3> QED
      BY <2>1, SegmentsLaws DEF Strings
  <2>3. Segments(h \o t) = Segments(a) \o Segments(t)
    BY <1>3
  <2>4. Segments(a) \in Seq(Strings) /\ Segments(t) \in Seq(Strings) \ {<<>>}
    BY SegmentsLaws DEF Strings
  <2>5. Character(Segments(a) \o Segments(t), c) = Segments(a) \o Character(Segments(t), c)
    BY <2>4, CharacterConcat
  <2> QED
    BY <2>1, <2>2, <2>3, <2>5
<1>4. \A t \in Strings : t \in T
  <2> HIDE DEF T
  <2> QED
    BY <1>2, <1>3, SeqInduct DEF Strings
<1> QED
  BY <1>4

LEMMA SegmentsSlashless ==
  ASSUME NEW a \in Strings
  PROVE  Segments(a) \in Seq(Slashless) \ {<<>>}
<1> DEFINE T == {t \in Strings : Segments(t) \in Seq(Slashless)}
<1>1. <<>> \in T
  <2>1. << <<>> >> \in Seq(Slashless)
    <3> HIDE DEF Slashless
    <3> QED
      BY EmptyText
  <2> QED
    BY <2>1, EmptyText, SegmentsLaws
<1>2. ASSUME NEW t \in Strings, NEW c \in Characters, t \in T PROVE Append(t, c) \in T
  <2> DEFINE s == Segments(t)
             n == Len(s)
  <2>1. /\ Append(t, c) \in Strings /\ s \in Seq(Slashless) /\ s # <<>>
        /\ Segments(Append(t, c)) = Character(s, c)
    BY <1>2, SegmentsLaws DEF Strings
  <2>2. n \in 1..n
    <3> HIDE DEF Slashless, s
    <3> QED
      BY <2>1, EmptySeq
  <2> HIDE DEF s
  <2>3. CASE c = "/"
    <3>1. Append(s, <<>>) \in Seq(Slashless)
      <4> HIDE DEF Slashless
      <4> QED
        BY <2>1, EmptyText
    <3> QED
      BY <2>1, <2>3, <3>1 DEF Character
  <2>4. CASE c # "/"
    <3> DEFINE x == s[n]
    <3>1. x \in Slashless
      <4> HIDE DEF Slashless
      <4> QED
        BY <2>1, <2>2
    <3> HIDE DEF x
    <3>2. Append(x, c) \in Slashless
      <4>1. x \in Seq(Characters) /\ \A i \in 1..Len(x) : x[i] # "/"
        BY <3>1 DEF Slashless, Strings
      <4>2. /\ Append(x, c) \in Seq(Characters) /\ Len(x) \in Nat
            /\ Len(Append(x, c)) = Len(x) + 1 /\ Append(x, c)[Len(x) + 1] = c
            /\ \A i \in 1..Len(x) : Append(x, c)[i] = x[i]
        BY <4>1, Appended
      <4>3. \A i \in 1..(Len(x) + 1) : i = Len(x) + 1 \/ i \in 1..Len(x)
        BY <4>2
      <4> QED
        BY <2>4, <4>1, <4>2, <4>3 DEF Slashless, Strings
    <3> HIDE DEF Slashless, n
    <3>3. [s EXCEPT ![n] = Append(x, c)] \in Seq(Slashless)
      <4> DEFINE e == Append(x, c)
      <4> HIDE DEF e
      <4>1. n \in 1..Len(s) /\ e \in Slashless
        BY <2>2, <3>2 DEF n, e
      <4>2. [s EXCEPT ![n] = e] \in Seq(Slashless)
        BY <2>1, <4>1, ExceptSeq
      <4> QED
        BY <4>2 DEF e
    <3> QED
      BY <2>1, <2>4, <3>3 DEF Character, x, n
  <2> QED
    BY <2>3, <2>4
<1>3. \A t \in Strings : t \in T
  <2> HIDE DEF T
  <2> QED
    BY <1>1, <1>2, SeqInduct DEF Strings
<1> QED
  BY <1>3, SegmentsLaws DEF Strings

\* A text without a slash is one segment.
LEMMA OneSegment ==
  ASSUME NEW x \in Slashless
  PROVE  Segments(x) = <<x>>
<1> DEFINE T == {t \in Strings : t \in Slashless => Segments(t) = <<t>>}
<1>1. <<>> \in T
  BY EmptyText, SegmentsLaws
<1>2. ASSUME NEW t \in Strings, NEW c \in Characters, t \in T PROVE Append(t, c) \in T
  <2>1. /\ Append(t, c) \in Seq(Characters) /\ Len(t) \in Nat
        /\ Len(Append(t, c)) = Len(t) + 1 /\ Append(t, c)[Len(t) + 1] = c
        /\ \A i \in 1..Len(t) : Append(t, c)[i] = t[i]
    BY Appended DEF Strings
  <2> SUFFICES ASSUME Append(t, c) \in Slashless PROVE Segments(Append(t, c)) = <<Append(t, c)>>
    BY <2>1 DEF Strings
  <2>2. c # "/" /\ t \in Slashless
    <3>1. \A i \in 1..(Len(t) + 1) : Append(t, c)[i] # "/"
      BY <2>1 DEF Slashless
    <3>2. Len(t) + 1 \in 1..(Len(t) + 1) /\ \A i \in 1..Len(t) : i \in 1..(Len(t) + 1)
      BY <2>1
    <3> QED
      BY <2>1, <3>1, <3>2 DEF Slashless
  <2>3. Segments(t) = <<t>>
    BY <1>2, <2>2
  <2>4. Segments(Append(t, c)) = Character(<<t>>, c)
    BY <2>3, SegmentsLaws DEF Strings
  <2>5. Character(<<t>>, c) = [<<t>> EXCEPT ![1] = Append(t, c)]
    BY <2>2 DEF Character
  <2> DEFINE e == Append(t, c)
  <2> HIDE DEF e
  <2>6. [<<t>> EXCEPT ![1] = e] = <<e>>
    OBVIOUS
  <2> QED
    BY <2>4, <2>5, <2>6 DEF e
<1>3. \A t \in Strings : t \in T
  <2> HIDE DEF T
  <2> QED
    BY <1>1, <1>2, SeqInduct DEF Strings
<1> QED
  BY <1>3 DEF Slashless

(***************************************************************************)
(* The stack of normalize_path.                                              *)
(***************************************************************************)
LEMMA EndSegmentIs ==
  ASSUME NEW parts, NEW x
  PROVE  /\ x = <<>> => EndSegment(parts, x) = parts
         /\ Name(x) => EndSegment(parts, x) = Append(parts, x)
         /\ Up(x) => EndSegment(parts, x) = Front(parts)
         /\ ~Up(x) /\ ~Name(x) => EndSegment(parts, x) = parts
<1>1. Up(x) => ~Name(x)
  BY DEF Name
<1>2. x = <<>> => ~Up(x) /\ ~Name(x)
  BY DEF Up, Name
<1> HIDE DEF Up, Name
<1> QED
  BY <1>1, <1>2 DEF EndSegment

LEMMA NamesAre ==
  /\ Names \subseteq Strings /\ Plain \subseteq Strings /\ Slashless \subseteq Strings
  /\ \A x \in Plain : x = <<>> \/ x \in Names
  /\ \A x \in Names : Name(x) /\ x # <<>>
  /\ Seq(Names) \subseteq Seq(Strings) /\ Seq(Plain) \subseteq Seq(Strings)
  /\ Seq(Slashless) \subseteq Seq(Strings) /\ Seq(Names) \subseteq Seq(Plain)
<1>1. Names \subseteq Strings /\ Plain \subseteq Strings /\ Slashless \subseteq Strings
      /\ Names \subseteq Plain /\ \A x \in Plain : x = <<>> \/ x \in Names
  BY EmptyText DEF Names, Plain, Slashless
<1>2. \A x \in Names : Name(x) /\ x # <<>>
  BY EmptyText DEF Names
<1>3. \A S, T : S \subseteq T => Seq(S) \subseteq Seq(T)
  BY SeqMonotonic
<1> HIDE DEF Names, Plain, Slashless, Strings
<1> QED
  BY <1>1, <1>2, <1>3

\* What the stack becomes depends on what it is, not on how it has come about.
LEMMA StackGoesOn ==
  ASSUME NEW a \in Seq(Strings), NEW a2 \in Seq(Strings), Stack(a) = Stack(a2),
         NEW b \in Seq(Strings)
  PROVE  Stack(a \o b) = Stack(a2 \o b)
<1> HIDE DEF Strings
<1> DEFINE T == {t \in Seq(Strings) : Stack(a \o t) = Stack(a2 \o t)}
<1>1. <<>> \in T
  <2>1. a \o <<>> = a /\ a2 \o <<>> = a2
    OBVIOUS
  <2> QED
    BY <2>1, EmptyText
<1>2. ASSUME NEW t \in Seq(Strings), NEW x \in Strings, t \in T PROVE Append(t, x) \in T
  <2>1. /\ a \o Append(t, x) = Append(a \o t, x) /\ a \o t \in Seq(Strings)
        /\ a2 \o Append(t, x) = Append(a2 \o t, x) /\ a2 \o t \in Seq(Strings)
        /\ Append(t, x) \in Seq(Strings)
    <3>1. a \o t \in Seq(Strings) /\ a2 \o t \in Seq(Strings) /\ Append(t, x) \in Seq(Strings)
      OBVIOUS
    <3>2. a \o Append(t, x) = Append(a \o t, x)
      BY ConcatAppend
    <3>3. a2 \o Append(t, x) = Append(a2 \o t, x)
      BY ConcatAppend
    <3> QED
      BY <3>1, <3>2, <3>3
  <2>2. /\ Stack(Append(a \o t, x)) = EndSegment(Stack(a \o t), x)
        /\ Stack(Append(a2 \o t, x)) = EndSegment(Stack(a2 \o t), x)
    BY <2>1, StackLaws
  <2> QED
    BY <1>2, <2>1, <2>2
<1>3. \A t \in Seq(Strings) : t \in T
  <2> HIDE DEF T
  <2> QED
    BY <1>1, <1>2, SeqInduct
<1> QED
  BY <1>3

\* Names and empty segments leave what is there and add the names.
LEMMA StackPlain ==
  ASSUME NEW a \in Seq(Strings), NEW b \in Seq(Plain)
  PROVE  Stack(a \o b) = Stack(a) \o Stack(b) /\ Stack(b) \in Seq(Names)
<1> HIDE DEF Strings
<1> DEFINE T == {t \in Seq(Plain) : Stack(a \o t) = Stack(a) \o Stack(t) /\ Stack(t) \in Seq(Names)}
<1>1. <<>> \in T
  <2>1. Stack(<<>>) = <<>> /\ Stack(a) \in Seq(Strings) /\ <<>> \in Seq(Plain)
    BY StackLaws
  <2>2. a \o <<>> = a /\ Stack(a) \o <<>> = Stack(a)
    BY <2>1
  <2> QED
    BY <2>1, <2>2, EmptyText
<1>2. ASSUME NEW t \in Seq(Plain), NEW x \in Plain, t \in T PROVE Append(t, x) \in T
  <2>1. t \in Seq(Strings) /\ x \in Strings /\ Append(t, x) \in Seq(Plain)
    BY NamesAre
  <2>2. a \o Append(t, x) = Append(a \o t, x) /\ a \o t \in Seq(Strings)
    BY <2>1, ConcatAppend
  <2>3. /\ Stack(Append(a \o t, x)) = EndSegment(Stack(a \o t), x)
        /\ Stack(Append(t, x)) = EndSegment(Stack(t), x)
        /\ Stack(a) \in Seq(Strings) /\ Stack(t) \in Seq(Names)
        /\ Stack(a \o t) = Stack(a) \o Stack(t)
    BY <1>2, <2>1, <2>2, StackLaws
  <2>4. CASE x = <<>>
    <3>1. Stack(Append(a \o t, x)) = Stack(a \o t) /\ Stack(Append(t, x)) = Stack(t)
      BY <2>3, <2>4, EndSegmentIs
    <3> QED
      BY <2>1, <2>2, <2>3, <3>1
  <2>5. CASE x \in Names
    <3>1. /\ Stack(Append(a \o t, x)) = Append(Stack(a \o t), x)
          /\ Stack(Append(t, x)) = Append(Stack(t), x)
      BY <2>3, <2>5, EndSegmentIs, NamesAre
    <3>2. Stack(t) \in Seq(Strings)
      BY <2>3, NamesAre
    <3>3. Stack(a) \o Append(Stack(t), x) = Append(Stack(a) \o Stack(t), x)
      BY <2>1, <2>3, <3>2, ConcatAppend
    <3>4. Append(Stack(t), x) \in Seq(Names)
      BY <2>3, <2>5
    <3> QED
      BY <2>1, <2>2, <2>3, <3>1, <3>3, <3>4
  <2> QED
    BY <2>4, <2>5, NamesAre
<1>3. \A t \in Seq(Plain) : t \in T
  <2> HIDE DEF T
  <2> QED
    BY <1>1, <1>2, SeqInduct
<1> QED
  BY <1>3

LEMMA StackNames ==
  ASSUME NEW b \in Seq(Names)
  PROVE  Stack(b) = b
<1> DEFINE T == {t \in Seq(Names) : Stack(t) = t}
<1>1. <<>> \in T
  BY StackLaws, EmptyText
<1>2. ASSUME NEW t \in Seq(Names), NEW x \in Names, t \in T PROVE Append(t, x) \in T
  <2>1. t \in Seq(Strings) /\ x \in Strings /\ Append(t, x) \in Seq(Names)
    BY NamesAre
  <2>2. Stack(Append(t, x)) = EndSegment(t, x)
    BY <1>2, <2>1, StackLaws
  <2> QED
    BY <2>1, <2>2, EndSegmentIs, NamesAre
<1>3. \A t \in Seq(Names) : t \in T
  <2> HIDE DEF T
  <2> QED
    BY <1>1, <1>2, SeqInduct
<1> QED
  BY <1>3

LEMMA StackTyped ==
  ASSUME NEW b \in Seq(Slashless)
  PROVE  Stack(b) \in Seq(Names)
<1> DEFINE T == {t \in Seq(Slashless) : Stack(t) \in Seq(Names)}
<1>1. <<>> \in T
  BY StackLaws, EmptyText
<1>2. ASSUME NEW t \in Seq(Slashless), NEW x \in Slashless, t \in T PROVE Append(t, x) \in T
  <2>1. t \in Seq(Strings) /\ x \in Strings /\ Append(t, x) \in Seq(Slashless)
    <3> HIDE DEF Slashless, Strings
    <3> QED
      BY NamesAre
  <2>2. Stack(Append(t, x)) = EndSegment(Stack(t), x) /\ Stack(t) \in Seq(Names)
    BY <1>2, <2>1, StackLaws
  <2>3. Name(x) => x \in Names
    BY DEF Names
  <2>4. Front(Stack(t)) \in Seq(Names) /\ (x \in Names => Append(Stack(t), x) \in Seq(Names))
    <3> DEFINE s == Stack(t)
    <3>1. s \in Seq(Names)
      BY <2>2
    <3> HIDE DEF s, Names
    <3>2. Len(s) \in Nat /\ Front(s) = SubSeq(s, 1, Len(s) - 1)
      BY <3>1 DEF Front
    <3>3. Front(s) \in Seq(Names)
      BY <3>1, <3>2
    <3> QED
      BY <3>1, <3>3 DEF s
  <2> QED
    BY <2>1, <2>2, <2>3, <2>4, EndSegmentIs
<1>3. \A t \in Seq(Slashless) : t \in T
  <2> HIDE DEF T
  <2> QED
    BY <1>1, <1>2, SeqInduct
<1> QED
  BY <1>3

LEMMA PartsIs ==
  ASSUME NEW x \in Strings
  PROVE  Parts(x) = Stack(Segments(x)) /\ Parts(x) \in Seq(Names)
<1>1. Parts(x) = CHOOSE y \in {Stack(v) : v \in {Segments(x)}} : TRUE
  BY DEF Parts, Once
<1>2. {Stack(v) : v \in {Segments(x)}} = {Stack(Segments(x))}
  OBVIOUS
<1>3. Parts(x) = Stack(Segments(x))
  BY <1>1, <1>2, OneValue
<1> QED
  BY <1>3, SegmentsSlashless, StackTyped

\* A slash at the end of the one text or at the beginning of the other adds an empty
\* segment, which changes nothing.
LEMMA PartsConcat ==
  ASSUME NEW a \in Strings, NEW a2 \in Strings, NEW b \in Strings, NEW b2 \in Strings,
         a2 = a \/ a = a2 \o <<"/">>, b2 = b \/ b = <<"/">> \o b2
  PROVE  Parts(a \o <<"/">> \o b) = Parts(a2 \o <<"/">> \o b2)
<1>0. <<"/">> \in Strings /\ Segments(<<>>) = << <<>> >> /\ Segments(<<"/">>) = << <<>>, <<>> >>
  <2>1. <<"/">> \in Strings /\ <<>> \o <<"/">> \o <<>> = <<"/">>
    BY CharactersAssumption DEF Strings
  <2>2. Segments(<<>>) = << <<>> >>
    BY SegmentsLaws
  <2>3. Segments(<<"/">>) = << <<>> >> \o << <<>> >>
    BY <2>1, <2>2, SegmentsConcat, EmptyText
  <2> QED
    BY <2>1, <2>2, <2>3
<1>1. \A x \in Strings, y \in Strings :
        /\ x \o <<"/">> \o y \in Strings
        /\ Segments(x) \in Seq(Strings) /\ Segments(x \o <<"/">> \o y) = Segments(x) \o Segments(y)
        /\ Parts(x \o <<"/">> \o y) = Stack(Segments(x) \o Segments(y))
        /\ x \o <<"/">> \o <<>> = x \o <<"/">> /\ <<>> \o <<"/">> \o y = <<"/">> \o y
  <2> SUFFICES ASSUME NEW x \in Strings, NEW y \in Strings
               PROVE /\ x \o <<"/">> \o y \in Strings
                     /\ Segments(x) \in Seq(Strings)
                     /\ Segments(x \o <<"/">> \o y) = Segments(x) \o Segments(y)
                     /\ Parts(x \o <<"/">> \o y) = Stack(Segments(x) \o Segments(y))
                     /\ x \o <<"/">> \o <<>> = x \o <<"/">> /\ <<>> \o <<"/">> \o y = <<"/">> \o y
    OBVIOUS
  <2>1. x \o <<"/">> \o y \in Strings /\ Segments(x) \in Seq(Strings)
    BY SlashTyped, SegmentsLaws DEF Strings
  <2>2. x \o <<"/">> \o <<>> = x \o <<"/">> /\ <<>> \o <<"/">> \o y = <<"/">> \o y
    BY <1>0 DEF Strings
  <2> QED
    BY <2>1, <2>2, SegmentsConcat, PartsIs
<1> DEFINE E == << <<>> >>
<1>2. E \in Seq(Plain) /\ E \in Seq(Strings) /\ Stack(E) = <<>>
  <2>0. Append(<<>>, <<>>) = E
    OBVIOUS
  <2>1. Append(<<>>, <<>>) = E /\ Stack(Append(<<>>, <<>>)) = EndSegment(<<>>, <<>>)
    <3>1. \A s \in Seq(Strings), x \in Strings : Stack(Append(s, x)) = EndSegment(Stack(s), x)
      BY StackLaws
    <3>2. Stack(Append(<<>>, <<>>)) = EndSegment(Stack(<<>>), <<>>)
      <4> HIDE DEF E, Strings
      <4> QED
        BY <3>1, EmptyText
    <3> QED
      BY <2>0, <3>2, StackLaws
  <2>2. E \in Seq(Plain)
    <3> HIDE DEF Plain
    <3> QED
      BY EmptyText
  <2> QED
    BY <2>1, <2>2, EndSegmentIs, StackLaws, NamesAre
<1> HIDE DEF E, Strings
<1>3. ASSUME NEW s \in Seq(Strings) PROVE Stack(s \o E) = Stack(s) /\ s \o E \in Seq(Strings)
  <2>1. Stack(s \o E) = Stack(s) \o <<>> /\ Stack(s) \in Seq(Strings)
    BY <1>2, StackPlain, StackLaws
  <2> QED
    BY <1>2, <2>1
<1>4. Stack(Segments(a)) = Stack(Segments(a2))
  <2>1. CASE a = a2 \o <<"/">>
    <3>1. a = a2 \o <<"/">> \o <<>>
      BY <1>1, <2>1
    <3>2. Segments(a) = Segments(a2) \o E
      <4>1. Segments(a2 \o <<"/">> \o <<>>) = Segments(a2) \o Segments(<<>>)
        BY SegmentsConcat, EmptyText
      <4> QED
        BY <1>0, <3>1, <4>1 DEF E
    <3> QED
      BY <1>1, <1>3, <3>2
  <2> QED
    BY <2>1
<1>5. Stack(Segments(a2) \o Segments(b)) = Stack(Segments(a2) \o Segments(b2))
  <2>1. CASE b = <<"/">> \o b2
    <3>1. b = <<>> \o <<"/">> \o b2
      BY <1>1, <2>1
    <3>2. Segments(b) = E \o Segments(b2)
      <4>1. Segments(<<>> \o <<"/">> \o b2) = Segments(<<>>) \o Segments(b2)
        BY SegmentsConcat, EmptyText
      <4> QED
        BY <1>0, <3>1, <4>1 DEF E
    <3>3. Segments(a2) \in Seq(Strings) /\ Segments(b2) \in Seq(Strings)
      BY <1>1
    <3>4. Segments(a2) \o (E \o Segments(b2)) = (Segments(a2) \o E) \o Segments(b2)
      BY <1>2, <3>3, ConcatAssociative
    <3>5. Stack((Segments(a2) \o E) \o Segments(b2)) = Stack(Segments(a2) \o Segments(b2))
      BY <1>3, <3>3, StackGoesOn
    <3> QED
      BY <3>2, <3>4, <3>5
  <2> QED
    BY <2>1
<1>6. Stack(Segments(a) \o Segments(b)) = Stack(Segments(a2) \o Segments(b))
  BY <1>1, <1>4, StackGoesOn
<1> QED
  BY <1>1, <1>5, <1>6

(***************************************************************************)
(* What normalize_path writes.                                               *)
(***************************************************************************)
LEMMA JoinedIs ==
  ASSUME NEW n \in Seq(Names)
  PROVE  /\ Joined(n) \in Strings
         /\ Segments(Joined(n)) = << <<>> >> \o n
         /\ n # <<>> => /\ Len(Joined(n)) > 1 /\ Joined(n)[1] = "/"
                        /\ Joined(n)[Len(Joined(n))] # "/"
<1> DEFINE Good(t) == /\ Segments(Joined(t)) = << <<>> >> \o t
                      /\ t # <<>> => /\ Len(Joined(t)) > 1 /\ Joined(t)[1] = "/"
                                     /\ Joined(t)[Len(Joined(t))] # "/"
           T == {t \in Seq(Names) : Good(t)}
<1>0. << <<>> >> \in Seq(Strings)
  <2> HIDE DEF Strings
  <2> QED
    BY EmptyText
<1>1. <<>> \in T
  <2>1. Joined(<<>>) = <<>> /\ Segments(<<>>) = << <<>> >>
    BY JoinedLaws, SegmentsLaws
  <2>2. << <<>> >> \o <<>> = << <<>> >>
    OBVIOUS
  <2> QED
    BY <2>1, <2>2, EmptyText
<1>2. ASSUME NEW t \in Seq(Names), NEW x \in Names, t \in T PROVE Append(t, x) \in T
  <2>1. t \in Seq(Strings) /\ x \in Strings /\ x \in Slashless /\ x # <<>>
          /\ Append(t, x) \in Seq(Names)
    <3>1. x \in Slashless
      BY DEF Names
    <3> HIDE DEF Strings
    <3> QED
      BY <3>1, NamesAre
  <2>2. Joined(Append(t, x)) = Joined(t) \o <<"/">> \o x /\ Joined(t) \in Strings
    BY <2>1, JoinedLaws
  <2>3. Segments(Joined(Append(t, x))) = Segments(Joined(t)) \o Segments(x)
    BY <2>1, <2>2, SegmentsConcat
  <2>4. Segments(x) = <<x>> /\ Segments(Joined(t)) = << <<>> >> \o t
    BY <1>2, <2>1, OneSegment
  <2>5. (<< <<>> >> \o t) \o <<x>> = << <<>> >> \o Append(t, x)
    <3> HIDE DEF Strings
    <3>1. << <<>> >> \o Append(t, x) = Append(<< <<>> >> \o t, x)
          /\ << <<>> >> \o t \in Seq(Strings)
      BY <1>0, <2>1, ConcatAppend
    <3> QED
      BY <2>1, <3>1, ConcatAppend
  <2>6. LET j == Joined(Append(t, x))
        IN  Len(j) > 1 /\ j[1] = "/" /\ j[Len(j)] # "/"
    <3> DEFINE k == Joined(t)
               m == Len(k)
               e == Len(x)
               h == k \o <<"/">>
               j == h \o x
    <3>1. k \in Seq(Characters) /\ x \in Seq(Characters) /\ m \in Nat /\ e \in Nat /\ e # 0
      BY <2>1, <2>2, EmptySeq DEF Strings
    <3>2. x[e] # "/"
      BY <2>1, <3>1 DEF Slashless
    <3>3. t = <<>> \/ (m > 1 /\ k[1] = "/")
      BY <1>2
    <3>4. t = <<>> => m = 0
      BY JoinedLaws
    <3>5. "/" \in Characters
      BY CharactersAssumption
    <3> HIDE DEF k
    <3>6. h \in Seq(Characters) /\ Len(h) = m + 1 /\ h[m + 1] = "/" /\ (m > 1 => h[1] = k[1])
      BY <3>1, <3>5
    <3> HIDE DEF h
    <3>7. Len(j) = m + 1 + e /\ j[1] = h[1] /\ j[m + 1 + e] = x[e]
      <4>1. /\ Len(j) = Len(h) + e
            /\ \A i \in 1..(Len(h) + e) : j[i] = IF i <= Len(h) THEN h[i] ELSE x[i - Len(h)]
        BY <3>1, <3>6, ConcatProperties
      <4> HIDE DEF j, e, m
      <4>2. /\ 1 \in 1..(Len(h) + e) /\ 1 <= Len(h)
            /\ m + 1 + e \in 1..(Len(h) + e) /\ ~(m + 1 + e <= Len(h)) /\ m + 1 + e - Len(h) = e
        BY <3>1, <3>6
      <4>3. j[m + 1 + e] = x[e]
        <5> DEFINE i == m + 1 + e
        <5> HIDE DEF i
        <5>1. i \in 1..(Len(h) + e) /\ ~(i <= Len(h)) /\ i - Len(h) = e
          BY <3>1, <3>6, <4>2 DEF i
        <5>2. j[i] = x[e]
          BY <4>1, <5>1
        <5> QED
          BY <5>2 DEF i
      <4> QED
        BY <3>6, <4>1, <4>2, <4>3
    <3> HIDE DEF j, e, m
    <3>8. Len(j) > 1 /\ j[1] = "/" /\ j[Len(j)] # "/"
      BY <3>1, <3>2, <3>3, <3>4, <3>6, <3>7
    <3> QED
      BY <2>2, <3>8 DEF j, h, k
  <2> QED
    BY <2>1, <2>3, <2>4, <2>5, <2>6
<1>3. \A t \in Seq(Names) : t \in T
  <2> HIDE DEF T
  <2> QED
    BY <1>1, <1>2, SeqInduct
<1>4. Joined(n) \in Strings
  BY NamesAre, JoinedLaws
<1> QED
  BY <1>3, <1>4

LEMMA Joins3 ==
  ASSUME NEW p \in Seq(Characters), NEW q \in Seq(Characters), NEW s \in Seq(Characters)
  PROVE  (p \o q) \o s = p \o (q \o s)
BY ConcatAssociative

LEMMA JoinedConcat ==
  ASSUME NEW a \in Seq(Names), NEW b \in Seq(Names)
  PROVE  Joined(a \o b) = Joined(a) \o Joined(b)
<1> HIDE DEF Strings
<1> DEFINE T == {t \in Seq(Names) : Joined(a \o t) = Joined(a) \o Joined(t)}
<1>0. \A n \in Seq(Names) : n \in Seq(Strings) /\ Joined(n) \in Strings
  BY NamesAre, JoinedLaws
<1>1. <<>> \in T
  <2>1. a \o <<>> = a
    OBVIOUS
  <2>2. Joined(a) \o <<>> = Joined(a)
    BY <1>0 DEF Strings
  <2> QED
    BY <2>1, <2>2, JoinedLaws, EmptyText
<1>2. ASSUME NEW t \in Seq(Names), NEW x \in Names, t \in T PROVE Append(t, x) \in T
  <2>1. a \o Append(t, x) = Append(a \o t, x) /\ a \o t \in Seq(Names)
          /\ Append(t, x) \in Seq(Names)
    BY ConcatAppend
  <2>2. x \in Strings /\ a \o t \in Seq(Strings) /\ t \in Seq(Strings)
    BY <1>0, <2>1, NamesAre
  <2>3. /\ Joined(Append(a \o t, x)) = Joined(a \o t) \o <<"/">> \o x
        /\ Joined(Append(t, x)) = Joined(t) \o <<"/">> \o x
    BY <2>2, JoinedLaws
  <2>4. (Joined(a) \o Joined(t)) \o <<"/">> \o x = Joined(a) \o (Joined(t) \o <<"/">> \o x)
    <3> DEFINE p == Joined(a)
               q == Joined(t)
               s == <<"/">>
    <3>1. /\ p \in Seq(Characters) /\ q \in Seq(Characters) /\ x \in Seq(Characters)
          /\ s \in Seq(Characters)
      BY <1>0, <2>2, CharactersAssumption DEF Strings
    <3> HIDE DEF p, q, s
    <3>2. ((p \o q) \o s) \o x = p \o ((q \o s) \o x)
      <4> DEFINE u == q \o s
      <4>1. p \in Seq(Characters)
        BY <3>1
      <4>2. q \in Seq(Characters) /\ s \in Seq(Characters)
        BY <3>1
      <4>3. u \in Seq(Characters) /\ x \in Seq(Characters)
        BY <3>1
      <4>4. (p \o q) \o s = p \o u
        BY <4>1, <4>2, Joins3, Zenon
      <4> HIDE DEF u
      <4>5. (p \o u) \o x = p \o (u \o x)
        BY <4>1, <4>3, Joins3, Zenon
      <4> QED
        BY <4>4, <4>5 DEF u
    <3> QED
      BY <3>2 DEF p, q, s
  <2> QED
    BY <1>2, <2>1, <2>3, <2>4
<1>3. \A t \in Seq(Names) : t \in T
  <2> HIDE DEF T
  <2> QED
    BY <1>1, <1>2, SeqInduct
<1> QED
  BY <1>3

\* Absolute paths are written with a slash before each name, relative ones with none
\* before the first.
LEMMA NormalizeIs ==
  ASSUME NEW x \in Strings, NEW P, P = Parts(x), NEW p, p = normalize_path(x)
  PROVE  /\ p \in Strings /\ p # <<>> /\ P \in Seq(Names)
         /\ P = <<>> => p = <<"/">>
         /\ P # <<>> /\ Starts(x, "/") => p = Joined(P)
         /\ P # <<>> /\ ~Starts(x, "/") => p = Tail(Joined(P))
<1> DEFINE Text(parts) ==
             IF parts = <<>> \/ Starts(x, "/") THEN Written(parts) ELSE Tail(Written(parts))
<1>1. P \in Seq(Names)
  BY PartsIs
<1>2. p = CHOOSE y \in {Text(v) : v \in {P}} : TRUE
  BY DEF normalize_path, Once
<1>3. {Text(v) : v \in {P}} = {Text(P)}
  OBVIOUS
<1>4. p = Text(P)
  BY <1>2, <1>3, OneValue
<1>5. <<"/">> \in Strings /\ <<"/">> # <<>>
  BY CharactersAssumption DEF Strings
<1>6. P # <<>> => Joined(P) \in Strings /\ Len(Joined(P)) > 1
  BY <1>1, JoinedIs
<1>7. P # <<>> => /\ Joined(P) # <<>>
                  /\ Tail(Joined(P)) \in Strings /\ Tail(Joined(P)) # <<>>
  <2> DEFINE j == Joined(P)
  <2> HIDE DEF j
  <2> SUFFICES ASSUME j \in Seq(Characters), Len(j) > 1
               PROVE  j # <<>> /\ Tail(j) \in Seq(Characters) /\ Tail(j) # <<>>
    BY <1>6 DEF Strings, j
  <2>1. j # <<>>
    OBVIOUS
  <2>2. Tail(j) \in Seq(Characters) /\ Len(Tail(j)) = Len(j) - 1
    BY <2>1, HeadTailProperties
  <2>3. Tail(j) # <<>>
    <3> DEFINE q == Tail(j)
    <3>1. q \in Seq(Characters) /\ Len(q) # 0
      BY <2>2
    <3> HIDE DEF q
    <3>2. q # <<>>
      BY <3>1
    <3> QED
      BY <3>2 DEF q
  <2> QED
    BY <2>1, <2>2, <2>3
<1> QED
  BY <1>1, <1>4, <1>5, <1>6, <1>7 DEF Written

\* A normal path has no empty segment but before its first slash, or the two of "/".
LEMMA NormalSegments ==
  ASSUME NEW x \in Strings, NEW P, P = Parts(x), NEW p, p = normalize_path(x)
  PROVE  /\ \/ P = <<>> /\ Segments(p) = << <<>>, <<>> >>
            \/ Segments(p) = << <<>> >> \o P
            \/ Segments(p) = P
         /\ Segments(p) \in Seq(Plain) /\ Parts(p) = P
<1> DEFINE E == << <<>> >>
<1>0. P \in Seq(Names) /\ p \in Strings
  BY NormalizeIs
<1>1. <<"/">> \in Strings /\ Segments(<<>>) = E /\ Segments(<<"/">>) = << <<>>, <<>> >>
  <2>1. <<"/">> \in Strings /\ <<>> \o <<"/">> \o <<>> = <<"/">>
    BY CharactersAssumption DEF Strings
  <2>2. Segments(<<>>) = << <<>> >>
    BY SegmentsLaws
  <2>3. Segments(<<"/">>) = << <<>> >> \o << <<>> >>
    BY <2>1, <2>2, SegmentsConcat, EmptyText
  <2> QED
    BY <2>1, <2>2, <2>3
<1>2. E \in Seq(Plain) /\ << <<>>, <<>> >> \in Seq(Plain) /\ Stack(E) = <<>>
      /\ E \in Seq(Strings) /\ P \in Seq(Plain)
  <2>1. E \in Seq(Plain) /\ << <<>>, <<>> >> \in Seq(Plain)
    <3> HIDE DEF Plain
    <3> QED
      BY EmptyText
  <2>2. Append(<<>>, <<>>) = E
    OBVIOUS
  <2>3. \A s \in Seq(Strings), y \in Strings : Stack(Append(s, y)) = EndSegment(Stack(s), y)
    BY StackLaws
  <2>4. Stack(Append(<<>>, <<>>)) = EndSegment(Stack(<<>>), <<>>)
    <3> HIDE DEF E, Strings
    <3> QED
      BY <2>3, EmptyText
  <2>5. Stack(E) = <<>>
    BY <2>2, <2>4, StackLaws, EndSegmentIs
  <2> QED
    BY <1>0, <2>1, <2>5, NamesAre
<1>3. << <<>>, <<>> >> = E \o E
  OBVIOUS
<1>4. Stack(<< <<>>, <<>> >>) = <<>> /\ Stack(E \o P) = P /\ Stack(P) = P /\ E \o P \in Seq(Plain)
  <2>1. Stack(E \o E) = <<>> \o <<>> /\ Stack(E \o P) = <<>> \o Stack(P) /\ Stack(P) = P
    <3> HIDE DEF E, Strings
    <3>1. \A a \in Seq(Strings), b \in Seq(Plain) : Stack(a \o b) = Stack(a) \o Stack(b)
      BY StackPlain
    <3>2. Stack(E \o E) = Stack(E) \o Stack(E) /\ Stack(E \o P) = Stack(E) \o Stack(P)
      BY <1>2, <3>1
    <3>3. Stack(P) = P
      BY <1>0, StackNames
    <3> QED
      BY <1>2, <3>2, <3>3
  <2>2. <<>> \o <<>> = <<>> /\ <<>> \o P = P
    BY <1>0
  <2>3. E \o P \in Seq(Plain)
    <3> HIDE DEF E, Plain
    <3> QED
      BY <1>2
  <2> QED
    BY <1>3, <2>1, <2>2, <2>3
<1>5. CASE P = <<>>
  <2>1. p = <<"/">>
    BY <1>5, NormalizeIs
  <2> QED
    BY <1>1, <1>2, <1>4, <1>5, <2>1, PartsIs
<1>6. CASE P # <<>> /\ Starts(x, "/")
  <2>1. Segments(p) = E \o P
    BY <1>0, <1>6, NormalizeIs, JoinedIs
  <2> QED
    BY <1>0, <1>4, <2>1, PartsIs
<1>7. CASE P # <<>> /\ ~Starts(x, "/")
  <2>1. p = Tail(Joined(P)) /\ Joined(P) \in Strings /\ Len(Joined(P)) > 1 /\ Joined(P)[1] = "/"
    BY <1>0, <1>7, NormalizeIs, JoinedIs
  <2>2. Joined(P) = <<>> \o <<"/">> \o p
    <3> DEFINE j == Joined(P)
               q == <<"/">> \o Tail(j)
    <3> HIDE DEF j
    <3>1. j \in Seq(Characters) /\ Len(j) > 1 /\ j[1] = "/" /\ p = Tail(j) /\ "/" \in Characters
      BY <2>1, CharactersAssumption DEF Strings, j
    <3>2. /\ Tail(j) \in Seq(Characters) /\ Len(Tail(j)) = Len(j) - 1 /\ Len(j) \in Nat
          /\ \A i \in 1..(Len(j) - 1) : Tail(j)[i] = j[i + 1]
      BY <3>1
    <3>3. q \in Seq(Characters) /\ Len(q) = Len(j) /\ q[1] = "/"
          /\ \A i \in 2..Len(j) : q[i] = Tail(j)[i - 1]
      BY <3>1, <3>2
    <3> HIDE DEF q
    <3>4. \A i \in 1..Len(j) : q[i] = j[i]
      <4>1. ASSUME NEW i \in 2..Len(j) PROVE q[i] = j[i]
        <5>1. i - 1 \in 1..(Len(j) - 1) /\ i - 1 + 1 = i
          BY <3>2
        <5> QED
          BY <3>2, <3>3, <5>1
      <4>2. \A i \in 1..Len(j) : i = 1 \/ i \in 2..Len(j)
        BY <3>2
      <4> QED
        BY <3>1, <3>3, <4>1, <4>2
    <3>5. j = q
      BY <3>1, <3>3, <3>4, SeqEqual
    <3>6. <<>> \o <<"/">> \o p = <<"/">> \o p
      OBVIOUS
    <3> QED
      BY <3>1, <3>5, <3>6 DEF q, j
  <2>3. Segments(Joined(P)) = E \o Segments(p) /\ Segments(Joined(P)) = E \o P
    <3>1. Segments(<<>> \o <<"/">> \o p) = Segments(<<>>) \o Segments(p)
      BY <1>0, SegmentsConcat, EmptyText
    <3>2. Segments(Joined(P)) = E \o P
      BY <1>0, JoinedIs
    <3> QED
      BY <1>1, <2>2, <3>1, <3>2
  <2>4. Segments(p) = P
    <3>1. Segments(p) \in Seq(Strings) /\ P \in Seq(Strings)
      BY <1>0, SegmentsLaws, NamesAre DEF Strings
    <3> HIDE DEF E, Strings
    <3>2. E \in Seq(Strings)
      BY <1>2
    <3> QED
      BY <2>3, <3>1, <3>2, ConcatSimplifications
  <2> QED
    BY <1>0, <1>2, <1>4, <2>4, PartsIs
<1> QED
  BY <1>5, <1>6, <1>7

(***************************************************************************)
(* What the stack holds in the end is what survives.                         *)
(***************************************************************************)
Ups(s, i, j) == Cardinality({k \in i + 1..j : Up(s[k])})
Downs(s, i, j) == Cardinality({k \in i + 1..j : Name(s[k])})

\* An element more is counted or not.
LEMMA CountNext ==
  ASSUME NEW i \in Nat, NEW j \in Nat, i <= j, NEW Q \in SUBSET (i + 1..j + 1)
  PROVE  /\ Cardinality(Q \ {j + 1}) \in Nat
         /\ Cardinality(Q) = Cardinality(Q \ {j + 1}) + (IF j + 1 \in Q THEN 1 ELSE 0)
<1> DEFINE P == Q \ {j + 1}
<1>1. IsFiniteSet(i + 1..j + 1)
  BY FS_Interval
<1>2. IsFiniteSet(P) /\ Cardinality(P) \in Nat
  BY <1>1, FS_Subset, FS_CardinalityType
<1>3. j + 1 \notin P
  OBVIOUS
<1>4. CASE j + 1 \in Q
  <2>1. Q = P \cup {j + 1}
    BY <1>4
  <2>2. Cardinality(P \cup {j + 1}) = Cardinality(P) + 1
    BY <1>2, <1>3, FS_AddElement
  <2> QED
    BY <1>2, <1>4, <2>1, <2>2
<1>5. CASE j + 1 \notin Q
  <2>1. Q = P
    BY <1>5
  <2> QED
    BY <1>2, <1>5, <2>1
<1> QED
  BY <1>4, <1>5

\* What an element more adds to the counts from i on.
CountedOn(s, x, q, n, i) ==
  /\ \A j \in 0..n : Ups(q, i, j) = Ups(s, i, j) /\ Downs(q, i, j) = Downs(s, i, j)
  /\ Ups(s, i, n) \in Nat /\ Downs(s, i, n) \in Nat
  /\ Ups(q, i, n + 1) = Ups(s, i, n) + (IF Up(x) THEN 1 ELSE 0)
  /\ Downs(q, i, n + 1) = Downs(s, i, n) + (IF Name(x) THEN 1 ELSE 0)

LEMMA CountsOf ==
  ASSUME NEW s \in Seq(Strings), NEW x \in Strings, NEW q, q = Append(s, x),
         NEW n, n = Len(s), NEW i \in 0..n
  PROVE  CountedOn(s, x, q, n, i)
<1> HIDE DEF Strings
<1>1. /\ q \in Seq(Strings) /\ n \in Nat /\ Len(q) = n + 1 /\ q[n + 1] = x
      /\ \A k \in 1..n : q[k] = s[k]
  BY Appended
<1>2. ASSUME NEW j \in 0..n PROVE Ups(q, i, j) = Ups(s, i, j) /\ Downs(q, i, j) = Downs(s, i, j)
  <2>1. \A k \in i + 1..j : q[k] = s[k]
    BY <1>1
  <2>2. /\ {k \in i + 1..j : Up(q[k])} = {k \in i + 1..j : Up(s[k])}
        /\ {k \in i + 1..j : Name(q[k])} = {k \in i + 1..j : Name(s[k])}
    <3> HIDE DEF Up, Name
    <3> QED
      BY <2>1
  <2> QED
    BY <2>2, Zenon DEF Ups, Downs
<1> HIDE DEF Up, Name
<1>3. /\ n + 1 \in i + 1..n + 1 /\ i \in Nat /\ i <= n /\ n \in 0..n
      /\ \A k : k \in i + 1..n + 1 /\ k # n + 1 <=> k \in i + 1..n
      /\ \A k \in i + 1..n : q[k] = s[k]
  BY <1>1
<1>4. Ups(s, i, n) \in Nat /\ Ups(q, i, n + 1) = Ups(s, i, n) + (IF Up(x) THEN 1 ELSE 0)
  <2> DEFINE P == {k \in i + 1..n : Up(s[k])}
             Q == {k \in i + 1..n + 1 : Up(q[k])}
  <2>1. P \subseteq i + 1..n /\ Q \subseteq i + 1..n + 1 /\ Q \ {n + 1} = P
    BY <1>3
  <2>2. n + 1 \in Q <=> Up(x)
    BY <1>1, <1>3
  <2>3. Ups(s, i, n) = Cardinality(P) /\ Ups(q, i, n + 1) = Cardinality(Q)
    BY DEF Ups
  <2> HIDE DEF P, Q
  <2>4. /\ Cardinality(P) \in Nat
        /\ Cardinality(Q) = Cardinality(P) + (IF n + 1 \in Q THEN 1 ELSE 0)
    <3>1. n \in Nat /\ i \in Nat /\ i <= n /\ Q \in SUBSET (i + 1..n + 1)
      BY <1>1, <1>3, <2>1
    <3>2. /\ Cardinality(Q \ {n + 1}) \in Nat
          /\ Cardinality(Q) = Cardinality(Q \ {n + 1}) + (IF n + 1 \in Q THEN 1 ELSE 0)
      BY <3>1, CountNext
    <3> QED
      BY <2>1, <3>2
  <2> QED
    BY <2>2, <2>3, <2>4
<1>5. Downs(s, i, n) \in Nat /\ Downs(q, i, n + 1) = Downs(s, i, n) + (IF Name(x) THEN 1 ELSE 0)
  <2> DEFINE P == {k \in i + 1..n : Name(s[k])}
             Q == {k \in i + 1..n + 1 : Name(q[k])}
  <2>1. P \subseteq i + 1..n /\ Q \subseteq i + 1..n + 1 /\ Q \ {n + 1} = P
    BY <1>3
  <2>2. n + 1 \in Q <=> Name(x)
    BY <1>1, <1>3
  <2>3. Downs(s, i, n) = Cardinality(P) /\ Downs(q, i, n + 1) = Cardinality(Q)
    BY DEF Downs
  <2> HIDE DEF P, Q
  <2>4. /\ Cardinality(P) \in Nat
        /\ Cardinality(Q) = Cardinality(P) + (IF n + 1 \in Q THEN 1 ELSE 0)
    <3>1. n \in Nat /\ i \in Nat /\ i <= n /\ Q \in SUBSET (i + 1..n + 1)
      BY <1>1, <1>3, <2>1
    <3>2. /\ Cardinality(Q \ {n + 1}) \in Nat
          /\ Cardinality(Q) = Cardinality(Q \ {n + 1}) + (IF n + 1 \in Q THEN 1 ELSE 0)
      BY <3>1, CountNext
    <3> QED
      BY <2>1, <3>2
  <2> QED
    BY <2>2, <2>3, <2>4
<1> QED
  BY <1>2, <1>4, <1>5 DEF CountedOn

LEMMA SurvivesNext ==
  ASSUME NEW s \in Seq(Strings), NEW x \in Strings, NEW q, q = Append(s, x),
         NEW n, n = Len(s)
  PROVE  /\ \A i \in 1..n : Survives(q, i) <=> /\ Survives(s, i)
                                               /\ Ups(q, i, n + 1) <= Downs(q, i, n + 1)
         /\ Survives(q, n + 1) <=> Name(x)
         /\ Ups(q, n + 1, n + 1) = 0 /\ Downs(q, n + 1, n + 1) = 0
<1> HIDE DEF Strings
<1>1. /\ q \in Seq(Strings) /\ n \in Nat /\ Len(q) = n + 1 /\ q[n + 1] = x
      /\ \A k \in 1..n : q[k] = s[k]
  BY Appended
<1> HIDE DEF Up, Name
<1>2. \A t, i : Survives(t, i) <=> /\ Name(t[i])
                                   /\ \A j \in i + 1..Len(t) : Ups(t, i, j) <= Downs(t, i, j)
  BY DEF Survives, Ups, Downs
<1>3. ASSUME NEW i \in 1..n
      PROVE  Survives(q, i) <=> Survives(s, i) /\ Ups(q, i, n + 1) <= Downs(q, i, n + 1)
  <2>1. \A j \in 0..n : Ups(q, i, j) = Ups(s, i, j) /\ Downs(q, i, j) = Downs(s, i, j)
    <3>1. i \in 0..n
      BY <1>1
    <3>2. CountedOn(s, x, q, n, i)
      BY <3>1, CountsOf
    <3> QED
      BY <3>2 DEF CountedOn
  <2>2. \A j : j \in i + 1..n + 1 <=> j \in i + 1..n \/ j = n + 1
    BY <1>1
  <2>3. \A j \in i + 1..n : j \in 0..n
    BY <1>1
  <2> QED
    BY <1>1, <1>2, <2>1, <2>2, <2>3
<1>4. n + 1 + 1..n + 1 = {}
  BY <1>1
<1>5. Ups(q, n + 1, n + 1) = 0 /\ Downs(q, n + 1, n + 1) = 0
  <2>1. {k \in n + 1 + 1..n + 1 : Up(q[k])} = {} /\ {k \in n + 1 + 1..n + 1 : Name(q[k])} = {}
    BY <1>4
  <2> QED
    BY <2>1, FS_EmptySet DEF Ups, Downs
<1>6. Survives(q, n + 1) <=> Name(x)
  BY <1>1, <1>2, <1>4
<1> QED
  BY <1>3, <1>5, <1>6

\* The stack consists of the segments at the places pl, which are those of the
\* survivors; behind each there are as many names more than ".." as survivors.
Behind(s, pl, m) == Downs(s, pl[m], Len(s)) = Ups(s, pl[m], Len(s)) + (Len(pl) - m)
Placed(s, pl) ==
  /\ Len(pl) = Len(Stack(s))
  /\ \A m \in 1..Len(pl) : pl[m] \in 1..Len(s) /\ Stack(s)[m] = s[pl[m]] /\ Behind(s, pl, m)
  /\ \A m, k \in 1..Len(pl) : m < k => pl[m] < pl[k]
  /\ \A i \in 1..Len(s) : Survives(s, i) => \E m \in 1..Len(pl) : pl[m] = i
  /\ \A m \in 1..Len(pl) : Survives(s, pl[m])

LEMMA PlacedNext ==
  ASSUME NEW s \in Seq(Strings), NEW x \in Strings, NEW q, q = Append(s, x),
         NEW pl \in Seq(Nat), Placed(s, pl)
  PROVE  \E p2 \in Seq(Nat) : Placed(q, p2)
<1> DEFINE n == Len(s)
           L == Len(pl)
<1> HIDE DEF Strings
<1>1. /\ q \in Seq(Strings) /\ n \in Nat /\ Len(q) = n + 1 /\ q[n + 1] = x /\ L \in Nat
      /\ \A k \in 1..n : q[k] = s[k]
  BY Appended
<1>2. Stack(q) = EndSegment(Stack(s), x) /\ Stack(s) \in Seq(Strings)
  BY StackLaws
<1>3. \A i \in 1..n : Survives(q, i) <=> /\ Survives(s, i)
                                         /\ Ups(q, i, n + 1) <= Downs(q, i, n + 1)
  BY SurvivesNext
<1>4. Survives(q, n + 1) <=> Name(x)
  BY SurvivesNext
<1>5. Ups(q, n + 1, n + 1) = 0 /\ Downs(q, n + 1, n + 1) = 0
  BY SurvivesNext
<1>6. \A i \in 1..n :
        /\ Ups(s, i, n) \in Nat /\ Downs(s, i, n) \in Nat
        /\ Ups(q, i, n + 1) = Ups(s, i, n) + (IF Up(x) THEN 1 ELSE 0)
        /\ Downs(q, i, n + 1) = Downs(s, i, n) + (IF Name(x) THEN 1 ELSE 0)
  <2>1. ASSUME NEW i \in 1..n PROVE CountedOn(s, x, q, n, i)
    <3>1. i \in 0..n
      BY <1>1
    <3> QED
      BY <3>1, CountsOf
  <2> QED
    BY <2>1 DEF CountedOn
<1>7. /\ L = Len(Stack(s))
      /\ \A m \in 1..L : /\ pl[m] \in 1..n /\ Stack(s)[m] = s[pl[m]] /\ Survives(s, pl[m])
                         /\ Downs(s, pl[m], n) = Ups(s, pl[m], n) + (L - m)
      /\ \A m, k \in 1..L : m < k => pl[m] < pl[k]
      /\ \A i \in 1..n : Survives(s, i) => \E m \in 1..L : pl[m] = i
  BY DEF Placed, Behind
<1>8. Up(x) => ~Name(x)
  BY DEF Name
<1> HIDE DEF Up, Name, n, L
<1>9. ASSUME NEW p2 \in Seq(Nat),
             Len(p2) = Len(Stack(q)),
             \A m \in 1..Len(p2) :
                p2[m] \in 1..n + 1 /\ Stack(q)[m] = q[p2[m]] /\ Survives(q, p2[m])
                /\ Downs(q, p2[m], n + 1) = Ups(q, p2[m], n + 1) + (Len(p2) - m),
             \A m, k \in 1..Len(p2) : m < k => p2[m] < p2[k],
             \A i \in 1..n + 1 : Survives(q, i) => \E m \in 1..Len(p2) : p2[m] = i
      PROVE  \E p \in Seq(Nat) : Placed(q, p)
  <2>1. Placed(q, p2)
    BY <1>1, <1>9 DEF Placed, Behind
  <2> QED
    BY <2>1
<1>10. CASE Name(x)
  <2> DEFINE p2 == Append(pl, n + 1)
  <2>1. /\ p2 \in Seq(Nat) /\ Len(p2) = L + 1 /\ p2[L + 1] = n + 1
        /\ \A m \in 1..L : p2[m] = pl[m]
    <3>1. n + 1 \in Nat
      BY <1>1
    <3> QED
      BY <3>1, Appended DEF L
  <2>2. /\ Len(Stack(q)) = L + 1 /\ Stack(q)[L + 1] = x
        /\ \A m \in 1..L : Stack(q)[m] = Stack(s)[m]
    <3>1. Stack(q) = Append(Stack(s), x)
      BY <1>2, <1>10, EndSegmentIs
    <3> QED
      BY <1>2, <1>7, <3>1, Appended
  <2> HIDE DEF p2
  <2>3. \A m : m \in 1..L + 1 <=> m \in 1..L \/ m = L + 1
    BY <1>1
  <2>4. ASSUME NEW m \in 1..L
        PROVE  /\ p2[m] \in 1..n + 1 /\ Stack(q)[m] = q[p2[m]] /\ Survives(q, p2[m])
               /\ Downs(q, p2[m], n + 1) = Ups(q, p2[m], n + 1) + (L + 1 - m)
               /\ p2[m] < n + 1
    <3>1. /\ p2[m] = pl[m] /\ pl[m] \in 1..n /\ Stack(s)[m] = s[pl[m]] /\ Survives(s, pl[m])
          /\ Downs(s, pl[m], n) = Ups(s, pl[m], n) + (L - m)
      BY <1>7, <2>1
    <3>2. Downs(q, pl[m], n + 1) = Downs(s, pl[m], n) + 1 /\ Ups(q, pl[m], n + 1) = Ups(s, pl[m], n)
          /\ Downs(s, pl[m], n) \in Nat /\ Ups(s, pl[m], n) \in Nat
      BY <1>6, <1>8, <1>10, <3>1
    <3>3. Downs(q, pl[m], n + 1) = Ups(q, pl[m], n + 1) + (L + 1 - m)
      BY <1>1, <3>1, <3>2
    <3>4. Ups(q, pl[m], n + 1) <= Downs(q, pl[m], n + 1)
      BY <1>1, <3>2, <3>3
    <3>5. Survives(q, pl[m])
      BY <1>3, <3>1, <3>4
    <3>6. pl[m] \in 1..n + 1 /\ pl[m] < n + 1
      BY <1>1, <3>1
    <3>7. Stack(q)[m] = q[p2[m]]
      BY <1>1, <2>2, <3>1
    <3> QED
      BY <3>1, <3>3, <3>5, <3>6, <3>7
  <2>5. /\ p2[L + 1] \in 1..n + 1 /\ Stack(q)[L + 1] = q[p2[L + 1]] /\ Survives(q, p2[L + 1])
        /\ Downs(q, p2[L + 1], n + 1) = Ups(q, p2[L + 1], n + 1) + (L + 1 - (L + 1))
    BY <1>1, <1>4, <1>5, <1>10, <2>1, <2>2
  <2>6. \A m, k \in 1..L + 1 : m < k => p2[m] < p2[k]
    <3> SUFFICES ASSUME NEW m \in 1..L + 1, NEW k \in 1..L + 1, m < k PROVE p2[m] < p2[k]
      OBVIOUS
    <3>1. m \in 1..L
      BY <1>1
    <3> QED
      BY <1>7, <2>1, <2>3, <2>4, <3>1
  <2>7. ASSUME NEW i \in 1..n + 1, Survives(q, i) PROVE \E m \in 1..L + 1 : p2[m] = i
    <3>1. CASE i = n + 1
      BY <1>1, <2>1, <2>3, <3>1
    <3>2. CASE i # n + 1
      <4>1. i \in 1..n
        BY <1>1, <3>2
      <4>2. PICK m \in 1..L : pl[m] = i
        BY <1>3, <1>7, <2>7, <4>1
      <4> QED
        BY <2>1, <2>3, <4>2
    <3> QED
      BY <3>1, <3>2
  <2>8. \A m \in 1..L + 1 :
          /\ p2[m] \in 1..n + 1 /\ Stack(q)[m] = q[p2[m]] /\ Survives(q, p2[m])
          /\ Downs(q, p2[m], n + 1) = Ups(q, p2[m], n + 1) + (L + 1 - m)
    BY <2>3, <2>4, <2>5
  <2>9. Placed(q, p2)
    BY <1>1, <2>1, <2>2, <2>6, <2>7, <2>8 DEF Placed, Behind
  <2> QED
    BY <2>1, <2>9
<1>11. CASE Up(x)
  <2>1. ~Name(x) /\ Stack(q) = Front(Stack(s))
    BY <1>2, <1>8, <1>11, EndSegmentIs
  <2>2. CASE L = 0
    <3>1. Len(Stack(q)) = 0
      BY <1>2, <1>7, <2>1, <2>2 DEF Front
    <3>2. <<>> \in Seq(Nat) /\ Len(<<>>) = 0
      OBVIOUS
    <3>3. \A i \in 1..n + 1 : ~Survives(q, i)
      <4>1. \A i \in 1..n + 1 : i = n + 1 \/ i \in 1..n
        BY <1>1
      <4> QED
        BY <1>3, <1>4, <1>7, <2>1, <2>2, <4>1
    <3>4. \A m : m \notin 1..0
      OBVIOUS
    <3>5. Placed(q, <<>>)
      BY <1>1, <3>1, <3>2, <3>3, <3>4 DEF Placed, Behind
    <3> QED
      BY <3>2, <3>5
  <2>3. CASE L # 0
    <3> DEFINE M == L - 1
               p2 == SubSeq(pl, 1, M)
    <3>0. M \in Nat /\ M + 1 = L /\ \A m : m \in 1..L <=> m \in 1..M \/ m = L
      BY <1>1, <2>3
    <3>1. p2 \in Seq(Nat) /\ Len(p2) = M /\ \A m \in 1..M : p2[m] = pl[m]
      BY <3>0 DEF L
    <3>2. Len(Stack(q)) = M /\ \A m \in 1..M : Stack(q)[m] = Stack(s)[m]
      <4>1. Stack(q) = SubSeq(Stack(s), 1, M)
        BY <1>7, <2>1 DEF Front
      <4> QED
        BY <1>2, <1>7, <3>0, <4>1
    <3> HIDE DEF p2, M
    <3>3. ASSUME NEW m \in 1..L
          PROVE  /\ pl[m] \in 1..n /\ Ups(q, pl[m], n + 1) \in Nat
                 /\ Downs(q, pl[m], n + 1) = Ups(q, pl[m], n + 1) + (M - m)
      <4>1. pl[m] \in 1..n /\ Downs(s, pl[m], n) = Ups(s, pl[m], n) + (L - m)
        BY <1>7
      <4>2. Downs(q, pl[m], n + 1) = Downs(s, pl[m], n) + 0
            /\ Ups(q, pl[m], n + 1) = Ups(s, pl[m], n) + 1
            /\ Downs(s, pl[m], n) \in Nat /\ Ups(s, pl[m], n) \in Nat
        BY <1>6, <1>11, <2>1, <4>1
      <4> QED
        BY <3>0, <4>1, <4>2
    <3>4. ASSUME NEW m \in 1..M
          PROVE  /\ p2[m] \in 1..n + 1 /\ Stack(q)[m] = q[p2[m]] /\ Survives(q, p2[m])
                 /\ Downs(q, p2[m], n + 1) = Ups(q, p2[m], n + 1) + (M - m)
      <4>1. m \in 1..L /\ p2[m] = pl[m] /\ Stack(q)[m] = Stack(s)[m]
        BY <3>0, <3>1, <3>2
      <4>2. pl[m] \in 1..n /\ Stack(s)[m] = s[pl[m]] /\ Survives(s, pl[m])
        BY <1>7, <4>1
      <4>3. /\ Ups(q, pl[m], n + 1) \in Nat
            /\ Downs(q, pl[m], n + 1) = Ups(q, pl[m], n + 1) + (M - m)
        BY <3>3, <4>1
      <4>4. Ups(q, pl[m], n + 1) <= Downs(q, pl[m], n + 1)
        BY <3>0, <4>3
      <4>5. Survives(q, pl[m]) /\ q[pl[m]] = s[pl[m]]
        BY <1>1, <1>3, <4>2, <4>4
      <4>6. pl[m] \in 1..n + 1
        BY <1>1, <4>2
      <4> QED
        BY <4>1, <4>2, <4>3, <4>5, <4>6
    <3>5. \A m, k \in 1..M : m < k => p2[m] < p2[k]
      BY <1>7, <3>0, <3>1
    <3>6. ASSUME NEW i \in 1..n + 1, Survives(q, i) PROVE \E m \in 1..M : p2[m] = i
      <4>1. i \in 1..n
        <5>1. i # n + 1
          BY <1>4, <2>1, <3>6
        <5> QED
          BY <1>1, <5>1
      <4>2. Survives(s, i) /\ Ups(q, i, n + 1) <= Downs(q, i, n + 1)
        BY <1>3, <3>6, <4>1
      <4>3. PICK m \in 1..L : pl[m] = i
        BY <1>7, <4>1, <4>2
      <4>4. m # L
        <5>1. Ups(q, i, n + 1) \in Nat /\ Downs(q, i, n + 1) = Ups(q, i, n + 1) + (M - m)
          BY <3>3, <4>3
        <5> QED
          BY <3>0, <4>2, <5>1
      <4> QED
        BY <3>0, <3>1, <4>3, <4>4
    <3> QED
      BY <1>9, <3>1, <3>2, <3>4, <3>5, <3>6
  <2> QED
    BY <2>2, <2>3
<1>12. CASE ~Up(x) /\ ~Name(x)
  <2>1. Stack(q) = Stack(s)
    BY <1>2, <1>12, EndSegmentIs
  <2>2. ASSUME NEW m \in 1..L
        PROVE  /\ pl[m] \in 1..n + 1 /\ Stack(q)[m] = q[pl[m]] /\ Survives(q, pl[m])
               /\ Downs(q, pl[m], n + 1) = Ups(q, pl[m], n + 1) + (L - m)
    <3>1. /\ pl[m] \in 1..n /\ Stack(s)[m] = s[pl[m]] /\ Survives(s, pl[m])
          /\ Downs(s, pl[m], n) = Ups(s, pl[m], n) + (L - m)
      BY <1>7
    <3>2. Downs(q, pl[m], n + 1) = Downs(s, pl[m], n) + 0
          /\ Ups(q, pl[m], n + 1) = Ups(s, pl[m], n) + 0
          /\ Downs(s, pl[m], n) \in Nat /\ Ups(s, pl[m], n) \in Nat
      BY <1>6, <1>12, <3>1
    <3>3. Ups(q, pl[m], n + 1) <= Downs(q, pl[m], n + 1)
          /\ Downs(q, pl[m], n + 1) = Ups(q, pl[m], n + 1) + (L - m)
      BY <1>1, <3>1, <3>2
    <3>4. Survives(q, pl[m]) /\ q[pl[m]] = s[pl[m]]
      BY <1>1, <1>3, <3>1, <3>3
    <3>5. pl[m] \in 1..n + 1
      BY <1>1, <3>1
    <3> QED
      BY <2>1, <3>1, <3>3, <3>4, <3>5
  <2>3. ASSUME NEW i \in 1..n + 1, Survives(q, i) PROVE \E m \in 1..L : pl[m] = i
    <3>1. i \in 1..n
      <4>1. i # n + 1
        BY <1>4, <1>12, <2>3
      <4> QED
        BY <1>1, <4>1
    <3> QED
      BY <1>3, <1>7, <2>3, <3>1
  <2>4. Len(pl) = L /\ Len(pl) = Len(Stack(q))
    BY <1>7, <2>1 DEF L
  <2> QED
    BY <1>7, <1>9, <2>2, <2>3, <2>4
<1> QED
  BY <1>10, <1>11, <1>12

\* Of increasing places the first m are those up to the m-th.
LEMMA UpToPlace ==
  ASSUME NEW L \in Nat, NEW pl \in [1..L -> Nat], \A m, k \in 1..L : m < k => pl[m] < pl[k],
         NEW m \in 0..L
  PROVE  /\ IsFiniteSet({pl[k] : k \in 1..m}) /\ Cardinality({pl[k] : k \in 1..m}) = m
<1> DEFINE Good(k) == /\ IsFiniteSet({pl[j] : j \in 1..k})
                      /\ Cardinality({pl[j] : j \in 1..k}) = k
           T == {k \in 0..L : Good(k)}
<1>1. 0 \in T
  <2>1. {pl[j] : j \in 1..0} = {}
    OBVIOUS
  <2>2. Good(0)
    BY <2>1, FS_EmptySet
  <2> QED
    BY <2>2
<1>2. ASSUME NEW n \in 1..L, n - 1 \in T PROVE n \in T
  <2> DEFINE P == {pl[j] : j \in 1..n - 1}
  <2>1. {pl[j] : j \in 1..n} = P \cup {pl[n]}
    <3>1. 1..n = (1..n - 1) \cup {n}
      OBVIOUS
    <3> QED
      BY <3>1, Zenon
  <2>2. pl[n] \notin P
    <3>1. \A j \in 1..n - 1 : pl[j] < pl[n] /\ pl[j] \in Nat
      OBVIOUS
    <3> QED
      BY <3>1
  <2>3. IsFiniteSet(P) /\ Cardinality(P) = n - 1
    BY <1>2
  <2> HIDE DEF P
  <2>4. IsFiniteSet(P \cup {pl[n]}) /\ Cardinality(P \cup {pl[n]}) = n
    <3> DEFINE y == pl[n]
    <3> HIDE DEF y
    <3>1. y \notin P
      BY <2>2 DEF y
    <3>2. IsFiniteSet(P \cup {y}) /\ Cardinality(P \cup {y}) = Cardinality(P) + 1
      BY <2>3, <3>1, FS_AddElement
    <3>3. n - 1 + 1 = n
      OBVIOUS
    <3> QED
      BY <2>3, <3>2, <3>3 DEF y
  <2>5. Good(n)
    BY <2>1, <2>4
  <2> QED
    BY <2>5
<1>3. \A k \in 0..L : k \in T
  <2> HIDE DEF T
  <2> QED
    BY <1>1, <1>2, UpTo
<1> QED
  BY <1>3

LEMMA SurvivingIs ==
  ASSUME NEW s \in Seq(Strings), NEW pl \in Seq(Nat), Placed(s, pl)
  PROVE  Surviving(s) = Stack(s)
<1> DEFINE L == Len(pl)
           places == {i \in DOMAIN s : Survives(s, i)}
           Count(i) == Cardinality({j \in places : j <= i})
           Place(n) == CHOOSE i \in places : Count(i) = n
<1> HIDE DEF Strings
<1>1. /\ L \in Nat /\ Len(s) \in Nat /\ DOMAIN s = 1..Len(s) /\ pl \in [1..L -> Nat]
      /\ Stack(s) \in Seq(Strings)
  BY StackLaws
<1>2. /\ L = Len(Stack(s))
      /\ \A m \in 1..L : pl[m] \in 1..Len(s) /\ Stack(s)[m] = s[pl[m]] /\ Survives(s, pl[m])
      /\ \A m, k \in 1..L : m < k => pl[m] < pl[k]
      /\ \A i \in 1..Len(s) : Survives(s, i) => \E m \in 1..L : pl[m] = i
  BY DEF Placed
<1>3. /\ \A i \in places : \E m \in 1..L : pl[m] = i
      /\ \A m \in 1..L : pl[m] \in places
  BY <1>1, <1>2
<1>4. places = {pl[k] : k \in 1..L}
  <2> HIDE DEF places
  <2> QED
    BY <1>3
<1> HIDE DEF L, places
<1>5. Cardinality(places) = L
  <2>1. L \in 0..L
    BY <1>1
  <2>2. \A j, k \in 1..L : j < k => pl[j] < pl[k]
    BY <1>2
  <2>3. L \in Nat /\ pl \in [1..L -> Nat]
    BY <1>1
  <2>4. Cardinality({pl[k] : k \in 1..L}) = L
    BY <2>1, <2>2, <2>3, UpToPlace
  <2> QED
    BY <1>4, <2>4
<1>6. ASSUME NEW m \in 1..L PROVE Count(pl[m]) = m
  <2>1. \A k \in 1..L : pl[k] <= pl[m] <=> k <= m
    <3> SUFFICES ASSUME NEW k \in 1..L PROVE pl[k] <= pl[m] <=> k <= m
      OBVIOUS
    <3>1. k < m \/ k = m \/ m < k
      BY <1>1
    <3>2. pl[k] \in Nat /\ pl[m] \in Nat
      BY <1>1
    <3>3. k < m => pl[k] < pl[m]
      BY <1>2
    <3>4. m < k => pl[m] < pl[k]
      BY <1>2
    <3> QED
      BY <1>1, <3>1, <3>2, <3>3, <3>4
  <2>2. {j \in places : j <= pl[m]} = {pl[k] : k \in 1..m}
    <3>1. \A k \in 1..m : k \in 1..L /\ k <= m
      BY <1>1
    <3>2. \A k \in 1..L : k <= m => k \in 1..m
      BY <1>1
    <3>3. ASSUME NEW j \in places, j <= pl[m] PROVE \E k \in 1..m : j = pl[k]
      BY <1>3, <2>1, <3>2, <3>3
    <3>4. ASSUME NEW k \in 1..m PROVE pl[k] \in places /\ pl[k] <= pl[m]
      BY <1>3, <2>1, <3>1
    <3> QED
      BY <3>3, <3>4
  <2>3. Cardinality({pl[k] : k \in 1..m}) = m
    <3>1. m \in 0..L
      BY <1>1
    <3>2. \A j, k \in 1..L : j < k => pl[j] < pl[k]
      BY <1>2
    <3> HIDE DEF L
    <3> QED
      BY <1>1, <3>1, <3>2, UpToPlace
  <2> QED
    BY <2>2, <2>3
<1>7. ASSUME NEW m \in 1..L PROVE Place(m) = pl[m]
  <2> HIDE DEF Count
  <2>1. pl[m] \in places /\ Count(pl[m]) = m
    BY <1>3, <1>6
  <2>2. \A i \in places : Count(i) = m => i = pl[m]
    BY <1>3, <1>6
  <2> QED
    BY <2>1, <2>2
<1>8. Surviving(s) = [n \in 1..L |-> s[Place(n)]]
  <2>1. Surviving(s) = [n \in 1..Cardinality(places) |-> s[Place(n)]]
    BY DEF Surviving, places
  <2> QED
    BY <1>5, <2>1
<1> HIDE DEF Place
<1>9. Surviving(s) = [n \in 1..L |-> Stack(s)[n]]
  <2>1. \A n \in 1..L : s[Place(n)] = Stack(s)[n]
    BY <1>2, <1>7
  <2> QED
    BY <1>8, <2>1
<1>10. Stack(s) = [n \in 1..L |-> Stack(s)[n]]
  BY <1>1, <1>2
<1> QED
  BY <1>9, <1>10

\* The names that are left at the end of a path are those of the stack.
LEMMA WalkIs ==
  ASSUME NEW x \in Strings
  PROVE  Walk(x) = Parts(x)
<1> DEFINE Good(s) == \E pl \in Seq(Nat) : Placed(s, pl)
           T == {s \in Seq(Strings) : Good(s)}
<1>1. <<>> \in T
  <2>1. <<>> \in Seq(Nat) /\ <<>> \in Seq(Strings) /\ Len(<<>>) = 0
    BY EmptyText
  <2>2. Stack(<<>>) = <<>>
    BY StackLaws
  <2>3. \A i : i \notin 1..0
    OBVIOUS
  <2>4. Placed(<<>>, <<>>)
    BY <2>1, <2>2, <2>3 DEF Placed
  <2> QED
    BY <2>1, <2>4
<1>2. ASSUME NEW s \in Seq(Strings), NEW y \in Strings, s \in T PROVE Append(s, y) \in T
  <2> HIDE DEF Strings
  <2>1. PICK pl \in Seq(Nat) : Placed(s, pl)
    BY <1>2
  <2>2. Good(Append(s, y))
    BY <2>1, PlacedNext
  <2>3. Append(s, y) \in Seq(Strings)
    OBVIOUS
  <2> QED
    BY <2>2, <2>3
<1>3. \A s \in Seq(Strings) : s \in T
  <2> HIDE DEF T, Strings
  <2> QED
    BY <1>1, <1>2, SeqInduct
<1>4. Segments(x) \in Seq(Strings)
  BY SegmentsLaws DEF Strings
<1>5. PICK pl \in Seq(Nat) : Placed(Segments(x), pl)
  BY <1>3, <1>4
<1>6. Surviving(Segments(x)) = Stack(Segments(x))
  BY <1>4, <1>5, SurvivingIs
<1> QED
  BY <1>6, PartsIs DEF Walk

LEMMA PrefixIs ==
  ASSUME NEW A, NEW s \in Seq(A), NEW t \in Seq(A)
  PROVE  IsPrefix(s, t) <=> \E u \in Seq(A) : t = s \o u
<1>1. ASSUME IsPrefix(s, t) PROVE \E u \in Seq(A) : t = s \o u
  <2> DEFINE u == SubSeq(t, Len(s) + 1, Len(t))
  <2>1. Len(s) \in Nat /\ Len(t) \in Nat /\ Len(s) <= Len(t)
    BY <1>1 DEF IsPrefix
  <2>2. SubSeq(s, 1, Len(s)) = s /\ SubSeq(t, 1, Len(s)) = s
    BY <1>1, SubSeqFull DEF IsPrefix
  <2>3. SubSeq(t, 1, Len(s)) \o u = t
    <3>1. 1 \in 1..Len(t) + 1 /\ Len(s) \in 1 - 1..Len(t) /\ Len(t) \in Len(s)..Len(t)
      BY <2>1
    <3>2. SubSeq(t, 1, Len(s)) \o SubSeq(t, Len(s) + 1, Len(t)) = SubSeq(t, 1, Len(t))
      BY <3>1, ConcatAdjacentSubSeq
    <3> QED
      BY <3>2, SubSeqFull
  <2>4. u \in Seq(A)
    BY <2>1
  <2> QED
    BY <2>2, <2>3, <2>4
<1>2. ASSUME NEW u \in Seq(A), t = s \o u PROVE IsPrefix(s, t)
  <2>1. Len(s) \in Nat /\ Len(u) \in Nat /\ Len(t) = Len(s) + Len(u)
        /\ \A i \in 1..Len(s) : t[i] = s[i]
    BY <1>2
  <2>2. SubSeq(t, 1, Len(s)) \in Seq(A) /\ Len(SubSeq(t, 1, Len(s))) = Len(s)
        /\ \A i \in 1..Len(s) : SubSeq(t, 1, Len(s))[i] = t[i]
    BY <2>1
  <2>3. SubSeq(t, 1, Len(s)) = s
    BY <2>1, <2>2, SeqEqual
  <2> QED
    BY <2>1, <2>3, SubSeqFull DEF IsPrefix
<1> QED
  BY <1>1, <1>2

\* trim_trailing_slash, and trim_leading_slash, take one slash away if there is one.
LEMMA Trimmed ==
  ASSUME NEW s \in Strings
  PROVE  /\ trim_trailing_slash(s) \in Strings
         /\ trim_trailing_slash(s) = s \/ s = trim_trailing_slash(s) \o <<"/">>
         /\ s # <<>> /\ s[Len(s)] # "/" => trim_trailing_slash(s) = s
         /\ trim_leading_slash(s) \in Strings
         /\ trim_leading_slash(s) = s \/ s = <<"/">> \o trim_leading_slash(s)
<1> USE DEF Strings
<1>0. "/" \in Characters
  BY CharactersAssumption
<1>1. ASSUME Ends(s, "/")
      PROVE /\ trim_trailing_slash(s) \in Strings
            /\ trim_trailing_slash(s) = s \/ s = trim_trailing_slash(s) \o <<"/">>
  <2>1. s # <<>> /\ s[Len(s)] = "/" /\ Len(s) \in Nat /\ Len(s) > 0
    BY <1>1, EmptySeq DEF Ends, Last
  <2>2. trim_trailing_slash(s) = SubSeq(s, 1, Len(s) - 1)
    BY <1>1 DEF trim_trailing_slash, Front
  <2>3. Len(s) \in 1..Len(s)
    BY <2>1
  <2>4. s = SubSeq(s, 1, Len(s) - 1) \o <<"/">> /\ SubSeq(s, 1, Len(s) - 1) \in Seq(Characters)
    <3>1. SubSeq(s, 1, Len(s)) = Append(SubSeq(s, 1, Len(s) - 1), s[Len(s)])
          /\ SubSeq(s, 1, Len(s) - 1) \in Seq(Characters)
      BY <2>3, PrefixNext
    <3>2. Append(SubSeq(s, 1, Len(s) - 1), "/") = SubSeq(s, 1, Len(s) - 1) \o <<"/">>
      BY <1>0, <3>1, ConcatAppend
    <3> QED
      BY <2>1, <3>1, <3>2, SubSeqFull
  <2> QED
    BY <2>2, <2>4
<1>2. ASSUME ~Ends(s, "/")
      PROVE /\ trim_trailing_slash(s) \in Strings
            /\ trim_trailing_slash(s) = s \/ s = trim_trailing_slash(s) \o <<"/">>
  <2>1. trim_trailing_slash(s) = s
    BY <1>2 DEF trim_trailing_slash
  <2> QED
    BY <2>1
<1>3. trim_leading_slash(s) \in Strings
      /\ (trim_leading_slash(s) = s \/ s = <<"/">> \o trim_leading_slash(s))
  <2>1. CASE Starts(s, "/")
    <3>1. s # <<>> /\ Head(s) = "/" /\ trim_leading_slash(s) = Tail(s)
      BY <2>1 DEF Starts, trim_leading_slash
    <3>2. s = <<Head(s)>> \o Tail(s) /\ Tail(s) \in Seq(Characters)
      BY <3>1, HeadTailProperties
    <3> QED
      BY <3>1, <3>2
  <2>2. CASE ~Starts(s, "/")
    BY <2>2 DEF trim_leading_slash
  <2> QED
    BY <2>1, <2>2
<1>4. /\ trim_trailing_slash(s) \in Strings
      /\ trim_trailing_slash(s) = s \/ s = trim_trailing_slash(s) \o <<"/">>
  BY <1>1, <1>2, <1>0
<1>5. s # <<>> /\ s[Len(s)] # "/" => trim_trailing_slash(s) = s
  BY DEF trim_trailing_slash, Ends, Last
<1> QED
  BY <1>3, <1>4, <1>5

\* A normal path but "/" does not end in a slash.
LEMMA NormalTrimmed ==
  ASSUME NEW x \in Strings, NEW P, P = Parts(x), NEW p, p = normalize_path(x)
  PROVE  IF P = <<>> THEN p = <<"/">> /\ trim_trailing_slash(p) = <<>>
         ELSE trim_trailing_slash(p) = p
<1>1. CASE P = <<>>
  <2>1. p = <<"/">>
    BY <1>1, NormalizeIs
  <2>2. trim_trailing_slash(<<"/">>) = <<>>
    <3>1. Ends(<<"/">>, "/")
      BY DEF Ends, Last
    <3> QED
      BY <3>1 DEF trim_trailing_slash, Front
  <2> QED
    BY <1>1, <2>1, <2>2
<1>2. CASE P # <<>>
  <2> DEFINE j == Joined(P)
  <2>1. P \in Seq(Names) /\ p \in Strings /\ p # <<>> /\ (p = j \/ p = Tail(j))
    BY <1>2, NormalizeIs
  <2>2. j \in Strings /\ Len(j) > 1 /\ j[Len(j)] # "/"
    BY <1>2, <2>1, JoinedIs
  <2> HIDE DEF j
  <2>3. p[Len(p)] # "/"
    <3>1. CASE p = Tail(j)
      <4>1. j \in Seq(Characters) /\ Len(j) \in Nat /\ Len(p) = Len(j) - 1
            /\ \A i \in 1..Len(j) - 1 : p[i] = j[i + 1]
        BY <2>2, <3>1 DEF Strings
      <4>2. Len(p) \in 1..Len(j) - 1 /\ Len(p) + 1 = Len(j)
        BY <2>2, <4>1
      <4> QED
        BY <2>2, <4>1, <4>2
    <3> QED
      BY <2>1, <2>2, <3>1
  <2> QED
    BY <1>2, <2>1, <2>3, Trimmed
<1> QED
  BY <1>1, <1>2

\* What path_under_root() lets through lies below the root.
LEMMA UnderIsBelow ==
  ASSUME NEW c \in Strings, NEW r \in Strings, path_under_root(c, r)
  PROVE  IsPrefix(Parts(r), Parts(c))
<1> DEFINE R == Parts(r)
           C == Parts(c)
           normal == normalize_path(c)
           n == normalize_path(r)
           root == trim_trailing_slash(n)
<1>1. /\ R \in Seq(Names) /\ C \in Seq(Names) /\ normal \in Strings /\ n \in Strings
      /\ Parts(normal) = C /\ Parts(n) = R /\ Segments(normal) \in Seq(Plain)
  BY NormalizeIs, NormalSegments
<1>2. normal = root \/ IsPrefix(root \o <<"/">>, normal)
  BY DEF path_under_root
<1>3. R = <<>> \/ root = n
  BY NormalTrimmed
<1>4. /\ Parts(normal) = Stack(Segments(normal)) /\ Parts(n) = Stack(Segments(n))
      /\ Segments(n) \in Seq(Strings)
  BY <1>1, PartsIs, SegmentsLaws DEF Strings
<1>5. \A u \in Seq(Names) : C = R \o u => IsPrefix(R, C)
  BY <1>1, PrefixIs
<1>6. R \o <<>> = R /\ <<>> \o C = C /\ <<>> \in Seq(Names)
  BY <1>1, EmptyText
<1> HIDE DEF R, C, normal, n, root
<1>7. ASSUME R = <<>> PROVE IsPrefix(R, C)
  BY <1>1, <1>5, <1>6, <1>7
<1>8. ASSUME root = n /\ normal = root PROVE IsPrefix(R, C)
  BY <1>1, <1>5, <1>6, <1>8
<1>9. ASSUME root = n /\ IsPrefix(root \o <<"/">>, normal) PROVE IsPrefix(R, C)
  <2>1. <<"/">> \in Strings /\ n \o <<"/">> \in Strings
    BY <1>1, CharactersAssumption DEF Strings
  <2>2. PICK u \in Strings : normal = n \o <<"/">> \o u
    BY <1>1, <1>9, <2>1, PrefixIs DEF Strings
  <2>3. Segments(normal) = Segments(n) \o Segments(u)
    BY <1>1, <2>2, SegmentsConcat
  <2>4. Segments(u) \in Seq(Plain)
    <3> DEFINE a == Segments(n)
               b == Segments(u)
    <3>1. a \in Seq(Strings) /\ b \in Seq(Strings) /\ a \o b \in Seq(Plain)
      BY <1>1, <1>4, <2>3, SegmentsLaws DEF Strings
    <3> HIDE DEF a, b, Strings, Plain
    <3>2. Len(a) \in Nat /\ Len(b) \in Nat /\ Len(a \o b) = Len(a) + Len(b)
          /\ \A i \in 1..Len(b) : (a \o b)[Len(a) + i] = b[i]
      BY <3>1
    <3>3. \A i \in 1..Len(b) : b[i] \in Plain
      <4>1. \A i \in 1..Len(b) : Len(a) + i \in 1..Len(a \o b)
        BY <3>2
      <4>2. \A i \in 1..Len(a \o b) : (a \o b)[i] \in Plain
        BY <3>1
      <4> QED
        BY <3>2, <4>1, <4>2
    <3> QED
      BY <3>1, <3>3 DEF b
  <2>5. Stack(Segments(normal)) = R \o Stack(Segments(u)) /\ Stack(Segments(u)) \in Seq(Names)
    BY <1>1, <1>4, <2>3, <2>4, StackPlain
  <2> QED
    BY <1>1, <1>4, <1>5, <2>5
<1> QED
  BY <1>2, <1>3, <1>7, <1>8, <1>9 DEF R, C

\* An absolute path below an absolute root is let through.
LEMMA BelowIsUnder ==
  ASSUME NEW c \in Strings, NEW r \in Strings, Starts(c, "/"), Starts(r, "/"),
         IsPrefix(Parts(r), Parts(c))
  PROVE  path_under_root(c, r)
<1> DEFINE R == Parts(r)
           C == Parts(c)
           normal == normalize_path(c)
           n == normalize_path(r)
           root == trim_trailing_slash(n)
<1>1. /\ R \in Seq(Names) /\ C \in Seq(Names) /\ normal \in Strings /\ n \in Strings
      /\ R = <<>> => n = <<"/">>
      /\ R # <<>> => n = Joined(R)
      /\ C = <<>> => normal = <<"/">>
      /\ C # <<>> => normal = Joined(C)
  BY NormalizeIs
<1>2. IF R = <<>> THEN root = <<>> ELSE root = n
  BY NormalTrimmed
<1>3. SUFFICES normal = root \/ IsPrefix(root \o <<"/">>, normal)
  BY DEF path_under_root
<1>4. PICK Z \in Seq(Names) : C = R \o Z
  BY <1>1, PrefixIs
<1>5. ASSUME NEW t \in Seq(Names), t # <<>> PROVE \E u \in Strings : Joined(t) = <<"/">> \o u
  <2> DEFINE j == Joined(t)
  <2>1. j \in Seq(Characters) /\ j # <<>> /\ j[1] = "/"
    <3>1. j \in Strings /\ Len(j) > 1 /\ j[1] = "/"
      BY <1>5, JoinedIs
    <3> QED
      BY <3>1 DEF Strings
  <2> HIDE DEF j
  <2>2. j = <<Head(j)>> \o Tail(j) /\ Tail(j) \in Seq(Characters) /\ Head(j) = j[1]
    BY <2>1, HeadTailProperties
  <2> QED
    BY <2>1, <2>2 DEF Strings, j
<1>6. <<"/">> \in Strings /\ <<>> \o <<"/">> = <<"/">> /\ <<>> \in Strings
      /\ <<"/">> \o <<>> = <<"/">>
  BY CharactersAssumption DEF Strings
<1> HIDE DEF R, C, normal, n, root
<1>7. CASE R = <<>>
  <2>1. root \o <<"/">> = <<"/">>
    BY <1>2, <1>6, <1>7
  <2>2. \E u \in Strings : normal = <<"/">> \o u
    BY <1>1, <1>5, <1>6
  <2>3. IsPrefix(<<"/">>, normal)
    BY <1>1, <1>6, <2>2, PrefixIs DEF Strings
  <2> QED
    BY <2>1, <2>3
<1>8. CASE R # <<>>
  <2>1. root = Joined(R) /\ root \in Strings
    BY <1>1, <1>2, <1>8
  <2>2. CASE Z = <<>>
    <3>1. C = R
      BY <1>1, <1>4, <2>2
    <3> QED
      BY <1>1, <1>8, <2>1, <3>1
  <2>3. CASE Z # <<>>
    <3>1. C # <<>>
      BY <1>1, <1>4, <1>8, ConcatSimplifications
    <3>2. normal = Joined(R) \o Joined(Z)
      BY <1>1, <1>4, <3>1, JoinedConcat
    <3>3. PICK u \in Strings : Joined(Z) = <<"/">> \o u
      BY <1>5, <2>3
    <3>4. normal = (root \o <<"/">>) \o u /\ root \o <<"/">> \in Strings
      <4>1. root \in Seq(Characters) /\ <<"/">> \in Seq(Characters) /\ u \in Seq(Characters)
        BY <1>6, <2>1, <3>3 DEF Strings
      <4>2. (root \o <<"/">>) \o u = root \o (<<"/">> \o u)
        BY <4>1, Joins3, Zenon
      <4>3. root \o <<"/">> \in Strings
        BY <4>1 DEF Strings
      <4> QED
        BY <2>1, <3>2, <3>3, <4>2, <4>3
    <3> QED
      BY <1>1, <3>4, PrefixIs DEF Strings
  <2> QED
    BY <2>2, <2>3
<1> QED
  BY <1>7, <1>8

LEMMA PartsSlash ==
  ASSUME NEW r \in Strings, NEW e \in Strings
  PROVE  Parts(r \o <<"/">> \o (<<"/">> \o e)) = Parts(r \o <<"/">> \o e)
<1> DEFINE b == <<"/">> \o e
<1>1. b \in Strings
  BY CharactersAssumption DEF Strings
<1>2. e = b \/ b = <<"/">> \o e
  OBVIOUS
<1> HIDE DEF b
<1>3. r = r \/ r = r \o <<"/">>
  OBVIOUS
<1>4. Parts(r \o <<"/">> \o b) = Parts(r \o <<"/">> \o e)
  BY <1>1, <1>2, <1>3, PartsConcat
<1> QED
  BY <1>4 DEF b

\* resolve_path() normalises root/uri, and asks path_under_root() about the result.
LEMMA ResolveIs ==
  ASSUME NEW root \in Strings, NEW uri \in Strings
  PROVE  \E k \in Strings :
           /\ Parts(k) = Parts(root \o <<"/">> \o uri)
           /\ Starts(root, "/") => Starts(k, "/")
           /\ resolve_path(root, uri) =
                IF path_under_root(normalize_path(k), root)
                THEN [path |-> normalize_path(k), under |-> TRUE]
                ELSE [path |-> <<>>, under |-> FALSE]
<1> DEFINE a == trim_trailing_slash(root)
           b == trim_leading_slash(uri)
           k == IF uri \in {<<>>, <<"/">>} THEN root ELSE a \o <<"/">> \o b
           Place(canonical) == IF path_under_root(canonical, root)
                               THEN [path |-> canonical, under |-> TRUE]
                               ELSE [path |-> <<>>, under |-> FALSE]
<1>1. /\ a \in Strings /\ b \in Strings /\ a \o <<"/">> \o b \in Strings
      /\ a = root \/ root = a \o <<"/">>
      /\ b = uri \/ uri = <<"/">> \o b
  BY Trimmed, SlashTyped
<1>2. k \in Strings
  BY <1>1
<1>3. <<"/">> \in Strings /\ <<>> \in Strings /\ <<"/">> = <<"/">> \o <<>>
  BY CharactersAssumption DEF Strings
<1>4. resolve_path(root, uri) = Place(normalize_path(k))
  <2>1. resolve_path(root, uri) = CHOOSE y \in {Place(v) : v \in {normalize_path(k)}} : TRUE
    BY DEF resolve_path, Once
  <2> HIDE DEF Place, k
  <2>2. {Place(v) : v \in {normalize_path(k)}} = {Place(normalize_path(k))}
    OBVIOUS
  <2> QED
    BY <2>1, <2>2, OneValue
<1> HIDE DEF a, b
<1>5. Parts(k) = Parts(root \o <<"/">> \o uri)
  <2>1. CASE uri \notin {<<>>, <<"/">>}
    <3>1. Parts(root \o <<"/">> \o uri) = Parts(a \o <<"/">> \o b)
      BY <1>1, PartsConcat
    <3> QED
      BY <2>1, <3>1
  <2>2. CASE uri \in {<<>>, <<"/">>}
    <3>1. Parts(root \o <<"/">> \o uri) = Parts(root \o <<"/">> \o <<>>)
      <4>1. uri = <<>> \/ uri = <<"/">> \o <<>>
        BY <1>3, <2>2
      <4>2. CASE uri = <<"/">> \o <<>>
        <5>1. <<>> \in Strings
          BY <1>3
        <5>2. Parts(root \o <<"/">> \o (<<"/">> \o <<>>)) = Parts(root \o <<"/">> \o <<>>)
          BY <5>1, PartsSlash, Zenon
        <5> QED
          BY <4>2, <5>2
      <4> QED
        BY <4>1, <4>2
    <3>2. root \o <<"/">> \o <<>> \in Strings
          /\ Segments(root \o <<"/">> \o <<>>) = Segments(root) \o << <<>> >>
          /\ Segments(root) \in Seq(Strings)
      BY <1>3, SlashTyped, SegmentsConcat, SegmentsLaws DEF Strings
    <3>3. Append(Segments(root), <<>>) = Segments(root) \o << <<>> >>
      <4> HIDE DEF Strings
      <4> QED
        BY <1>3, <3>2, ConcatAppend
    <3>4. Stack(Append(Segments(root), <<>>)) = EndSegment(Stack(Segments(root)), <<>>)
      <4> HIDE DEF Strings
      <4> QED
        BY <1>3, <3>2, StackLaws
    <3>5. Parts(root \o <<"/">> \o <<>>) = Parts(root)
      BY <3>2, <3>3, <3>4, PartsIs, EndSegmentIs
    <3> QED
      BY <2>2, <3>1, <3>5
  <2> QED
    BY <2>1, <2>2
<1>6. Starts(root, "/") => Starts(k, "/")
  <2> SUFFICES ASSUME Starts(root, "/"), uri \notin {<<>>, <<"/">>}
               PROVE  Starts(a \o <<"/">> \o b, "/")
    OBVIOUS
  <2>1. \A t \in Strings : Starts(t, "/") <=> Len(t) > 0 /\ t[1] = "/"
    BY EmptySeq DEF Starts, Strings
  <2>2. /\ Len(a) \in Nat /\ Len(b) \in Nat /\ Len(a \o <<"/">> \o b) = Len(a) + 1 + Len(b)
        /\ Len(a) = 0 => (a \o <<"/">> \o b)[1] = "/"
        /\ Len(a) > 0 => (a \o <<"/">> \o b)[1] = a[1] /\ (a \o <<"/">>)[1] = a[1]
    BY <1>1, <1>3 DEF Strings
  <2>3. Len(a) > 0 => a[1] = "/"
    BY <1>1, <2>1, <2>2
  <2>4. Len(a \o <<"/">> \o b) > 0 /\ (a \o <<"/">> \o b)[1] = "/"
    <3>1. Len(a) = 0 \/ Len(a) > 0
      BY <2>2
    <3> QED
      BY <2>2, <2>3, <3>1
  <2> HIDE DEF Strings
  <2> QED
    BY <1>1, <2>1, <2>4
<1> HIDE DEF k
<1> QED
  BY <1>2, <1>4, <1>5, <1>6

\* What resolve_path() lets through is a normal path below the root.
LEMMA ResolvedBelow ==
  ASSUME NEW root \in Strings, NEW uri \in Strings, NEW place, place = resolve_path(root, uri)
  PROVE  /\ ~place.under => place.path = <<>>
         /\ place.under => \E k \in Strings : /\ place.path = normalize_path(k)
                                              /\ IsPrefix(Parts(root), Parts(k))
<1>1. PICK k \in Strings :
        place = IF path_under_root(normalize_path(k), root)
                THEN [path |-> normalize_path(k), under |-> TRUE]
                ELSE [path |-> <<>>, under |-> FALSE]
  BY ResolveIs
<1>2. CASE path_under_root(normalize_path(k), root)
  <2>1. normalize_path(k) \in Strings /\ Parts(normalize_path(k)) = Parts(k)
    BY NormalizeIs, NormalSegments
  <2>2. IsPrefix(Parts(root), Parts(k))
    BY <1>2, <2>1, UnderIsBelow
  <2> QED
    BY <1>1, <1>2, <2>2
<1>3. CASE ~path_under_root(normalize_path(k), root)
  BY <1>1, <1>3
<1> QED
  BY <1>2, <1>3

\* With an absolute root, resolve_path() goes where the names lead.
LEMMA ResolvesAsWalked ==
  ASSUME NEW root \in Strings, NEW uri \in Strings, Starts(root, "/")
  PROVE  resolve_path(root, uri) = Resolved(root, uri)
<1> DEFINE full == root \o <<"/">> \o uri
<1>0. full \in Strings
  BY SlashTyped
<1> HIDE DEF full
<1>1. PICK k \in Strings :
        /\ Parts(k) = Parts(full)
        /\ Starts(k, "/")
        /\ resolve_path(root, uri) =
             IF path_under_root(normalize_path(k), root)
             THEN [path |-> normalize_path(k), under |-> TRUE]
             ELSE [path |-> <<>>, under |-> FALSE]
  BY ResolveIs DEF full
<1> DEFINE C == Parts(k)
           p == normalize_path(k)
<1>2. /\ p \in Strings /\ C \in Seq(Names) /\ Parts(p) = C
      /\ C = <<>> => p = <<"/">>
      /\ C # <<>> => p = Joined(C)
  BY <1>1, NormalizeIs, NormalSegments
<1>3. p = Written(C)
  BY <1>2 DEF Written
<1>4. Starts(p, "/")
  <2>1. CASE C = <<>>
    BY <1>2, <2>1 DEF Starts
  <2>2. CASE C # <<>>
    <3> HIDE DEF p, C
    <3>1. p \in Seq(Characters) /\ Len(p) > 1 /\ p[1] = "/"
      BY <1>2, <2>2, JoinedIs DEF Strings
    <3>2. p # <<>> /\ Head(p) = p[1]
      BY <3>1
    <3> QED
      BY <3>1, <3>2 DEF Starts
  <2> QED
    BY <2>1, <2>2
<1> HIDE DEF C, p
<1>5. path_under_root(p, root) <=> IsPrefix(Parts(root), C)
  BY <1>2, <1>4, UnderIsBelow, BelowIsUnder
<1>6. Walk(full) = C /\ Walk(root) = Parts(root)
  BY <1>0, <1>1, WalkIs DEF C
<1>7. Resolved(root, uri) = IF IsPrefix(Walk(root), Walk(full))
                            THEN [path |-> Written(Walk(full)), under |-> TRUE]
                            ELSE [path |-> <<>>, under |-> FALSE]
  BY DEF Resolved, full
<1> QED
  BY <1>1, <1>3, <1>5, <1>6, <1>7 DEF p

\* A path without an empty segment but the first, or "/".
Clean(p) ==
  /\ p \in Strings
  /\ p = <<"/">> \/ \A i \in 2..Len(Segments(p)) : Segments(p)[i] # <<>>

LEMMA SlashText ==
  <<"/">> \in Strings /\ Segments(<<>>) = << <<>> >> /\ Segments(<<"/">>) = << <<>>, <<>> >>
<1>1. <<"/">> \in Strings /\ <<>> \o <<"/">> \o <<>> = <<"/">>
  BY CharactersAssumption DEF Strings
<1>2. Segments(<<>>) = << <<>> >>
  BY SegmentsLaws
<1>3. Segments(<<"/">>) = << <<>> >> \o << <<>> >>
  BY <1>1, <1>2, SegmentsConcat, EmptyText
<1> QED
  BY <1>1, <1>2, <1>3

LEMMA NormalIsClean ==
  ASSUME NEW x \in Strings
  PROVE  Clean(normalize_path(x))
<1> DEFINE p == normalize_path(x)
           P == Parts(x)
<1>1. /\ p \in Strings /\ P \in Seq(Names)
      /\ P = <<>> => p = <<"/">>
      /\ P # <<>> => Segments(p) = << <<>> >> \o P \/ Segments(p) = P
  <2>1. /\ p \in Strings /\ P \in Seq(Names) /\ (P = <<>> => p = <<"/">>)
    BY NormalizeIs
  <2>2. \/ P = <<>> /\ Segments(p) = << <<>>, <<>> >>
        \/ Segments(p) = << <<>> >> \o P
        \/ Segments(p) = P
    BY NormalSegments
  <2> QED
    BY <2>1, <2>2
<1>2. \A n \in Names : n # <<>>
  BY NamesAre
<1> HIDE DEF p, P, Names
<1>3. CASE P = <<>>
  BY <1>1, <1>3 DEF Clean, p
<1>4. CASE P # <<>>
  <2>1. \A i \in 1..Len(P) : P[i] # <<>>
    BY <1>1, <1>2
  <2>2. \A i \in 2..Len(<< <<>> >> \o P) : (<< <<>> >> \o P)[i] # <<>>
    <3> DEFINE q == << <<>> >> \o P
    <3>1. Len(P) \in Nat /\ Len(q) = Len(P) + 1 /\ \A i \in 2..Len(q) : q[i] = P[i - 1]
      BY <1>1
    <3> HIDE DEF q
    <3>2. \A i \in 2..Len(q) : i - 1 \in 1..Len(P)
      BY <3>1
    <3>3. \A i \in 2..Len(q) : q[i] # <<>>
      BY <2>1, <3>1, <3>2
    <3> QED
      BY <3>3 DEF q
  <2>3. \A i \in 2..Len(P) : P[i] # <<>>
    BY <1>1, <2>1
  <2> QED
    BY <1>1, <1>4, <2>2, <2>3 DEF Clean, p
<1> QED
  BY <1>3, <1>4

\* The last of some places.
LEMMA HighestMember ==
  ASSUME NEW n \in Nat, NEW S \in SUBSET (1..n), S # {}
  PROVE  Max(S) \in S /\ \A i \in S : i <= Max(S)
<1> DEFINE T == {m \in 0..n : \E i \in S : m <= i /\ \A j \in S : j <= i}
           U == {m \in 0..n : (\E i \in S : m <= i) => \E i \in S : \A j \in S : j <= i}
<1>1. \E i \in S : \A j \in S : j <= i
  <2> SUFFICES ASSUME \A i \in S : \E j \in S : ~(j <= i) PROVE FALSE
    OBVIOUS
  <2> DEFINE V == {m \in 0..n : \E i \in S : m <= i}
  <2>1. 0 \in V
    <3>1. PICK i \in S : TRUE
      OBVIOUS
    <3>2. 0 <= i /\ 0 \in 0..n
      OBVIOUS
    <3> QED
      BY <3>2
  <2>2. ASSUME NEW m \in 1..n, m - 1 \in V PROVE m \in V
    <3>1. PICK i \in S : m - 1 <= i
      BY <2>2
    <3>2. PICK j \in S : ~(j <= i)
      OBVIOUS
    <3>3. m <= j
      BY <3>1, <3>2
    <3> QED
      BY <3>3
  <2>3. \A m \in 0..n : m \in V
    <3> HIDE DEF V
    <3> QED
      BY <2>1, <2>2, UpTo
  <2>4. PICK i \in S : n <= i
    BY <2>3
  <2>5. PICK j \in S : ~(j <= i)
    OBVIOUS
  <2> QED
    BY <2>4, <2>5
<1>2. PICK i \in S : \A j \in S : j <= i
  BY <1>1
<1>3. \A x \in S : (\A j \in S : j <= x) => x = i
  BY <1>2
<1>4. Max(S) = CHOOSE x \in S : \A j \in S : j <= x
  BY DEF Max
<1> QED
  BY <1>2, <1>4

\* Up to the last slash of a path and on from it.
LEMMA DirectoryIs ==
  ASSUME NEW p \in Strings
  PROVE  /\ Directory(p) \in Strings
         /\ Directory(p) = <<>> \/ \E u \in Strings : p = Directory(p) \o <<"/">> \o u
<1> DEFINE I == {i \in 1..Len(p) : p[i] = "/"}
           L == IF I # {} THEN Max(I) ELSE 0
<1>1. Directory(p) = SubSeq(p, 1, L - 1)
  BY DEF Directory, SelectLastInSeq
<1>2. Len(p) \in Nat /\ p \in Seq(Characters)
  BY DEF Strings
<1>3. CASE I = {}
  <2>1. Directory(p) = SubSeq(p, 1, 0 - 1)
    BY <1>1, <1>3
  <2>2. SubSeq(p, 1, 0 - 1) = <<>>
    BY SubSeqEmpty
  <2> QED
    BY <2>1, <2>2, EmptyText
<1>4. CASE I # {}
  <2>1. L \in I
    BY <1>2, <1>4, HighestMember
  <2> HIDE DEF L
  <2>2. L \in 1..Len(p) /\ p[L] = "/" /\ L \in Nat
    BY <2>1
  <2> DEFINE d == SubSeq(p, 1, L - 1)
             u == SubSeq(p, L + 1, Len(p))
  <2>3. /\ SubSeq(p, 1, L) = Append(d, "/") /\ d \in Seq(Characters)
    BY <1>2, <2>2, PrefixNext
  <2>4. SubSeq(p, 1, L) \o u = p
    <3>1. 1 \in 1..Len(p) + 1 /\ L \in 1 - 1..Len(p) /\ Len(p) \in L..Len(p)
      BY <1>2, <2>2
    <3>2. SubSeq(p, 1, L) \o SubSeq(p, L + 1, Len(p)) = SubSeq(p, 1, Len(p))
      BY <1>2, <3>1, ConcatAdjacentSubSeq
    <3> QED
      BY <1>2, <3>2, SubSeqFull
  <2>5. u \in Seq(Characters)
    BY <1>2, <2>2
  <2>6. Append(d, "/") = d \o <<"/">>
    BY <2>3, CharactersAssumption, ConcatAppend
  <2> HIDE DEF u, d
  <2>7. Directory(p) = d
    BY <1>1 DEF d
  <2> QED
    BY <2>3, <2>4, <2>5, <2>6, <2>7 DEF Strings
<1> QED
  BY <1>3, <1>4

\* The directory of a clean path has no slash at its end.
LEMMA DirectoryTrimmed ==
  ASSUME NEW p, Clean(p)
  PROVE  trim_trailing_slash(Directory(p)) = Directory(p)
<1> DEFINE d == Directory(p)
           e == trim_trailing_slash(d)
<1>1. p \in Strings /\ (p = <<"/">> \/ \A i \in 2..Len(Segments(p)) : Segments(p)[i] # <<>>)
  BY DEF Clean
<1>2. d \in Strings /\ e \in Strings /\ (e = d \/ d = e \o <<"/">>)
  BY <1>1, DirectoryIs, Trimmed
<1>3. d = <<>> \/ \E u \in Strings : p = d \o <<"/">> \o u
  BY <1>1, DirectoryIs
<1> HIDE DEF d, e
<1>4. SUFFICES ASSUME e # d PROVE FALSE
  BY DEF d, e
<1>5. d = e \o <<"/">> /\ Len(d) \in Nat /\ Len(e) \in Nat /\ Len(d) = Len(e) + 1
  BY <1>2, <1>4 DEF Strings
<1>6. d # <<>>
  BY <1>5
<1>7. PICK u \in Strings : p = d \o <<"/">> \o u
  BY <1>3, <1>6
<1>8. p # <<"/">>
  <2>1. Len(p) = Len(d) + 1 + Len(u) /\ Len(u) \in Nat /\ Len(<<"/">>) = 1
    BY <1>2, <1>7, SlashText DEF Strings
  <2> QED
    BY <1>5, <2>1
<1>9. Segments(d) = Segments(e) \o << <<>> >> /\ Segments(p) = Segments(d) \o Segments(u)
  <2>1. d = e \o <<"/">> \o <<>>
    BY <1>2, <1>5
  <2>2. Segments(e \o <<"/">> \o <<>>) = Segments(e) \o Segments(<<>>)
    BY <1>2, EmptyText, SegmentsConcat
  <2> QED
    BY <1>2, <1>7, <2>1, <2>2, SlashText, SegmentsConcat
<1> DEFINE a == Segments(e)
           b == Segments(u)
<1>10. a \in Seq(Strings) /\ a # <<>> /\ b \in Seq(Strings)
  BY <1>2, SegmentsLaws DEF Strings
<1> HIDE DEF a, b, Strings
<1>11. Segments(p) = (a \o << <<>> >>) \o b
  BY <1>9 DEF a, b
<1>12. /\ Len(a) \in Nat /\ Len(a) > 0 /\ Len(b) \in Nat
  BY <1>10, EmptySeq
<1>12a. << <<>> >> \in Seq(Strings)
  BY EmptyText
<1>12b. /\ Len((a \o << <<>> >>) \o b) = Len(a) + 1 + Len(b)
        /\ ((a \o << <<>> >>) \o b)[Len(a) + 1] = <<>>
  BY <1>10, <1>12, <1>12a
<1>13. Len(a) + 1 \in 2..Len(Segments(p)) /\ Segments(p)[Len(a) + 1] = <<>>
  BY <1>11, <1>12, <1>12b
<1> QED
  BY <1>1, <1>8, <1>13

\* An index file lies in the directory that it stands for.
LEMMA IndexFile ==
  ASSUME NEW p, Clean(p), NEW c \in {"i", "m"}, NEW q, q = trim_trailing_slash(p) \o <<"/", c>>
  PROVE  /\ Clean(q) /\ Directory(q) = trim_trailing_slash(p)
         /\ \A R \in Seq(Names) : IsPrefix(R, Parts(p)) => IsPrefix(R, Parts(q))
<1> DEFINE t == trim_trailing_slash(p)
<1>0. c \in Characters /\ "/" \in Characters /\ c # "/" /\ c # "."
  BY PathsAssumption, CharactersAssumption
<1>1. p \in Strings /\ (p = <<"/">> \/ \A i \in 2..Len(Segments(p)) : Segments(p)[i] # <<>>)
  BY DEF Clean
<1>2. t \in Strings /\ (t = p \/ p = t \o <<"/">>)
  BY <1>1, Trimmed
<1> HIDE DEF t
<1>3. <<c>> \in Names /\ <<c>> \in Strings /\ <<c>> \in Slashless /\ <<c>> # <<>>
  <2>1. <<c>> \in Strings /\ Len(<<c>>) = 1 /\ <<c>>[1] = c
    BY <1>0 DEF Strings
  <2>2. <<c>> # <<".", ".">> /\ <<c>> # <<>> /\ <<c>> # <<".">>
    BY <1>0
  <2>3. \A i \in 1..Len(<<c>>) : <<c>>[i] # "/"
    BY <1>0
  <2> QED
    BY <2>1, <2>2, <2>3 DEF Names, Slashless, Name, Up
<1>4. q = t \o <<"/">> \o <<c>> /\ q \in Strings
  <2>1. q = t \o <<"/">> \o <<c>>
    <3>1. q = t \o <<"/", c>>
      BY DEF t
    <3>2. <<"/", c>> = <<"/">> \o <<c>>
      OBVIOUS
    <3>3. t \o (<<"/">> \o <<c>>) = t \o <<"/">> \o <<c>>
      BY <1>2, <1>3, SlashText, ConcatAssociative DEF Strings
    <3> QED
      BY <3>1, <3>2, <3>3
  <2> QED
    BY <1>2, <1>3, <2>1, SlashTyped
<1>5. Segments(q) = Segments(t) \o << <<c>> >>
  BY <1>2, <1>3, <1>4, SegmentsConcat, OneSegment
<1>6. Segments(t) \in Seq(Strings) /\ Segments(t) # <<>>
  BY <1>2, SegmentsLaws DEF Strings
<1>7. \A i \in 2..Len(Segments(t)) : Segments(t)[i] # <<>>
  <2>1. CASE p = <<"/">>
    <3>1. t = <<>>
      BY <2>1 DEF t, trim_trailing_slash, Ends, Last, Front
    <3>2. Segments(t) = << <<>> >>
      BY <3>1, SlashText
    <3>3. Len(Segments(t)) = 1
      BY <3>2
    <3> QED
      BY <3>3
  <2>2. CASE p # <<"/">>
    <3>1. t = p
      <4> SUFFICES ASSUME p = t \o <<"/">>, t # <<>> PROVE FALSE
        <5>1. p = t \o <<"/">> /\ t = <<>> => p = <<"/">>
          OBVIOUS
        <5> QED
          BY <1>2, <2>2, <5>1
      <4>1. p = t \o <<"/">> \o <<>>
        BY <1>2
      <4>2. Segments(p) = Segments(t) \o << <<>> >>
        BY <1>2, <4>1, EmptyText, SlashText, SegmentsConcat
      <4> DEFINE a == Segments(t)
      <4> HIDE DEF a, Strings
      <4>3. Len(a) \in Nat /\ Len(a) > 0 /\ a \in Seq(Strings)
        BY <1>6, EmptySeq DEF a
      <4>4. Len(a \o << <<>> >>) = Len(a) + 1 /\ (a \o << <<>> >>)[Len(a) + 1] = <<>>
        BY <4>3, EmptyText
      <4>5. Len(a) + 1 \in 2..Len(Segments(p)) /\ Segments(p)[Len(a) + 1] = <<>>
        BY <4>2, <4>3, <4>4 DEF a
      <4> QED
        BY <1>1, <2>2, <4>5
    <3> QED
      BY <1>1, <2>2, <3>1
  <2> QED
    BY <2>1, <2>2
<1>8. Clean(q)
  <2> DEFINE a == Segments(t)
  <2> HIDE DEF a, Strings
  <2>1. a \in Seq(Strings) /\ \A i \in 2..Len(a) : a[i] # <<>>
    BY <1>6, <1>7 DEF a
  <2>2. /\ Len(a) \in Nat /\ Len(a \o << <<c>> >>) = Len(a) + 1
        /\ (a \o << <<c>> >>)[Len(a) + 1] = <<c>>
        /\ \A i \in 1..Len(a) : (a \o << <<c>> >>)[i] = a[i]
    BY <1>3, <2>1
  <2>3. \A i \in 2..Len(a) + 1 : i = Len(a) + 1 \/ i \in 2..Len(a)
    BY <2>2
  <2>3a. \A i \in 2..Len(a) : i \in 1..Len(a)
    BY <2>2
  <2>4. \A i \in 2..Len(a \o << <<c>> >>) : (a \o << <<c>> >>)[i] # <<>>
    BY <1>3, <2>1, <2>2, <2>3, <2>3a
  <2> QED
    BY <1>4, <1>5, <2>4 DEF Clean, a
<1>9. Directory(q) = t
  <2> DEFINE I == {i \in 1..Len(q) : q[i] = "/"}
             n == Len(t)
  <2>1. /\ n \in Nat /\ Len(q) = n + 2 /\ q[n + 1] = "/" /\ q[n + 2] = c
        /\ \A i \in 1..n : q[i] = t[i]
    <3> DEFINE h == t \o <<"/">>
    <3>1. /\ n \in Nat /\ h \in Seq(Characters) /\ Len(h) = n + 1 /\ h[n + 1] = "/"
          /\ \A i \in 1..n : h[i] = t[i]
      BY <1>2, SlashText DEF Strings
    <3>2. q = h \o <<c>>
      BY <1>4
    <3> HIDE DEF h, n
    <3>3. <<c>> \in Seq(Characters) /\ Len(<<c>>) = 1 /\ <<c>>[1] = c
      BY <1>3 DEF Strings
    <3>4. /\ Len(q) = n + 1 + 1 /\ q[n + 1 + 1] = c
          /\ \A i \in 1..n + 1 : q[i] = h[i]
      <4> DEFINE k == <<c>>
      <4>1. k \in Seq(Characters) /\ Len(k) = 1 /\ k[1] = c /\ q = h \o k
        BY <3>2, <3>3
      <4> HIDE DEF k
      <4>2. Len(h \o k) = n + 1 + 1 /\ (h \o k)[n + 1 + 1] = c
        <5>1. Len(h \o k) = Len(h) + Len(k) /\ (h \o k)[Len(h) + 1] = k[1]
          <6>1. h \in Seq(Characters) /\ k \in Seq(Characters) /\ Len(h) \in Nat
            BY <3>1, <4>1
          <6>2. Len(h) + 1 \in 1..Len(h) + Len(k) /\ ~(Len(h) + 1 <= Len(h))
            BY <4>1, <6>1
          <6>3. Len(h) + 1 - Len(h) = 1
            BY <6>1
          <6> QED
            BY <6>1, <6>2, <6>3, ConcatProperties
        <5> QED
          BY <3>1, <4>1, <5>1
      <4>3. \A i \in 1..n + 1 : (h \o k)[i] = h[i]
        BY <3>1, <4>1
      <4> QED
        BY <4>1, <4>2, <4>3
    <3>5. n + 1 + 1 = n + 2 /\ n + 1 \in 1..n + 1 /\ \A i \in 1..n : i \in 1..n + 1
      BY <3>1
    <3> QED
      BY <3>1, <3>4, <3>5
  <2> HIDE DEF n
  <2>2. n + 1 \in I /\ \A i \in I : i <= n + 1
    <3>1. n + 1 \in 1..Len(q)
      BY <2>1
    <3>2. ASSUME NEW i \in 1..Len(q), q[i] = "/" PROVE i <= n + 1
      <4>1. i # n + 2
        BY <1>0, <2>1, <3>2
      <4> QED
        BY <2>1, <4>1
    <3> QED
      BY <2>1, <3>1, <3>2
  <2>3. I \in SUBSET (1..Len(q)) /\ Len(q) \in Nat /\ I # {}
    <3>1. Len(q) \in Nat
      BY <2>1
    <3>2. I \subseteq 1..Len(q)
      OBVIOUS
    <3> HIDE DEF I
    <3> QED
      BY <2>2, <3>1, <3>2
  <2>4. Directory(q) = SubSeq(q, 1, Max(I) - 1)
    <3>1. Directory(q) = SubSeq(q, 1, (IF I # {} THEN Max(I) ELSE 0) - 1)
      BY DEF Directory, SelectLastInSeq
    <3> QED
      BY <2>3, <3>1
  <2> HIDE DEF I
  <2>5. Max(I) = n + 1
    <3>1. Max(I) \in I /\ n + 1 <= Max(I)
      BY <2>2, <2>3, HighestMember
    <3>2. Max(I) <= n + 1 /\ Max(I) \in Nat
      <4> DEFINE m == Max(I)
                 k == Len(q)
      <4> HIDE DEF m, k
      <4>1. m \in I /\ I \subseteq 1..k /\ k \in Nat
        BY <2>3, <3>1 DEF m, k
      <4>2. m <= n + 1 /\ m \in Nat
        BY <2>2, <4>1
      <4> QED
        BY <4>2 DEF m
    <3> QED
      BY <2>1, <3>1, <3>2
  <2>6. Directory(q) = SubSeq(q, 1, n)
    <3>1. Max(I) - 1 = n
      BY <2>1, <2>5
    <3> QED
      BY <2>4, <3>1, Zenon
  <2>7. SubSeq(q, 1, n) = t
    <3>1. SubSeq(q, 1, n) \in Seq(Characters) /\ Len(SubSeq(q, 1, n)) = n
          /\ \A i \in 1..n : SubSeq(q, 1, n)[i] = q[i]
      BY <1>4, <2>1 DEF Strings
    <3> QED
      BY <1>2, <2>1, <3>1, SeqEqual DEF Strings, n
  <2> QED
    BY <2>6, <2>7
<1>10. Parts(q) = Append(Parts(p), <<c>>) /\ Parts(p) \in Seq(Names)
  <2>1. Parts(q) = Stack(Segments(t) \o << <<c>> >>) /\ Parts(t) = Stack(Segments(t))
        /\ Parts(p) = Stack(Segments(p)) /\ Parts(p) \in Seq(Names)
    BY <1>1, <1>2, <1>4, <1>5, PartsIs
  <2>2. Segments(t) \o << <<c>> >> = Append(Segments(t), <<c>>)
    <3> HIDE DEF Strings
    <3> QED
      BY <1>3, <1>6, ConcatAppend
  <2>3. Stack(Append(Segments(t), <<c>>)) = EndSegment(Stack(Segments(t)), <<c>>)
    <3> HIDE DEF Strings
    <3> QED
      BY <1>3, <1>6, StackLaws
  <2>4. Name(<<c>>)
    BY <1>3 DEF Names
  <2>5. EndSegment(Stack(Segments(t)), <<c>>) = Append(Stack(Segments(t)), <<c>>)
    BY <2>4, EndSegmentIs
  <2>6. Stack(Segments(t)) = Stack(Segments(p))
    <3>1. CASE p = t \o <<"/">>
      <4>1. p = t \o <<"/">> \o <<>>
        BY <1>2, <3>1
      <4>2. Segments(p) = Segments(t) \o << <<>> >>
        BY <1>2, <4>1, EmptyText, SlashText, SegmentsConcat
      <4>3. Segments(t) \o << <<>> >> = Append(Segments(t), <<>>)
        <5> HIDE DEF Strings
        <5> QED
          BY <1>6, EmptyText, ConcatAppend
      <4>4. Stack(Append(Segments(t), <<>>)) = EndSegment(Stack(Segments(t)), <<>>)
        <5> HIDE DEF Strings
        <5> QED
          BY <1>6, EmptyText, StackLaws
      <4> QED
        BY <4>2, <4>3, <4>4, EndSegmentIs
    <3> QED
      BY <1>2, <3>1
  <2> QED
    BY <2>1, <2>2, <2>3, <2>5, <2>6
<1>11. ASSUME NEW R \in Seq(Names), IsPrefix(R, Parts(p)) PROVE IsPrefix(R, Parts(q))
  <2> DEFINE P == Parts(p)
             n == <<c>>
  <2> HIDE DEF P, n, Names
  <2>0. n \in Names /\ P \in Seq(Names) /\ IsPrefix(R, P) /\ Parts(q) = Append(P, n)
    BY <1>3, <1>10, <1>11 DEF n, P
  <2>1. PICK u \in Seq(Names) : P = R \o u
    BY <2>0, PrefixIs
  <2>2. Append(P, n) = R \o Append(u, n) /\ Append(u, n) \in Seq(Names)
        /\ Append(P, n) \in Seq(Names)
    <3>1. Append(u, n) \in Seq(Names) /\ Append(P, n) \in Seq(Names)
      BY <2>0, <2>1, Appended
    <3>2. R \o Append(u, n) = Append(R \o u, n)
      BY <2>0, <2>1, ConcatAppend
    <3> QED
      BY <2>1, <3>1, <3>2
  <2> QED
    BY <2>0, <2>2, PrefixIs
<1> QED
  BY <1>8, <1>9, <1>11 DEF t

(***************************************************************************)
(* What is opened.  A path that resolve_path() has let through stays below   *)
(* the root, and what .htaccess has allowed is what is opened, also where    *)
(* an index file takes the place of its directory.                          *)
(***************************************************************************)
Authorised(dir) == check_htaccess_and_auth(Lines(dir), request.auth) = "Ok"
Root == VirtualHosts[vhost].document_root

Going == {"stat", "auth", "content", "is_executable", "index", "serve", "open", "opened", "send"}
Below == vhost \in 1..Len(VirtualHosts) /\ Clean(path) /\ IsPrefix(Parts(Root), Parts(path))

AInv ==
  /\ pc = "access" => vhost \in 1..Len(VirtualHosts) /\ path \in Strings
  /\ pc \in Going => Below
  /\ pc \in {"content", "is_executable", "index"} => Authorised(dir_of_resource(path, st.kind))
  /\ (pc = "is_executable" => st.kind = "file") /\ (pc = "index" => st.kind = "dir")
  /\ pc = "index" => candidates \in Seq({"i", "m"})
  /\ pc \in {"serve", "open", "opened", "send"} => Authorised(Directory(path))

LEMMA RootText ==
  ASSUME NEW v \in 1..Len(VirtualHosts)
  PROVE  VirtualHosts[v].document_root \in Strings
<1>1. VirtualHosts[v] \in Range(VirtualHosts)
  BY VirtualHostsAssumption DEF Range
<1> QED
  BY <1>1, PathsAssumption

\* A step that ends the request.
LEMMA AuthorisedEnds ==
  ASSUME pc' \in {"idle", "find_config", "cgi", "done", "terminated"}
  PROVE  AInv'
BY DEF AInv, Going

\* A step that leaves the path alone.
LEMMA AuthorisedStays ==
  ASSUME AInv, UNCHANGED <<vhost, path, request>>,
         \/ pc' = pc /\ st' = st /\ candidates' = candidates
         \/ /\ pc \in {"serve", "open", "opened", "send"}
            /\ pc' \in {"serve", "open", "opened", "send"}
  PROVE  AInv'
<1>1. Below => Below'
  BY DEF Below, Root
<1>2. Authorised(Directory(path)) => Authorised(Directory(path))'
  BY DEF Authorised
<1>3. CASE pc' = pc /\ st' = st /\ candidates' = candidates
  <2>1. Authorised(dir_of_resource(path, st.kind)) => Authorised(dir_of_resource(path, st.kind))'
    BY <1>3 DEF Authorised
  <2> QED
    BY <1>1, <1>2, <1>3, <2>1 DEF AInv
<1>4. CASE pc \in {"serve", "open", "opened", "send"} /\ pc' \in {"serve", "open", "opened", "send"}
  BY <1>1, <1>2, <1>4 DEF AInv, Going
<1> QED
  BY <1>3, <1>4

LEMMA ConfigText ==
  ASSUME NEW s \in Strings
  PROVE  OriginForm(s) \in Strings
<1> DEFINE b == Before(s, "?")
           I == {i \in 1..Len(s) : s[i] = "?"}
<1>1. b \in Seq(Characters)
  <2>1. s \in Seq(Characters) /\ Len(s) \in Nat
    BY DEF Strings
  <2>2. CASE I = {}
    <3>1. b = s
      BY <2>2 DEF Before, SelectInSeq
    <3> QED
      BY <2>1, <3>1
  <2>3. CASE I # {}
    <3> DEFINE m == Min(I)
    <3>1. m \in I
      <4>1. I \subseteq Nat
        BY <2>1
      <4> HIDE DEF I
      <4> QED
        BY <2>3, <4>1, LowestMember
    <3> HIDE DEF m
    <3>2. m \in 1..Len(s)
      BY <3>1
    <3>3. SubSeq(s, 1, m - 1) \in Seq(Characters)
      BY <2>1, <3>2
    <3>4. b = IF m = 0 THEN s ELSE SubSeq(s, 1, m - 1)
      BY <2>3 DEF Before, SelectInSeq, m
    <3> QED
      BY <2>1, <3>3, <3>4
  <2> QED
    BY <2>2, <2>3
<1>2. OriginForm(s) = IF b = <<>> \/ Head(b) = "/" THEN b ELSE <<"/">> \o b
  BY DEF OriginForm
<1> HIDE DEF b
<1> QED
  BY <1>1, <1>2, CharactersAssumption DEF Strings

LEMMA FindConfigAuthorised == BInv /\ AInv /\ phase_find_config => AInv'
<1> SUFFICES ASSUME BInv, AInv, phase_find_config PROVE AInv'
  OBVIOUS
<1>1. /\ vhost' = resolve_vhost(VirtualHosts, request.host)
      /\ \/ pc' = "done"
         \/ vhost' # 0 /\ pc' = "access" /\ path' = OriginForm(request.uri)
  BY DEF phase_find_config, Respond
<1>2. request.uri \in Strings
  BY PathsAssumption DEF BInv, Typed, phase_find_config
<1>3. CASE pc' = "done"
  BY <1>3, AuthorisedEnds
<1>4. CASE vhost' # 0 /\ pc' = "access" /\ path' = OriginForm(request.uri)
  <2>1. vhost' \in 1..Len(VirtualHosts)
    <3>1. vhost' \in 0..Len(VirtualHosts) /\ Len(VirtualHosts) \in Nat
      BY <1>1, VhostInRange, VirtualHostsAssumption
    <3> QED
      BY <1>4, <3>1
  <2>2. path' \in Strings
    BY <1>2, <1>4, ConfigText
  <2> QED
    BY <1>4, <2>1, <2>2 DEF AInv, Going
<1> QED
  BY <1>1, <1>3, <1>4

LEMMA AccessAuthorised == BInv /\ AInv /\ phase_access => AInv'
<1> SUFFICES ASSUME AInv, phase_access PROVE AInv'
  OBVIOUS
<1>1. CASE pc' = "done"
  BY <1>1, AuthorisedEnds
<1>2. CASE ResolvePath /\ pc' # "done"
  <2> DEFINE place == resolve_path(Root, path)
  <2>1. /\ pc = "access" /\ pc' = "stat" /\ path' = place.path /\ place.under
        /\ UNCHANGED <<vhost, request>>
    BY <1>2 DEF ResolvePath, Respond, Root, context
  <2>2. vhost \in 1..Len(VirtualHosts) /\ path \in Strings /\ Root \in Strings
    BY <2>1, RootText DEF AInv, Root
  <2>3. PICK k \in Strings : place.path = normalize_path(k) /\ IsPrefix(Parts(Root), Parts(k))
    BY <2>1, <2>2, ResolvedBelow
  <2>4. Clean(path') /\ Parts(path') = Parts(k)
    BY <2>1, <2>3, NormalIsClean, NormalSegments
  <2>5. Below'
    BY <2>1, <2>2, <2>3, <2>4 DEF Below, Root
  <2> QED
    BY <2>1, <2>5 DEF AInv, Going
<1>3. CASE Stat /\ pc' # "done"
  <2>1. pc = "stat" /\ pc' = "auth" /\ UNCHANGED <<vhost, path, request>>
    BY <1>3 DEF Stat, Respond, context
  <2>2. Below'
    BY <2>1 DEF Below, Root, AInv, Going
  <2> QED
    BY <2>1, <2>2 DEF AInv, Going
<1>4. CASE Authenticate /\ pc' # "done"
  <2>1. /\ pc = "auth" /\ pc' = "content" /\ UNCHANGED <<vhost, path, request, st>>
        /\ Authorised(dir_of_resource(path, st.kind))
    BY <1>4 DEF Authenticate, Respond, context, Authorised
  <2>2. Below' /\ Authorised(dir_of_resource(path, st.kind))'
    BY <2>1 DEF Below, Root, AInv, Going, Authorised
  <2> QED
    BY <2>1, <2>2 DEF AInv, Going
<1> QED
  BY <1>1, <1>2, <1>3, <1>4 DEF phase_access

LEMMA DispatchAuthorised == BInv /\ AInv /\ (DispatchContent \/ IsExecutable) => AInv'
<1> SUFFICES ASSUME AInv, DispatchContent \/ IsExecutable PROVE AInv'
  OBVIOUS
<1>1. /\ pc \in {"content", "is_executable"} /\ UNCHANGED <<vhost, path, request, st>>
  BY DEF DispatchContent, IsExecutable, context
<1>2. Below' /\ Authorised(dir_of_resource(path, st.kind))'
  BY <1>1 DEF Below, Root, AInv, Going, Authorised
<1>3. CASE pc' \in {"done", "cgi"}
  BY <1>3, AuthorisedEnds
<1>4. CASE DispatchContent /\ pc' \notin {"done", "cgi"}
  <2>1. \/ pc' = "is_executable" /\ st.kind = "file"
        \/ pc' = "index" /\ st.kind = "dir"
    BY <1>4 DEF DispatchContent, Respond
  <2>2. candidates' \in Seq({"i", "m"})
    <3>1. candidates' \in {<<"m", "i">>, <<"i">>}
      BY <1>4 DEF DispatchContent
    <3>2. <<"m", "i">> \in Seq({"i", "m"}) /\ <<"i">> \in Seq({"i", "m"})
      OBVIOUS
    <3> QED
      BY <3>1, <3>2
  <2> QED
    BY <1>1, <1>2, <2>1, <2>2 DEF AInv, Going
<1>5. CASE IsExecutable /\ pc' \notin {"done", "cgi"}
  <2>1. pc = "is_executable" /\ pc' = "serve" /\ st.kind = "file"
    BY <1>5 DEF IsExecutable, Respond, AInv
  <2>2. dir_of_resource(path, st.kind) = Directory(path)
    BY <2>1, DirectoryTrimmed DEF dir_of_resource, AInv, Going, Below
  <2>3. Authorised(Directory(path))'
    BY <1>1, <1>2, <2>2
  <2> QED
    BY <1>2, <2>1, <2>3 DEF AInv, Going
<1> QED
  BY <1>3, <1>4, <1>5

LEMMA IndexAuthorised == BInv /\ AInv /\ TryIndex => AInv'
<1> SUFFICES ASSUME AInv, TryIndex PROVE AInv'
  OBVIOUS
<1> DEFINE c == Head(candidates)
           q == trim_trailing_slash(path) \o <<"/", c>>
<1>1. /\ pc = "index" /\ candidates # <<>> /\ candidates' = Tail(candidates)
      /\ UNCHANGED <<vhost, request, st>>
      /\ \/ path' = q /\ pc' = "serve"
         \/ UNCHANGED <<path, pc>>
  BY DEF TryIndex, context
<1>2. /\ candidates \in Seq({"i", "m"}) /\ st.kind = "dir" /\ Below
      /\ Authorised(dir_of_resource(path, st.kind))
  BY <1>1 DEF AInv, Going
<1>3. c \in {"i", "m"} /\ candidates' \in Seq({"i", "m"})
  BY <1>1, <1>2
<1> HIDE DEF c
<1>4. CASE path' = q /\ pc' = "serve"
  <2>1. Clean(path) /\ vhost \in 1..Len(VirtualHosts) /\ IsPrefix(Parts(Root), Parts(path))
    BY <1>2 DEF Below
  <2>2. Root \in Strings
    BY <2>1, RootText DEF Root
  <2>3. Parts(Root) \in Seq(Names)
    BY <2>2, PartsIs
  <2>4. /\ Clean(q) /\ Directory(q) = trim_trailing_slash(path)
        /\ \A R \in Seq(Names) : IsPrefix(R, Parts(path)) => IsPrefix(R, Parts(q))
    BY <1>3, <2>1, IndexFile
  <2> HIDE DEF q
  <2>5. IsPrefix(Parts(Root), Parts(q))
    BY <2>1, <2>3, <2>4
  <2>6. Below'
    BY <1>1, <1>4, <2>1, <2>4, <2>5 DEF Below, Root
  <2>7. Authorised(Directory(q))
    BY <1>2, <2>4 DEF dir_of_resource
  <2>8. Authorised(Directory(path))'
    BY <1>1, <1>4, <2>7 DEF Authorised
  <2> QED
    BY <1>4, <2>6, <2>8 DEF AInv, Going
<1>5. CASE UNCHANGED <<path, pc>>
  <2>1. Below' /\ Authorised(dir_of_resource(path, st.kind))'
    BY <1>1, <1>2, <1>5 DEF Below, Root, Authorised
  <2> QED
    BY <1>1, <1>2, <1>3, <1>5, <2>1 DEF AInv, Going
<1> QED
  BY <1>1, <1>4, <1>5

LEMMA NextAuthorised == BInv /\ AInv /\ [Next]_vars => AInv'
<1> SUFFICES ASSUME BInv, AInv, [Next]_vars PROVE AInv'
  OBVIOUS
<1>1. CASE Others
  <2>1. UNCHANGED <<vhost, path, request, pc, st, candidates>>
    <3>1. PICK p, node : Change(p, node)
      BY <1>1 DEF Others, WriteInPlace, Replace, Unlink
    <3> QED
      BY <3>1 DEF Change, context
  <2> QED
    BY <2>1, AuthorisedStays
<1>2. CASE phase_find_config
  BY <1>2, FindConfigAuthorised
<1>3. CASE phase_access
  BY <1>3, AccessAuthorised
<1>4. CASE DispatchContent \/ IsExecutable
  BY <1>4, DispatchAuthorised
<1>5. CASE TryIndex
  BY <1>5, IndexAuthorised
<1>6. CASE RunCgi \/ List \/ OpenFails \/ SendDone \/ Receive
  <2>1. pc' \in {"done", "idle"}
    BY <1>6 DEF RunCgi, List, OpenFails, SendDone, Receive, Respond
  <2> QED
    BY <2>1, AuthorisedEnds
<1>7. CASE ServeStatic \/ Open \/ Opened \/ SendByte
  <2>1. UNCHANGED <<vhost, path, request>>
    BY <1>7 DEF ServeStatic, Open, Opened, SendByte, context
  <2>2. pc \in {"serve", "open", "opened", "send"}
    BY <1>7 DEF ServeStatic, Open, Opened, SendByte
  <2>3. pc' \in {"done", "terminated"} \/ pc' \in {"serve", "open", "opened", "send"}
    BY <1>7 DEF ServeStatic, Open, Opened, SendByte, Respond
  <2> QED
    BY <2>1, <2>2, <2>3, AuthorisedStays, AuthorisedEnds
<1>8. CASE \E r \in Requests, a \in BOOLEAN : Arrive(r, a)
  <2>1. pc' = "find_config"
    BY <1>8 DEF Arrive
  <2> QED
    BY <2>1, AuthorisedEnds
<1>9. CASE UNCHANGED vars
  <2>1. UNCHANGED <<vhost, path, request, pc, st, candidates>>
    BY <1>9 DEF vars, context
  <2> QED
    BY <2>1, AuthorisedStays
<1> QED
  BY <1>1, <1>2, <1>3, <1>4, <1>5, <1>6, <1>7, <1>8, <1>9
     DEF Next, Server, phase_content, serve_directory_index, serve_static_file, write_response

\* A file is only opened if it lies below the document root of its virtual host, and
\* the .htaccess of its own directory lets the client in (phase_access,
\* serve_directory_index, serve_static_file).
THEOREM OpenedAuthorised == Spec => []OpenedIsAuthorised
<1>1. Init => AInv
  BY DEF Init, AInv, Going
<1>2. BInv /\ AInv => OpenedIsAuthorised
  <2> SUFFICES ASSUME BInv, AInv, resp.fd
               PROVE  /\ IsPrefix(Walk(Root), Walk(path))
                      /\ Authorised(Directory(path))
    BY DEF OpenedIsAuthorised, Root, Authorised
  <2>1. pc \in {"opened", "send"}
    BY DEF BInv, IInv, FdKnown, FdWhereSent
  <2>2. Below /\ Authorised(Directory(path))
    BY <2>1 DEF AInv, Going
  <2>3. Root \in Strings /\ path \in Strings
    BY <2>2, RootText DEF Below, Root, Clean
  <2>4. Walk(Root) = Parts(Root) /\ Walk(path) = Parts(path)
    BY <2>3, WalkIs
  <2> QED
    BY <2>2, <2>4 DEF Below
<1> QED
  BY <1>1, <1>2, NextAuthorised, InvariantHolds, PTL DEF Spec

\* For any absolute document root and any URI resolve_path() goes where the names lead,
\* and refuses exactly what leads out of the root.
THEOREM ResolvesAsNames ==
  ASSUME TestRoots \subseteq {r \in Strings : Starts(r, "/")}, TestUris \subseteq Strings
  PROVE  Spec => []ResolvesLikeWalk
<1>1. ResolvesLikeWalk
  BY ResolvesAsWalked DEF ResolvesLikeWalk
<1> QED
  BY <1>1, PTL

Units == {"CR", "LF", "404", "H", "T", "x"}
Heads == {"404", "H", "T", "x"}

\* string::find(): p occurs in s at i.
Occurs(s, p, i) ==
  i \in 1..Len(s) /\ i + Len(p) - 1 <= Len(s) /\ \A j \in 1..Len(p) : s[i + j - 1] = p[j]

LEMMA OccursIs ==
  ASSUME NEW s \in Seq(Units), NEW p \in Seq(Units), p # <<>>, NEW i \in 1..Len(s)
  PROVE  IsPrefix(p, SubSeq(s, i, Len(s))) <=> Occurs(s, p, i)
<1> DEFINE n == Len(s)
           m == Len(p)
           q == SubSeq(s, i, n)
<1> HIDE DEF Units
<1>1. n \in Nat /\ m \in Nat /\ i \in Nat /\ i <= n
  OBVIOUS
<1>2. q \in Seq(Units) /\ Len(q) = n - i + 1 /\ \A j \in 1..n - i + 1 : q[j] = s[i + j - 1]
  BY <1>1
<1> HIDE DEF q
<1>3. ASSUME IsPrefix(p, q) PROVE Occurs(s, p, i)
  <2>1. PICK u \in Seq(Units) : q = p \o u
    BY <1>2, <1>3, PrefixIs
  <2>2. Len(u) \in Nat /\ Len(q) = m + Len(u) /\ \A j \in 1..m : q[j] = p[j]
    BY <2>1
  <2>3. \A j \in 1..m : j \in 1..n - i + 1
    BY <1>1, <1>2, <2>2
  <2>4. \A j \in 1..m : s[i + j - 1] = p[j]
    BY <1>2, <2>2, <2>3
  <2>5. i + m - 1 <= n
    BY <1>1, <1>2, <2>2
  <2> QED
    BY <2>4, <2>5 DEF Occurs
<1>4. ASSUME Occurs(s, p, i) PROVE IsPrefix(p, q)
  <2>1. i + m - 1 <= n /\ \A j \in 1..m : s[i + j - 1] = p[j]
    BY <1>4 DEF Occurs
  <2>2. m <= Len(q) /\ \A j \in 1..m : j \in 1..n - i + 1
    BY <1>1, <1>2, <2>1
  <2> DEFINE h == SubSeq(q, 1, m)
  <2>3. h \in Seq(Units) /\ Len(h) = m /\ \A j \in 1..m : h[j] = q[j]
    BY <1>1, <1>2, <2>2
  <2> HIDE DEF h
  <2>4. \A j \in 1..m : h[j] = p[j]
    BY <1>2, <2>1, <2>2, <2>3
  <2>5. h = p
    BY <2>3, <2>4, SeqEqual
  <2> QED
    BY <2>2, <2>5, SubSeqFull DEF IsPrefix, h
<1> QED
  BY <1>3, <1>4 DEF q

\* The first place, or none.
LEMMA FindIs ==
  ASSUME NEW s \in Seq(Units), NEW p \in Seq(Units), p # <<>>
  PROVE  /\ \A i : Occurs(s, p, i) /\ (\A j \in 1..i - 1 : ~Occurs(s, p, j)) => Find(s, p) = i
         /\ Find(s, p) = 0 <=> \A i \in 1..Len(s) : ~Occurs(s, p, i)
<1> DEFINE at == {i \in 1..Len(s) : IsPrefix(p, SubSeq(s, i, Len(s)))}
<1>1. at = {i \in 1..Len(s) : Occurs(s, p, i)}
  BY OccursIs
<1>2. Find(s, p) = IF at = {} THEN 0 ELSE Min(at)
  BY DEF Find
<1>3. Len(s) \in Nat /\ at \subseteq Nat /\ \A i \in at : i >= 1
  OBVIOUS
<1>4. \A i : Occurs(s, p, i) => i \in at
  BY <1>1 DEF Occurs
<1>5. \A i \in at : Occurs(s, p, i) /\ i \in 1..Len(s)
  BY <1>1
<1> HIDE DEF at
<1>6. ASSUME NEW i, Occurs(s, p, i), \A j \in 1..i - 1 : ~Occurs(s, p, j) PROVE Find(s, p) = i
  <2>1. i \in at /\ i \in Nat
    BY <1>3, <1>4, <1>6
  <2>2. ASSUME NEW j \in at PROVE i <= j
    <3>1. j \in Nat /\ j >= 1 /\ j \notin 1..i - 1
      BY <1>3, <1>5, <1>6
    <3> QED
      BY <2>1, <3>1
  <2>3. ASSUME NEW j \in at, \A k \in at : j <= k PROVE j = i
    BY <1>3, <2>1, <2>2, <2>3
  <2>4. Min(at) = CHOOSE x \in at : \A k \in at : x <= k
    BY DEF Min
  <2>5. Min(at) = i
    BY <2>1, <2>2, <2>3, <2>4
  <2> QED
    BY <1>2, <2>1, <2>5
<1>7. Find(s, p) = 0 <=> at = {}
  <2>1. at # {} => Min(at) \in at
    BY <1>3, LowestMember
  <2> QED
    BY <1>2, <1>3, <2>1
<1> QED
  BY <1>4, <1>5, <1>6, <1>7

\* The lines by their places.
LfLines(l, h, n) ==
  /\ l \in Seq(Units) /\ Len(l) = 2 * n
  /\ \A k \in 0..n - 1 : l[2 * k + 1] = h[k + 1] /\ l[2 * k + 2] = "LF"
  /\ \A i \in 1..2 * n : \E k \in 0..n - 1 : i = 2 * k + 1 \/ i = 2 * k + 2

LEMMA LinedLf ==
  ASSUME NEW h \in Seq(Heads), NEW n, n = Len(h), NEW l, l = Lined(h, <<"LF">>)
  PROVE  LfLines(l, h, n)
<1>1. n \in Nat
  OBVIOUS
<1>2. l = [i \in 1..2 * n |-> IF (i - 1) % 2 = 0 THEN h[1 + (i - 1) \div 2]
                                       ELSE <<"LF">>[(i - 1) % 2]]
  BY DEF Lined
<1>3. ASSUME NEW k \in 0..n - 1 PROVE l[2 * k + 1] = h[k + 1] /\ l[2 * k + 2] = "LF"
  <2>1. /\ 2 * k + 1 \in 1..2 * n /\ 2 * k + 2 \in 1..2 * n
        /\ (2 * k + 1 - 1) % 2 = 0 /\ 1 + (2 * k + 1 - 1) \div 2 = k + 1
        /\ (2 * k + 2 - 1) % 2 = 1
    BY <1>1
  <2>2. <<"LF">>[1] = "LF"
    OBVIOUS
  <2> QED
    BY <1>2, <2>1, <2>2
<1>4. ASSUME NEW i \in 1..2 * n PROVE \E k \in 0..n - 1 : i = 2 * k + 1 \/ i = 2 * k + 2
  <2>1. (i - 1) \div 2 \in 0..n - 1
    BY <1>1
  <2>2. i = 2 * ((i - 1) \div 2) + 1 \/ i = 2 * ((i - 1) \div 2) + 2
    BY <1>1
  <2> QED
    BY <2>1, <2>2
<1>5. \A i \in 1..2 * n : l[i] \in Units
  <2>1. \A k \in 0..n - 1 : h[k + 1] \in Heads
    BY <1>1
  <2>2. Heads \subseteq Units /\ "LF" \in Units
    BY DEF Heads, Units
  <2> SUFFICES ASSUME NEW i \in 1..2 * n PROVE l[i] \in Units
    OBVIOUS
  <2>3. PICK k \in 0..n - 1 : i = 2 * k + 1 \/ i = 2 * k + 2
    BY <1>4
  <2>4. l[2 * k + 1] = h[k + 1] /\ l[2 * k + 2] = "LF"
    BY <1>3
  <2> QED
    BY <2>1, <2>2, <2>3, <2>4
<1>6. 2 * n \in Nat /\ l = [i \in 1..2 * n |-> l[i]]
  BY <1>1, <1>2
<1>7. l \in [1..2 * n -> Units]
  BY <1>5, <1>6
<1>8. l \in Seq(Units) /\ Len(l) = 2 * n
  BY <1>6, <1>7
<1> QED
  BY <1>3, <1>4, <1>8 DEF LfLines

CrLfLines(l, h, n) ==
  /\ l \in Seq(Units) /\ Len(l) = 3 * n
  /\ \A k \in 0..n - 1 : l[3 * k + 1] = h[k + 1] /\ l[3 * k + 2] = "CR" /\ l[3 * k + 3] = "LF"
  /\ \A i \in 1..3 * n : \E k \in 0..n - 1 : i = 3 * k + 1 \/ i = 3 * k + 2 \/ i = 3 * k + 3

LEMMA LinedCrLf ==
  ASSUME NEW h \in Seq(Heads), NEW n, n = Len(h), NEW l, l = Lined(h, CrLf)
  PROVE  CrLfLines(l, h, n)
<1>1. n \in Nat
  OBVIOUS
<1>2. l = [i \in 1..3 * n |-> IF (i - 1) % 3 = 0 THEN h[1 + (i - 1) \div 3] ELSE CrLf[(i - 1) % 3]]
  BY DEF Lined, CrLf
<1>3. ASSUME NEW k \in 0..n - 1
      PROVE  l[3 * k + 1] = h[k + 1] /\ l[3 * k + 2] = "CR" /\ l[3 * k + 3] = "LF"
  <2>1. /\ 3 * k + 1 \in 1..3 * n /\ 3 * k + 2 \in 1..3 * n /\ 3 * k + 3 \in 1..3 * n
        /\ (3 * k + 1 - 1) % 3 = 0 /\ 1 + (3 * k + 1 - 1) \div 3 = k + 1
        /\ (3 * k + 2 - 1) % 3 = 1 /\ (3 * k + 3 - 1) % 3 = 2
    BY <1>1
  <2>2. CrLf[1] = "CR" /\ CrLf[2] = "LF"
    BY DEF CrLf
  <2> QED
    BY <1>2, <2>1, <2>2
<1>4. ASSUME NEW i \in 1..3 * n
      PROVE  \E k \in 0..n - 1 : i = 3 * k + 1 \/ i = 3 * k + 2 \/ i = 3 * k + 3
  <2>1. (i - 1) \div 3 \in 0..n - 1
    BY <1>1
  <2>2. \/ i = 3 * ((i - 1) \div 3) + 1 \/ i = 3 * ((i - 1) \div 3) + 2
        \/ i = 3 * ((i - 1) \div 3) + 3
    BY <1>1
  <2> QED
    BY <2>1, <2>2
<1>5. \A i \in 1..3 * n : l[i] \in Units
  <2>1. \A k \in 0..n - 1 : h[k + 1] \in Heads
    BY <1>1
  <2>2. Heads \subseteq Units /\ "CR" \in Units /\ "LF" \in Units
    BY DEF Heads, Units
  <2> SUFFICES ASSUME NEW i \in 1..3 * n PROVE l[i] \in Units
    OBVIOUS
  <2>3. PICK k \in 0..n - 1 : i = 3 * k + 1 \/ i = 3 * k + 2 \/ i = 3 * k + 3
    BY <1>4
  <2>4. /\ l[3 * k + 1] \in Units /\ l[3 * k + 2] \in Units /\ l[3 * k + 3] \in Units
    BY <1>3, <2>1, <2>2
  <2> QED
    BY <2>3, <2>4
<1>6. 3 * n \in Nat /\ l = [i \in 1..3 * n |-> l[i]]
  BY <1>1, <1>2
<1>7. l \in [1..3 * n -> Units]
  BY <1>5, <1>6
<1>8. l \in Seq(Units) /\ Len(l) = 3 * n
  BY <1>6, <1>7
<1> QED
  BY <1>3, <1>4, <1>8 DEF CrLfLines

\* The parts of an output, by their places.
Composed(o, l, e, b) ==
  /\ o \in Seq(Units) /\ Len(o) = Len(l) + Len(e) + Len(b)
  /\ \A i \in 1..Len(l) : o[i] = l[i]
  /\ \A i \in 1..Len(e) : o[Len(l) + i] = e[i]
  /\ \A i \in 1..Len(b) : o[Len(l) + Len(e) + i] = b[i]
  /\ SubSeq(o, Len(l) + Len(e) + 1, Len(o)) = b

LEMMA OutputParts ==
  ASSUME NEW l \in Seq(Units), NEW e \in Seq(Units), NEW b \in Seq(Units),
         NEW o, o = l \o e \o b
  PROVE  Composed(o, l, e, b)
<1> DEFINE h == l \o e
           m == Len(l)
           n == Len(e)
           k == Len(b)
<1> HIDE DEF Units
<1>0. m \in Nat /\ n \in Nat /\ k \in Nat
  OBVIOUS
<1>1. /\ h \in Seq(Units) /\ Len(h) = m + n
      /\ \A i \in 1..m : h[i] = l[i]
      /\ \A i \in 1..n : h[m + i] = e[i]
  <2>1. h \in Seq(Units) /\ Len(h) = m + n
    OBVIOUS
  <2>2. \A i \in 1..m : h[i] = l[i]
    OBVIOUS
  <2>3. \A i \in 1..n : h[m + i] = e[i]
    OBVIOUS
  <2> QED
    BY <2>1, <2>2, <2>3
<1> HIDE DEF h
<1>2. /\ o \in Seq(Units) /\ Len(o) = m + n + k
      /\ \A i \in 1..m + n : o[i] = h[i]
      /\ \A i \in 1..k : o[m + n + i] = b[i]
  <2>0. o = h \o b
    BY DEF h
  <2>1. o \in Seq(Units) /\ Len(o) = m + n + k
    <3>1. h \o b \in Seq(Units) /\ Len(h \o b) = Len(h) + Len(b)
      BY <1>1, ConcatProperties
    <3> QED
      BY <1>1, <2>0, <3>1
  <2>2. \A i \in 1..m + n : o[i] = h[i]
    BY <1>1, <2>0
  <2>3. \A i \in 1..k : o[m + n + i] = b[i]
    <3>1. \A i \in 1..k : (h \o b)[Len(h) + i] = b[i]
      BY <1>1
    <3> QED
      BY <1>1, <2>0, <3>1
  <2> QED
    BY <2>1, <2>2, <2>3
<1>3. \A i \in 1..m : i \in 1..m + n
  BY <1>0
<1>4. \A i \in 1..n : m + i \in 1..m + n
  BY <1>0
<1>5. SubSeq(o, m + n + 1, Len(o)) = b
  <2> DEFINE q == SubSeq(o, m + n + 1, m + n + k)
  <2>1. q \in Seq(Units) /\ Len(q) = k /\ \A i \in 1..k : q[i] = o[m + n + 1 + i - 1]
    BY <1>0, <1>2
  <2>2. \A i \in 1..k : m + n + 1 + i - 1 = m + n + i
    BY <1>0
  <2> HIDE DEF q
  <2>3. \A i \in 1..k : q[i] = b[i]
    BY <1>2, <2>1, <2>2
  <2>4. q = b
    BY <2>1, <2>3, SeqEqual
  <2> QED
    BY <1>2, <2>4 DEF q
<1> QED
  BY <1>1, <1>2, <1>3, <1>4, <1>5 DEF Composed

\* What becomes of an output whose header lines end before place p.
Parsed(o, b, H) ==
  /\ parse_cgi_output(o).body = b /\ parse_cgi_output(o).chunked
  /\ parse_cgi_output(o).status = IF "404" \in H THEN 404 ELSE 200
  /\ parse_cgi_output(o).headers = H \cap {"H"}

LEMMA ParsedAt ==
  ASSUME NEW o, NEW p \in Nat \ {0}, NEW w, NEW b, NEW H,
         Separator(o) = [at |-> p, length |-> w],
         SubSeq(o, p + w, Len(o)) = b,
         LineStarts(SubSeq(o, 1, p - 1)) = H
  PROVE  Parsed(o, b, H)
<1> DEFINE ok == [status |-> 200, headers |-> {}, chunked |-> TRUE, body |-> b]
<1>0. Separator(o).at = p /\ Separator(o).length = w /\ p # 0
  OBVIOUS
<1>1. parse_cgi_output(o) = HeaderBlock(SubSeq(o, 1, p - 1), ok)
  <2>1. parse_cgi_output(o) =
          IF Separator(o).at = 0 THEN InternalServerError
          ELSE HeaderBlock(SubSeq(o, 1, Separator(o).at - 1),
                 [status |-> 200, headers |-> {}, chunked |-> TRUE,
                  body |-> SubSeq(o, Separator(o).at + Separator(o).length, Len(o))])
    BY DEF parse_cgi_output
  <2> QED
    BY <1>0, <2>1, Zenon
<1>2. parse_cgi_output(o) = [ok EXCEPT !.status = IF "404" \in H THEN 404 ELSE @,
                                       !.headers = H \cap {"H"}]
  BY <1>1 DEF HeaderBlock
<1> QED
  BY <1>2 DEF Parsed

LEMMA CrLfCrLf ==
  LET crlf == CrLf \o CrLf
  IN  /\ crlf \in Seq(Units) /\ crlf # <<>> /\ Len(crlf) = 4
      /\ crlf[1] = "CR" /\ crlf[2] = "LF" /\ crlf[3] = "CR" /\ crlf[4] = "LF"
<1> DEFINE c == CrLf
           d == c \o c
<1>1. c \in Seq(Units) /\ Len(c) = 2 /\ c[1] = "CR" /\ c[2] = "LF"
  BY DEF CrLf, Units
<1> HIDE DEF c
<1>2. /\ d \in Seq(Units) /\ Len(d) = 4
      /\ \A i \in 1..4 : d[i] = IF i <= 2 THEN c[i] ELSE c[i - 2]
  <2>1. /\ d \in Seq(Units) /\ Len(d) = Len(c) + Len(c)
        /\ \A i \in 1..Len(c) + Len(c) : d[i] = IF i <= Len(c) THEN c[i] ELSE c[i - Len(c)]
    BY <1>1, ConcatProperties
  <2> HIDE DEF d
  <2> QED
    BY <1>1, <2>1
<1> HIDE DEF d
<1>3. d[1] = c[1] /\ d[2] = c[2] /\ d[3] = c[1] /\ d[4] = c[2]
  <2>1. 3 - 2 = 1 /\ 4 - 2 = 2
    OBVIOUS
  <2> QED
    BY <1>2, <2>1
<1>4. d # <<>>
  BY <1>2
<1> QED
  BY <1>1, <1>2, <1>3, <1>4 DEF c, d

Split(h, eol, b) ==
  LET response == parse_cgi_output(Output(h, eol, b))
  IN  /\ response.body = b /\ response.chunked
      /\ response.status = IF "404" \in Range(h) THEN 404 ELSE 200
      /\ response.headers = Range(h) \cap {"H"}

LEMMA SplitLf ==
  ASSUME NEW h \in Seq(Heads) \ {<<>>}, NEW b \in Seq(Units), Find(b, CrLf \o CrLf) = 0
  PROVE  Split(h, <<"LF">>, b)
<1> DEFINE n == Len(h)
           l == Lined(h, <<"LF">>)
           o == Output(h, <<"LF">>, b)
           crlf == CrLf \o CrLf
           lf == <<"LF", "LF">>
<1>1. n \in Nat /\ n >= 1 /\ \A k \in 0..n - 1 : h[k + 1] \in Heads
  BY EmptySeq
<1>2. /\ l \in Seq(Units) /\ Len(l) = 2 * n
      /\ \A k \in 0..n - 1 : l[2 * k + 1] = h[k + 1] /\ l[2 * k + 2] = "LF"
      /\ \A i \in 1..2 * n : \E k \in 0..n - 1 : i = 2 * k + 1 \/ i = 2 * k + 2
  <2>1. h \in Seq(Heads)
    OBVIOUS
  <2>2. LfLines(l, h, n)
    BY <2>1, LinedLf
  <2> QED
    BY <2>2 DEF LfLines
<1>3. <<"LF">> \in Seq(Units) /\ Len(<<"LF">>) = 1 /\ <<"LF">>[1] = "LF"
  BY DEF Units
<1>4. /\ crlf \in Seq(Units) /\ crlf # <<>> /\ Len(crlf) = 4
      /\ crlf[1] = "CR" /\ crlf[2] = "LF" /\ crlf[3] = "CR" /\ crlf[4] = "LF"
  BY CrLfCrLf
<1>5. /\ lf \in Seq(Units) /\ lf # <<>> /\ Len(lf) = 2 /\ lf[1] = "LF" /\ lf[2] = "LF"
  BY DEF Units
<1>6. \A x \in Heads : x # "CR" /\ x # "LF"
  BY DEF Heads
<1>7. o = l \o <<"LF">> \o b
  BY DEF Output
<1> HIDE DEF l, o, Units, Heads, crlf, lf
<1>8. /\ o \in Seq(Units) /\ Len(o) = 2 * n + 1 + Len(b) /\ Len(b) \in Nat
      /\ \A i \in 1..2 * n : o[i] = l[i]
      /\ o[2 * n + 1] = "LF"
      /\ \A i \in 1..Len(b) : o[2 * n + 1 + i] = b[i]
      /\ SubSeq(o, 2 * n + 1 + 1, Len(o)) = b
  <2> DEFINE e == <<"LF">>
  <2> HIDE DEF e
  <2>1. l \in Seq(Units) /\ e \in Seq(Units) /\ b \in Seq(Units) /\ o = l \o e \o b
    BY <1>2, <1>3, <1>7 DEF e
  <2>2. Composed(o, l, e, b)
    BY <2>1, OutputParts
  <2>3. Len(e) = 1 /\ e[1] = "LF" /\ 1 \in 1..1 /\ Len(b) \in Nat
    BY <1>3, <2>1 DEF e
  <2> QED
    BY <1>2, <2>2, <2>3 DEF Composed
<1>9. \A k \in 0..n - 1 :
        /\ 2 * k + 1 \in 1..2 * n /\ 2 * k + 2 \in 1..2 * n
        /\ o[2 * k + 1] = h[k + 1] /\ h[k + 1] \in Heads /\ o[2 * k + 2] = "LF"
  <2> SUFFICES ASSUME NEW k \in 0..n - 1
               PROVE  /\ 2 * k + 1 \in 1..2 * n /\ 2 * k + 2 \in 1..2 * n
                      /\ o[2 * k + 1] = h[k + 1] /\ h[k + 1] \in Heads /\ o[2 * k + 2] = "LF"
    OBVIOUS
  <2>1. 2 * k + 1 \in 1..2 * n /\ 2 * k + 2 \in 1..2 * n
    BY <1>1
  <2> QED
    BY <1>1, <1>2, <1>8, <2>1
<1> HIDE DEF n
<1>10. Find(o, crlf) = 0
  <2>1. SUFFICES ASSUME NEW i \in 1..Len(o), Occurs(o, crlf, i) PROVE FALSE
    BY <1>4, <1>8, FindIs
  <2>2. /\ i + 4 - 1 <= Len(o) /\ o[i + 1 - 1] = "CR" /\ o[i + 2 - 1] = "LF"
        /\ o[i + 3 - 1] = "CR" /\ o[i + 4 - 1] = "LF"
    BY <1>4, <2>1 DEF Occurs
  <2>3. i \in Nat /\ i + 1 - 1 = i /\ o[i] = "CR"
    BY <1>8, <2>2
  <2>4. i \notin 1..2 * n
    <3> SUFFICES ASSUME i \in 1..2 * n PROVE FALSE
      OBVIOUS
    <3>1. PICK k \in 0..n - 1 : i = 2 * k + 1 \/ i = 2 * k + 2
      BY <1>2
    <3> QED
      BY <1>6, <1>9, <2>3, <3>1
  <2>5. i # 2 * n + 1
    BY <1>8, <2>3
  <2> DEFINE j == i - (2 * n + 1)
  <2>6. j \in 1..Len(b) /\ j + 3 <= Len(b) /\ i = 2 * n + 1 + j
    BY <1>1, <1>8, <2>2, <2>3, <2>4, <2>5
  <2>7. \A m \in 0..3 : b[j + m] = o[i + m]
    <3> HIDE DEF j
    <3>1. \A m \in 0..3 : j + m \in 1..Len(b) /\ 2 * n + 1 + (j + m) = i + m
      BY <1>1, <1>8, <2>6
    <3> QED
      BY <1>8, <3>1
  <2> HIDE DEF j
  <2>8. b[j] = "CR" /\ b[j + 1] = "LF" /\ b[j + 2] = "CR" /\ b[j + 3] = "LF"
    <3>1. b[j + 0] = o[i + 0] /\ b[j + 1] = o[i + 1] /\ b[j + 2] = o[i + 2] /\ b[j + 3] = o[i + 3]
      BY <2>7
    <3>2. /\ i + 0 = i + 1 - 1 /\ i + 1 = i + 2 - 1 /\ i + 2 = i + 3 - 1 /\ i + 3 = i + 4 - 1
          /\ j + 0 = j
      BY <2>3, <2>6
    <3> QED
      BY <2>2, <3>1, <3>2
  <2>9. Occurs(b, crlf, j)
    <3>1. \A m \in 1..4 : b[j + m - 1] = crlf[m]
      <4>1. j + 1 - 1 = j /\ j + 2 - 1 = j + 1 /\ j + 3 - 1 = j + 2 /\ j + 4 - 1 = j + 3
        BY <2>6
      <4>2. \A m \in 1..4 : m = 1 \/ m = 2 \/ m = 3 \/ m = 4
        OBVIOUS
      <4> QED
        BY <1>4, <2>8, <4>1, <4>2
    <3> QED
      BY <1>4, <1>8, <2>6, <3>1 DEF Occurs
  <2> QED
    BY <1>4, <2>6, <2>9, FindIs DEF crlf
<1>11. Find(o, lf) = 2 * n
  <2>1. Occurs(o, lf, 2 * n)
    <3>1. o[2 * n] = "LF"
      <4>1. n - 1 \in 0..n - 1 /\ 2 * (n - 1) + 2 = 2 * n
        BY <1>1
      <4> QED
        BY <1>9, <4>1
    <3>2. 2 * n \in 1..Len(o) /\ 2 * n + 2 - 1 <= Len(o) /\ 2 * n + 1 - 1 = 2 * n
          /\ 2 * n + 2 - 1 = 2 * n + 1
      BY <1>1, <1>8
    <3>3. \A m \in 1..2 : m = 1 \/ m = 2
      OBVIOUS
    <3> QED
      BY <1>5, <1>8, <3>1, <3>2, <3>3 DEF Occurs
  <2>2. ASSUME NEW i \in 1..2 * n - 1, Occurs(o, lf, i) PROVE FALSE
    <3>1. o[i + 1 - 1] = "LF" /\ o[i + 2 - 1] = "LF"
      BY <1>5, <2>2 DEF Occurs
    <3>2. i \in 1..2 * n /\ i + 1 - 1 = i /\ i + 2 - 1 = i + 1
      BY <1>1
    <3>3. PICK k \in 0..n - 1 : i = 2 * k + 1 \/ i = 2 * k + 2
      BY <1>2, <3>2
    <3>4. i = 2 * k + 2
      BY <1>6, <1>9, <3>1, <3>2, <3>3
    <3>5. k + 1 \in 0..n - 1 /\ i + 1 = 2 * (k + 1) + 1
      BY <1>1, <3>4
    <3> QED
      BY <1>6, <1>9, <3>1, <3>2, <3>5
  <2> QED
    BY <1>5, <1>8, <2>1, <2>2, FindIs
<1>12. Separator(o) = [at |-> 2 * n, length |-> 2]
  BY <1>10, <1>11 DEF Separator, crlf, lf
<1>13. LineStarts(SubSeq(o, 1, 2 * n - 1)) = Range(h)
  <2> DEFINE q == SubSeq(o, 1, 2 * n - 1)
             J == {j \in DOMAIN q : j = 1 \/ q[j - 1] = "LF"}
  <2>1. q \in Seq(Units) /\ Len(q) = 2 * n - 1 /\ \A i \in 1..2 * n - 1 : q[i] = o[i]
    BY <1>1, <1>8
  <2>2. DOMAIN q = 1..2 * n - 1
    BY <2>1
  <2> HIDE DEF q
  <2>3. ASSUME NEW k \in 0..n - 1 PROVE 2 * k + 1 \in J /\ q[2 * k + 1] = h[k + 1]
    <3>1. 2 * k + 1 \in 1..2 * n - 1
      BY <1>1
    <3>2. q[2 * k + 1] = h[k + 1]
      BY <1>9, <2>1, <3>1
    <3>3. CASE k = 0
      BY <2>2, <3>1, <3>2, <3>3
    <3>4. CASE k # 0
      <4>1. k - 1 \in 0..n - 1 /\ 2 * (k - 1) + 2 = 2 * k + 1 - 1 /\ 2 * k + 1 - 1 \in 1..2 * n - 1
        BY <1>1, <3>4
      <4>2. q[2 * k + 1 - 1] = "LF"
        BY <1>9, <2>1, <4>1
      <4> QED
        BY <2>2, <3>1, <3>2, <4>2
    <3> QED
      BY <3>3, <3>4
  <2>4. ASSUME NEW j \in J PROVE \E k \in 0..n - 1 : j = 2 * k + 1
    <3>1. j \in 1..2 * n - 1 /\ j \in 1..2 * n /\ (j = 1 \/ q[j - 1] = "LF")
      BY <1>1, <2>2
    <3>2. PICK k \in 0..n - 1 : j = 2 * k + 1 \/ j = 2 * k + 2
      BY <1>2, <3>1
    <3>3. CASE j = 2 * k + 2
      <4>1. j - 1 = 2 * k + 1 /\ j # 1 /\ 2 * k + 1 \in 1..2 * n - 1
        BY <1>1, <3>1, <3>3
      <4>2. q[2 * k + 1] = "LF" /\ q[2 * k + 1] = h[k + 1]
        BY <1>9, <2>1, <3>1, <4>1
      <4> QED
        BY <1>6, <1>9, <4>2
    <3> QED
      BY <3>2, <3>3
  <2>5. Range(h) = {h[k + 1] : k \in 0..n - 1}
    <3>1. DOMAIN h = 1..n
      BY DEF n
    <3>2. \A i \in 1..n : i - 1 \in 0..n - 1 /\ i - 1 + 1 = i
      BY <1>1
    <3>3. \A k \in 0..n - 1 : k + 1 \in 1..n
      BY <1>1
    <3>4. Range(h) = {h[i] : i \in 1..n}
      BY <3>1 DEF Range
    <3> QED
      BY <3>2, <3>3, <3>4
  <2>6. LineStarts(q) = {q[j] : j \in J}
    BY DEF LineStarts
  <2> HIDE DEF J
  <2>7. {q[j] : j \in J} = {h[k + 1] : k \in 0..n - 1}
    BY <2>3, <2>4
  <2> QED
    BY <2>5, <2>6, <2>7 DEF q
<1>14. 2 * n \in Nat \ {0} /\ 2 * n + 2 = 2 * n + 1 + 1
  BY <1>1
<1>15. SubSeq(o, 2 * n + 2, Len(o)) = b
  BY <1>8, <1>14
<1> DEFINE p == 2 * n
<1>16. /\ p \in Nat \ {0} /\ Separator(o) = [at |-> p, length |-> 2]
       /\ SubSeq(o, p + 2, Len(o)) = b /\ LineStarts(SubSeq(o, 1, p - 1)) = Range(h)
  BY <1>12, <1>13, <1>14, <1>15
<1> HIDE DEF p
<1>17. Parsed(o, b, Range(h))
  BY <1>16, ParsedAt
<1> QED
  BY <1>17 DEF Split, Parsed, o

LEMMA SplitCrLf ==
  ASSUME NEW h \in Seq(Heads) \ {<<>>}, NEW b \in Seq(Units)
  PROVE  Split(h, CrLf, b)
<1> DEFINE n == Len(h)
           l == Lined(h, CrLf)
           o == Output(h, CrLf, b)
           crlf == CrLf \o CrLf
<1>1. n \in Nat /\ n >= 1 /\ \A k \in 0..n - 1 : h[k + 1] \in Heads
  BY EmptySeq
<1>2. /\ l \in Seq(Units) /\ Len(l) = 3 * n
      /\ \A k \in 0..n - 1 : l[3 * k + 1] = h[k + 1] /\ l[3 * k + 2] = "CR" /\ l[3 * k + 3] = "LF"
      /\ \A i \in 1..3 * n : \E k \in 0..n - 1 : i = 3 * k + 1 \/ i = 3 * k + 2 \/ i = 3 * k + 3
  <2>1. h \in Seq(Heads)
    OBVIOUS
  <2>2. CrLfLines(l, h, n)
    BY <2>1, LinedCrLf
  <2> QED
    BY <2>2 DEF CrLfLines
<1>3. CrLf \in Seq(Units) /\ Len(CrLf) = 2 /\ CrLf[1] = "CR" /\ CrLf[2] = "LF"
  BY DEF CrLf, Units
<1>4. /\ crlf \in Seq(Units) /\ crlf # <<>> /\ Len(crlf) = 4
      /\ crlf[1] = "CR" /\ crlf[2] = "LF" /\ crlf[3] = "CR" /\ crlf[4] = "LF"
  BY CrLfCrLf
<1>6. \A x \in Heads : x # "CR" /\ x # "LF"
  BY DEF Heads
<1>7. o = l \o CrLf \o b
  BY DEF Output
<1> HIDE DEF l, o, Units, Heads, crlf
<1>8. /\ o \in Seq(Units) /\ Len(o) = 3 * n + 2 + Len(b) /\ Len(b) \in Nat
      /\ \A i \in 1..3 * n : o[i] = l[i]
      /\ o[3 * n + 1] = "CR" /\ o[3 * n + 2] = "LF"
      /\ SubSeq(o, 3 * n + 2 + 1, Len(o)) = b
  <2>1. Composed(o, l, CrLf, b)
    BY <1>2, <1>3, <1>7, OutputParts
  <2>2. 1 \in 1..2 /\ 2 \in 1..2 /\ Len(b) \in Nat
    OBVIOUS
  <2> QED
    BY <1>2, <1>3, <2>1, <2>2 DEF Composed
<1>9. \A k \in 0..n - 1 :
        /\ 3 * k + 1 \in 1..3 * n /\ 3 * k + 2 \in 1..3 * n /\ 3 * k + 3 \in 1..3 * n
        /\ o[3 * k + 1] = h[k + 1] /\ h[k + 1] \in Heads
        /\ o[3 * k + 2] = "CR" /\ o[3 * k + 3] = "LF"
  <2> SUFFICES ASSUME NEW k \in 0..n - 1
               PROVE  /\ 3 * k + 1 \in 1..3 * n /\ 3 * k + 2 \in 1..3 * n /\ 3 * k + 3 \in 1..3 * n
                      /\ o[3 * k + 1] = h[k + 1] /\ h[k + 1] \in Heads
                      /\ o[3 * k + 2] = "CR" /\ o[3 * k + 3] = "LF"
    OBVIOUS
  <2>1. 3 * k + 1 \in 1..3 * n /\ 3 * k + 2 \in 1..3 * n /\ 3 * k + 3 \in 1..3 * n
    BY <1>1
  <2> QED
    BY <1>1, <1>2, <1>8, <2>1
<1> HIDE DEF n
<1>10. n - 1 \in 0..n - 1 /\ 3 * (n - 1) + 2 = 3 * n - 1 /\ 3 * (n - 1) + 3 = 3 * n
  BY <1>1
<1>11. Find(o, crlf) = 3 * n - 1
  <2>1. Occurs(o, crlf, 3 * n - 1)
    <3>1. o[3 * n - 1] = "CR" /\ o[3 * n] = "LF"
      BY <1>9, <1>10
    <3>2. /\ 3 * n - 1 \in 1..Len(o) /\ 3 * n - 1 + 4 - 1 <= Len(o)
          /\ 3 * n - 1 + 1 - 1 = 3 * n - 1 /\ 3 * n - 1 + 2 - 1 = 3 * n
          /\ 3 * n - 1 + 3 - 1 = 3 * n + 1 /\ 3 * n - 1 + 4 - 1 = 3 * n + 2
      BY <1>1, <1>8
    <3>3. \A m \in 1..4 : m = 1 \/ m = 2 \/ m = 3 \/ m = 4
      OBVIOUS
    <3> QED
      BY <1>4, <1>8, <3>1, <3>2, <3>3 DEF Occurs
  <2>2. ASSUME NEW i \in 1..3 * n - 1 - 1, Occurs(o, crlf, i) PROVE FALSE
    <3>1. o[i + 1 - 1] = "CR" /\ o[i + 3 - 1] = "CR"
      BY <1>4, <2>2 DEF Occurs
    <3>2. i \in 1..3 * n /\ i + 1 - 1 = i /\ i + 3 - 1 = i + 2 /\ i <= 3 * n - 2
      BY <1>1
    <3>3. PICK k \in 0..n - 1 : i = 3 * k + 1 \/ i = 3 * k + 2 \/ i = 3 * k + 3
      BY <1>2, <3>2
    <3>4. i = 3 * k + 2
      BY <1>6, <1>9, <3>1, <3>2, <3>3
    <3>5. k + 1 \in 0..n - 1 /\ i + 2 = 3 * (k + 1) + 1
      BY <1>1, <3>2, <3>4
    <3> QED
      BY <1>6, <1>9, <3>1, <3>2, <3>5
  <2> QED
    BY <1>4, <1>8, <2>1, <2>2, FindIs
<1>12. 3 * n - 1 # 0
  BY <1>1
<1>13. Separator(o) = [at |-> 3 * n - 1, length |-> 4]
  BY <1>11, <1>12 DEF Separator, crlf
<1>14. LineStarts(SubSeq(o, 1, 3 * n - 2)) = Range(h)
  <2> DEFINE q == SubSeq(o, 1, 3 * n - 2)
             J == {j \in DOMAIN q : j = 1 \/ q[j - 1] = "LF"}
  <2>1. q \in Seq(Units) /\ Len(q) = 3 * n - 2 /\ \A i \in 1..3 * n - 2 : q[i] = o[i]
    BY <1>1, <1>8
  <2>2. DOMAIN q = 1..3 * n - 2
    BY <2>1
  <2> HIDE DEF q
  <2>3. ASSUME NEW k \in 0..n - 1 PROVE 3 * k + 1 \in J /\ q[3 * k + 1] = h[k + 1]
    <3>1. 3 * k + 1 \in 1..3 * n - 2
      BY <1>1
    <3>2. q[3 * k + 1] = h[k + 1]
      BY <1>9, <2>1, <3>1
    <3>3. CASE k = 0
      BY <2>2, <3>1, <3>2, <3>3
    <3>4. CASE k # 0
      <4>1. k - 1 \in 0..n - 1 /\ 3 * (k - 1) + 3 = 3 * k + 1 - 1 /\ 3 * k + 1 - 1 \in 1..3 * n - 2
        BY <1>1, <3>4
      <4>2. q[3 * k + 1 - 1] = "LF"
        BY <1>9, <2>1, <4>1
      <4> QED
        BY <2>2, <3>1, <3>2, <4>2
    <3> QED
      BY <3>3, <3>4
  <2>4. ASSUME NEW j \in J PROVE \E k \in 0..n - 1 : j = 3 * k + 1
    <3>1. j \in 1..3 * n - 2 /\ j \in 1..3 * n /\ (j = 1 \/ q[j - 1] = "LF")
      BY <1>1, <2>2
    <3>2. PICK k \in 0..n - 1 : j = 3 * k + 1 \/ j = 3 * k + 2 \/ j = 3 * k + 3
      BY <1>2, <3>1
    <3>3. CASE j = 3 * k + 2
      <4>1. j - 1 = 3 * k + 1 /\ j # 1 /\ 3 * k + 1 \in 1..3 * n - 2
        BY <1>1, <3>1, <3>3
      <4>2. q[3 * k + 1] = "LF" /\ q[3 * k + 1] = h[k + 1]
        BY <1>9, <2>1, <3>1, <4>1
      <4> QED
        BY <1>6, <1>9, <4>2
    <3>4. CASE j = 3 * k + 3
      <4>1. j - 1 = 3 * k + 2 /\ j # 1 /\ 3 * k + 2 \in 1..3 * n - 2
        BY <1>1, <3>1, <3>4
      <4>2. q[3 * k + 2] = "LF" /\ q[3 * k + 2] = "CR"
        BY <1>9, <2>1, <3>1, <4>1
      <4> QED
        BY <4>2
    <3> QED
      BY <3>2, <3>3, <3>4
  <2>5. Range(h) = {h[k + 1] : k \in 0..n - 1}
    <3>1. DOMAIN h = 1..n
      BY DEF n
    <3>2. \A i \in 1..n : i - 1 \in 0..n - 1 /\ i - 1 + 1 = i
      BY <1>1
    <3>3. \A k \in 0..n - 1 : k + 1 \in 1..n
      BY <1>1
    <3>4. Range(h) = {h[i] : i \in 1..n}
      BY <3>1 DEF Range
    <3> QED
      BY <3>2, <3>3, <3>4
  <2>6. LineStarts(q) = {q[j] : j \in J}
    BY DEF LineStarts
  <2> HIDE DEF J
  <2>7. {q[j] : j \in J} = {h[k + 1] : k \in 0..n - 1}
    BY <2>3, <2>4
  <2> QED
    BY <2>5, <2>6, <2>7 DEF q
<1> DEFINE p == 3 * n - 1
<1>15. p \in Nat \ {0} /\ p + 4 = 3 * n + 2 + 1 /\ p - 1 = 3 * n - 2
  BY <1>1
<1>16. /\ p \in Nat \ {0} /\ Separator(o) = [at |-> p, length |-> 4]
       /\ SubSeq(o, p + 4, Len(o)) = b /\ LineStarts(SubSeq(o, 1, p - 1)) = Range(h)
  <2> HIDE DEF p
  <2>1. Separator(o) = [at |-> p, length |-> 4]
    BY <1>13 DEF p
  <2> QED
    BY <1>8, <1>14, <1>15, <2>1
<1> HIDE DEF p
<1>17. Parsed(o, b, Range(h))
  BY <1>16, ParsedAt
<1> QED
  BY <1>17 DEF Split, Parsed, o

\* However long the header lines and the body of a script's output are, and whichever
\* line end it uses, parse_cgi_output() passes the body on byte for byte, and takes status
\* and headers from the header lines alone.
THEOREM OutputSplits ==
  ASSUME TestHeaders \subseteq Seq(Heads) \ {<<>>}, TestBodies \subseteq Seq(Units)
  PROVE  Spec => []CgiOutputSplit
<1>1. ASSUME NEW h \in TestHeaders, NEW eol \in {CrLf, <<"LF">>}, NEW b \in TestBodies,
             eol = CrLf \/ Find(b, CrLf \o CrLf) = 0
      PROVE  Split(h, eol, b)
  <2>1. h \in Seq(Heads) \ {<<>>} /\ b \in Seq(Units)
    OBVIOUS
  <2>2. CASE eol = CrLf
    BY <2>1, <2>2, SplitCrLf
  <2>3. CASE eol = <<"LF">> /\ Find(b, CrLf \o CrLf) = 0
    BY <2>1, <2>3, SplitLf
  <2> QED
    BY <1>1, <2>2, <2>3
<1>2. CgiOutputSplit
  BY <1>1 DEF CgiOutputSplit, Split
<1> QED
  BY <1>2, PTL
=============================================================================
