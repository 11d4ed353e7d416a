--------------------------- MODULE RequestParser ---------------------------
(***************************************************************************)
(* The incremental HTTP request parser (http/core/request_parser.cpp) as    *)
(* operators on a record, and, independently of it, what requests a byte    *)
(* stream denotes.                                                          *)
(*                                                                          *)
(* A byte stream is a sequence of units.  "CR" and "LF" are those bytes.    *)
(* The first unit of a line decides what the line says and stands for as    *)
(* many bytes as matter; "x" is any other byte.  In a body every unit is    *)
(* one byte, whatever it would mean in a line.                              *)
(***************************************************************************)
EXTENDS Integers, Sequences, SequencesExt, FiniteSetsExt

CONSTANTS MaxLine,    \* MAX_REQUEST_LINE and MAX_HEADER_LINE (both 8192)
          MaxBody     \* MAX_BODY_SIZE

ASSUME MaxLineAssumption == MaxLine \in Nat
ASSUME MaxBodyAssumption == MaxBody \in Nat

\* First units of a request line, and the method they give; GET stands for HEAD
\* and OPTIONS too, which the parser treats alike.  BREW is a well-formed line
\* with an unknown method.
Methods == {"GET", "POST"}

\* First units of a header line: some other header, Connection: close, or
\* Content-Length with a value in range, above MaxBody, negative or not a number.
LengthOf == [CL0 |-> 0, CL1 |-> 1, CL2 |-> 2, CLhuge |-> MaxBody + 1, CLbad |-> -1]
HeaderUnits == {"H", "CC"} \cup DOMAIN LengthOf

Units == Methods \cup HeaderUnits \cup {"BREW", "CR", "LF", "x"}

ParseErrors == {"Ok", "Incomplete", "BadRequest", "MethodNotAllowed", "InvalidRequestLine",
                "InvalidHeader", "PayloadTooLarge"}

NoRequest == [method |-> "none", close |-> FALSE, length |-> 0, body |-> <<>>]

\* A RequestParser as constructed, and after reset().
NewParser == [buffer |-> <<>>, state |-> "RequestLine", request |-> NoRequest,
              error |-> "Ok", remaining |-> 0]

HasRequest(p) == p.state = "Done"
HasError(p) == p.state = "Error"

Fail(p, e) == [p EXCEPT !.state = "Error", !.error = e]

(***************************************************************************)
(* Lines: find_line_end and line_terminator_len.                            *)
(***************************************************************************)
FirstLF(b) == IF \E i \in DOMAIN b : b[i] = "LF" THEN Min({i \in DOMAIN b : b[i] = "LF"}) ELSE 0

\* The line that ends with the LF at position n, without its LF or CRLF.
LineTo(b, n) ==
  IF n > 1 /\ b[n - 1] = "CR" THEN SubSeq(b, 1, n - 2) ELSE SubSeq(b, 1, n - 1)

From(b, n) == SubSeq(b, n, Len(b))

FirstUnit(line) == IF line = <<>> THEN "none" ELSE line[1]

(***************************************************************************)
(* One call of process_request_line, process_headers or process_body.       *)
(***************************************************************************)
ProcessRequestLine(p) ==
  LET n == FirstLF(p.buffer)
      unit == FirstUnit(LineTo(p.buffer, n))
      q == [p EXCEPT !.buffer = From(p.buffer, n + 1)]
  IN  CASE n = 0 -> IF Len(p.buffer) > MaxLine THEN Fail(p, "BadRequest") ELSE p
        [] n > 0 /\ unit \in Methods -> [q EXCEPT !.state = "Headers", !.request.method = unit]
        [] n > 0 /\ unit = "BREW" -> Fail(q, "MethodNotAllowed")
        [] OTHER -> Fail(q, "InvalidRequestLine")

\* Mutant of EndOfHeaders: no cap on the body.
EndOfHeadersUncapped(p) ==
  LET cl == p.request.length
  IN  IF cl < 0 THEN Fail(p, "BadRequest")
      ELSE [p EXCEPT !.remaining = cl,
                     !.state = IF p.request.method = "POST" /\ cl > 0 THEN "Body" ELSE "Done"]

\* The empty line: decide whether a body follows.
EndOfHeaders(p) ==
  LET cl == p.request.length
  IN  CASE cl < 0 -> Fail(p, "BadRequest")
        [] cl > MaxBody -> Fail(p, "PayloadTooLarge")
        [] OTHER ->
             [p EXCEPT !.remaining = cl,
                       !.state = IF p.request.method = "POST" /\ cl > 0 THEN "Body" ELSE "Done"]

\* A later header of the same name replaces an earlier one.
SetHeader(p, unit) ==
  CASE unit = "CC" -> [p EXCEPT !.request.close = TRUE]
    [] unit \in DOMAIN LengthOf -> [p EXCEPT !.request.length = LengthOf[unit]]
    [] OTHER -> p

\* Mutant of ProcessHeaders: an unfinished line may grow without limit.
ProcessHeadersUnlimited(p) ==
  LET n == FirstLF(p.buffer)
      line == LineTo(p.buffer, n)
      q == [p EXCEPT !.buffer = From(p.buffer, n + 1)]
  IN  CASE n = 0 -> p
        [] n > 0 /\ line = <<>> -> EndOfHeaders(q)
        [] n > 0 /\ FirstUnit(line) \in HeaderUnits -> SetHeader(q, FirstUnit(line))
        [] OTHER -> Fail(q, "InvalidHeader")

ProcessHeaders(p) ==
  LET n == FirstLF(p.buffer)
      line == LineTo(p.buffer, n)
      q == [p EXCEPT !.buffer = From(p.buffer, n + 1)]
  IN  CASE n = 0 -> IF Len(p.buffer) > MaxLine THEN Fail(p, "InvalidHeader") ELSE p
        [] n > 0 /\ line = <<>> -> EndOfHeaders(q)
        [] n > 0 /\ FirstUnit(line) \in HeaderUnits -> SetHeader(q, FirstUnit(line))
        [] OTHER -> Fail(q, "InvalidHeader")

\* Mutant of ProcessBody: the body is taken before it is complete.
ProcessBodyEarly(p) ==
  IF p.buffer = <<>> THEN p
  ELSE LET n == Min({p.remaining, Len(p.buffer)})
       IN  [p EXCEPT !.request.body = SubSeq(p.buffer, 1, n),
                     !.buffer = From(p.buffer, n + 1), !.remaining = 0, !.state = "Done"]

\* Mutant of ProcessBody: waits for one byte too many.
ProcessBodyOneMore(p) ==
  IF Len(p.buffer) <= p.remaining THEN p
  ELSE [p EXCEPT !.request.body = SubSeq(p.buffer, 1, p.remaining),
                 !.buffer = From(p.buffer, p.remaining + 1),
                 !.remaining = 0, !.state = "Done"]

ProcessBody(p) ==
  IF Len(p.buffer) < p.remaining THEN p
  ELSE [p EXCEPT !.request.body = SubSeq(p.buffer, 1, p.remaining),
                 !.buffer = From(p.buffer, p.remaining + 1),
                 !.remaining = 0, !.state = "Done"]

ProcessOne(p) ==
  CASE p.state = "RequestLine" -> ProcessRequestLine(p)
    [] p.state = "Headers" -> ProcessHeaders(p)
    [] p.state = "Body" -> ProcessBody(p)
    [] OTHER -> p

\* advance(): until Done, Error or no progress.  Every call that progresses
\* consumes a unit, so that as many calls as there are units are enough.  (Each
\* step is over a set of one parser, which makes TLC evaluate a call once.)
Advance(p) ==
  LET after[n \in 0..Len(p.buffer)] ==
        IF n = 0 THEN {p} ELSE {ProcessOne(q) : q \in after[n - 1]}
  IN  CHOOSE q \in after[Len(p.buffer)] : TRUE

\* feed() drops the data when a request or an error is pending.
Feed(p, data) ==
  IF HasRequest(p) \/ HasError(p) THEN p
  ELSE Advance([p EXCEPT !.buffer = p.buffer \o data])

\* get_request() returns p.request and goes on with the pipelined rest.
AfterGetRequest(p) == Advance([NewParser EXCEPT !.buffer = p.buffer])
-----------------------------------------------------------------------------
(***************************************************************************)
(* What a connection owes its client for the byte stream s, read off the    *)
(* whole stream at once: one answer per complete request, in order, up to a *)
(* request that asks to close or the first error.                           *)
(***************************************************************************)
OkAnswer(r) == [status |-> 200, request |-> [r EXCEPT !.length = 0]]
ErrorAnswer(e) ==
  [status |-> IF e = "PayloadTooLarge" THEN 413 ELSE 400, request |-> NoRequest]

LFs(s) == {i \in DOMAIN s : s[i] = "LF"}

\* The line from position m to the LF at n.
LineIn(s, m, n) == LineTo(SubSeq(s, m, n), n - m + 1)

\* The lines of a header block are those between consecutive LFs.
HeaderAt(s, n) == LineIn(s, Max({0} \cup {k \in LFs(s) : k < n}) + 1, n)

HeadersIn(s, m, n) == {k \in LFs(s) : m < k /\ k < n}

LengthIn(s, m, n) ==
  LET lengths == {k \in HeadersIn(s, m, n) : FirstUnit(HeaderAt(s, k)) \in DOMAIN LengthOf}
  IN  IF lengths = {} THEN 0 ELSE LengthOf[FirstUnit(HeaderAt(s, Max(lengths)))]

ClosesIn(s, m, n) == \E k \in HeadersIn(s, m, n) : FirstUnit(HeaderAt(s, k)) = "CC"

\* Where the line ends that begins at position i.
LineEnd(s, i) == Min({k \in LFs(s) : k >= i} \cup {Len(s) + 1})

\* The blank line, or a line that is no header, after the request line.
BlockEnds(s, m) == {k \in LFs(s) : k > m /\ FirstUnit(HeaderAt(s, k)) \notin HeaderUnits}

\* What the request at position i calls for, and where the next one begins, 0 if
\* there is none.
Reply(answers, next) == [answers |-> answers, next |-> next]

ReplyAt(s, i) ==
  LET reqEnd == LineEnd(s, i)
      method == FirstUnit(LineIn(s, i, reqEnd))
      ends == BlockEnds(s, reqEnd)
      end == Min(ends)
      cl == LengthIn(s, reqEnd, end)
      bodyLen == IF method = "POST" THEN cl ELSE 0
      close == ClosesIn(s, reqEnd, end)
      ok == OkAnswer([method |-> method, close |-> close, length |-> 0,
                      body |-> SubSeq(s, end + 1, end + bodyLen)])
  IN  CASE reqEnd > Len(s) -> Reply(<<>>, 0)
        [] reqEnd <= Len(s) /\ method \notin Methods -> Reply(<<ErrorAnswer("BadRequest")>>, 0)
        [] OTHER ->
             IF ends = {} THEN Reply(<<>>, 0)
             ELSE IF HeaderAt(s, end) # <<>> \/ cl < 0 THEN Reply(<<ErrorAnswer("BadRequest")>>, 0)
             ELSE IF cl > MaxBody THEN Reply(<<ErrorAnswer("PayloadTooLarge")>>, 0)
             ELSE IF end + bodyLen > Len(s) THEN Reply(<<>>, 0)
             ELSE Reply(<<ok>>, IF close THEN 0 ELSE end + bodyLen + 1)

AnswersFrom(s) ==
  LET from[i \in 1..(Len(s) + 1)] ==
        LET r == ReplyAt(s, i)
        IN  r.answers \o (IF r.next = 0 THEN <<>> ELSE from[r.next])
  IN  from

Answers(s) == AnswersFrom(s)[1]

\* Some MaxLine + 1 units without a newline: only then may a limit strike.
HasLongLine(s) ==
  \E i \in DOMAIN s : i + MaxLine <= Len(s) /\ \A k \in i..(i + MaxLine) : s[k] # "LF"
=============================================================================
