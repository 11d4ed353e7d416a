----------------------------- MODULE StaticFile -----------------------------
(***************************************************************************)
(* The decisions of StaticFileHandler (http/handlers/static_file_handler)   *)
(* that read nothing but the request and the result of stat(): ranges,      *)
(* conditional requests and Accept.                                         *)
(***************************************************************************)
EXTENDS Integers, Sequences, FiniteSets

CONSTANT SizeMax      \* SIZE_MAX
ASSUME SizeMaxAssumption == SizeMax \in Nat \ {0}

(***************************************************************************)
(* Range.  A header is [form, start, end]: the form is "bytes" if it starts *)
(* with the prefix and has a dash; a number is <<>> if it is missing, <<n>>  *)
(* if its text starts with n, and <<SizeMax + 1>> if it starts otherwise,   *)
(* since std::stoull throws on both.                                        *)
(***************************************************************************)
NoRange == [form |-> "none", start |-> <<>>, end |-> <<>>]
Numbers == {text \in Seq(Int) : Len(text) <= 1}
\* Those without a sign.
Unsigned == {text \in Seq(Nat) : Len(text) <= 1}
Headers(numbers) == [form : {"bytes", "other", "none"}, start : numbers, end : numbers]
InvalidRange == [valid |-> FALSE, start |-> 0, end |-> 0]

\* std::stoull: out of range is an exception, "-n" wraps.
StoullThrows(text) == text # <<>> /\ text[1] \notin -SizeMax..SizeMax
Stoull(text) == text[1] % (SizeMax + 1)

\* parse_range throws, and nobody catches it.
RangeThrows(header) ==
  header.form = "bytes" /\ (StoullThrows(header.start) \/ StoullThrows(header.end))

LastByte(file_size) == IF file_size > 0 THEN file_size - 1 ELSE 0

RangeStart(header, file_size) ==
  IF header.start # <<>> THEN Stoull(header.start)
  ELSE IF Stoull(header.end) >= file_size THEN 0 ELSE file_size - Stoull(header.end)

\* Mutant of RangeEnd: "bytes=-N" reads N as the last byte.
RangeEndOfSuffix(header, file_size) ==
  IF header.end = <<>> THEN LastByte(file_size) ELSE Stoull(header.end)

RangeEnd(header, file_size) ==
  IF header.start = <<>> \/ header.end = <<>> THEN LastByte(file_size) ELSE Stoull(header.end)

parse_range(header, file_size) ==
  IF header.form # "bytes" \/ (header.start = <<>> /\ header.end = <<>>) THEN InvalidRange
  ELSE LET start == RangeStart(header, file_size)
           end == RangeEnd(header, file_size)
       IN  IF start > end \/ end >= file_size THEN InvalidRange
           ELSE [valid |-> TRUE, start |-> start, end |-> end]

\* The reference: the bytes of a file that a header with unsigned numbers names.
Named(header, file_size) ==
  {i \in 0..file_size - 1 :
     IF header.start = <<>> THEN header.end # <<>> /\ i >= file_size - header.end[1]
     ELSE i >= header.start[1] /\ (header.end = <<>> \/ i <= header.end[1])}

(***************************************************************************)
(* Conditional requests, and Accept as a sequence of media ranges.           *)
(***************************************************************************)
NoEtag == [ino |-> 0, size |-> 0, mtime |-> 0]

\* Mutant of Etag: without the time.
EtagWithoutTime(st) == [ino |-> st.ino, size |-> Len(st.bytes), mtime |-> 0]

Etag(st) == [ino |-> st.ino, size |-> Len(st.bytes), mtime |-> st.mtime]

\* Each header may make it a 304; a date is the set of its one value or empty.
NotModified(if_none_match, if_modified_since, st, now) ==
  \/ if_none_match = Etag(st)
  \/ \E t \in if_modified_since : t <= now /\ st.mtime <= t

\* A media range is [type, sub], with "*" for any; a file is text/html.
Admits(range) ==
  \/ range.type = "*" /\ range.sub = "*"
  \/ range.type = "text" /\ range.sub \in {"html", "*"}

check_accept(accept) == accept = <<>> \/ \E i \in DOMAIN accept : Admits(accept[i])
=============================================================================
