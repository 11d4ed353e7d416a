----------------------------- MODULE CgiOutput -----------------------------
(***************************************************************************)
(* What becomes of the output of a script: CgiHandler::parse_cgi_output     *)
(* (http/handlers/cgi_handler.cpp).  The output is a sequence of units:     *)
(* "CR", "LF", "404" for a line "Status: 404 ...", "H" for a header,        *)
(* "T" for Transfer-Encoding, Connection or Content-Length, "x" otherwise.  *)
(***************************************************************************)
EXTENDS Naturals, Sequences, FiniteSets, SequencesExt

\* string::find: the first place of pattern in text, 0 for npos.
Find(text, pattern) ==
  LET at == {i \in 1..Len(text) : IsPrefix(pattern, SubSeq(text, i, Len(text)))}
  IN  IF at = {} THEN 0 ELSE Min(at)

CrLf == <<"CR", "LF">>
InternalServerError == [status |-> 500, headers |-> {}, chunked |-> FALSE, body |-> <<>>]

\* The loop over the lines of the header block: what a line does depends on the
\* unit it starts with.
LineStarts(units) == {units[i] : i \in {j \in DOMAIN units : j = 1 \/ units[j - 1] = "LF"}}

HeaderBlock(units, ok) ==
  [ok EXCEPT !.status = IF "404" \in LineStarts(units) THEN 404 ELSE @,
             !.headers = LineStarts(units) \cap {"H"}]

\* Mutant of Separator: the separator that ends in LF is tried first.
SeparatorLfFirst(cgi_output) ==
  LET lf == Find(cgi_output, <<"LF", "LF">>)
  IN  IF lf # 0 THEN [at |-> lf, length |-> 2]
                ELSE [at |-> Find(cgi_output, CrLf \o CrLf), length |-> 4]

\* The first empty line that ends in CRLF anywhere, or else in LF.
Separator(cgi_output) ==
  LET crlf == Find(cgi_output, CrLf \o CrLf)
  IN  IF crlf # 0 THEN [at |-> crlf, length |-> 4]
                  ELSE [at |-> Find(cgi_output, <<"LF", "LF">>), length |-> 2]

parse_cgi_output(cgi_output) ==
  LET sep == Separator(cgi_output)
      ok == [status |-> 200, headers |-> {}, chunked |-> TRUE,
             body |-> SubSeq(cgi_output, sep.at + sep.length, Len(cgi_output))]
  IN  IF sep.at = 0 THEN InternalServerError
      ELSE HeaderBlock(SubSeq(cgi_output, 1, sep.at - 1), ok)

\* The output of a script that prints these header lines and this body.
Lined(headers, eol) ==
  LET width == 1 + Len(eol)
  IN  [i \in 1..width * Len(headers) |->
         LET k == (i - 1) % width
         IN  IF k = 0 THEN headers[1 + (i - 1) \div width] ELSE eol[k]]

Output(headers, eol, body) == Lined(headers, eol) \o eol \o body
=============================================================================
