---------------------------- MODULE ParserProofs ----------------------------
(***************************************************************************)
(* What the parser of RequestParser keeps to, whatever the stream: the      *)
(* types of its state, that advance() goes on until no call of process_*    *)
(* makes progress any more, and that the parser, fed a stream piece by      *)
(* piece, arrives at the requests and errors which the reference definition *)
(* (Answers) reads off the stream at once.                                  *)
(*                                                                          *)
(* Advance is a recursive function over the number of calls; facts about it *)
(* rest on the first section, induction on a number by way of its least     *)
(* counterexample.                                                          *)
(***************************************************************************)
EXTENDS RequestParser, TLAPS, WellFoundedInduction, FunctionTheorems, SequenceTheorems

(***************************************************************************)
(* Recursion over the natural numbers.                                      *)
(***************************************************************************)
LEMMA LeastNumber ==
  ASSUME NEW S, S \subseteq Nat, S # {}
  PROVE  \E n \in S : \A m \in S : n <= m
<1> DEFINE R == {r \in Nat \X Nat : r[1] < r[2]}
<1>1. IsWellFoundedOn(R, Nat)
  BY NatLessThanWellFounded DEF OpToRel
<1>2. PICK n \in S : \A m \in S : ~ (<<m, n>> \in R)
  BY <1>1, WFMin
<1>3. ASSUME NEW m \in S PROVE n <= m
  <2>1. m \in Nat /\ n \in Nat /\ ~(<<m, n>> \in R)
    BY <1>2
  <2> QED
    BY <2>1
<1> QED
  BY <1>2, <1>3

\* A set with 0, and with the successor of each of its numbers below N, has all
\* numbers up to N.
LEMMA UpTo ==
  ASSUME NEW N \in Nat, NEW T, 0 \in T, \A n \in 1..N : n - 1 \in T => n \in T
  PROVE  \A n \in 0..N : n \in T
<1>1. SUFFICES ASSUME NEW n \in 0..N, n \notin T PROVE FALSE
  OBVIOUS
<1> DEFINE S == {m \in 0..N : m \notin T}
<1>2. PICK m \in S : \A k \in S : m <= k
  <2>1. n \in S /\ S \subseteq Nat
    BY <1>1
  <2> QED
    BY <2>1, LeastNumber
<1>3. m # 0 /\ m \in 1..N
  BY <1>2
<1>4. m - 1 \notin S
  BY <1>2, <1>3
<1> QED
  BY <1>2, <1>3, <1>4

\* g gives what up to N applications of F make of x.
Iterates(g, S, F, x, N) ==
  g \in [0..N -> S] /\ g[0] = x /\ \A n \in 1..N : g[n] = F[g[n - 1]]

\* There is such a function.
LEMMA Iterated ==
  ASSUME NEW S, NEW F \in [S -> S], NEW x \in S, NEW N \in Nat
  PROVE  \E g : Iterates(g, S, F, x, N)
<1> DEFINE Good(g, n) == g[0] = x /\ \A m \in 1..n : g[m] = F[g[m - 1]]
           T == {n \in 0..N : \E g \in [0..n -> S] : Good(g, n)}
<1>1. 0 \in T
  <2>1. [m \in 0..0 |-> x] \in [0..0 -> S] /\ Good([m \in 0..0 |-> x], 0)
    OBVIOUS
  <2>2. \E g \in [0..0 -> S] : Good(g, 0)
    <3> HIDE DEF Good
    <3> QED
      BY <2>1
  <2> QED
    BY <2>2
<1>2. ASSUME NEW n \in 1..N, n - 1 \in T PROVE n \in T
  <2>1. PICK g \in [0..(n - 1) -> S] : Good(g, n - 1)
    BY <1>2
  <2> DEFINE h == [m \in 0..n |-> IF m = n THEN F[g[n - 1]] ELSE g[m]]
  <2>2. h \in [0..n -> S]
    <3>1. F[g[n - 1]] \in S
      BY <2>1
    <3>2. \A m \in 0..n : m # n => m \in 0..(n - 1)
      OBVIOUS
    <3> QED
      BY <2>1, <3>1, <3>2
  <2>3. h[0] = x
    BY <2>1
  <2>4. ASSUME NEW m \in 1..n PROVE h[m] = F[h[m - 1]]
    <3>1. m - 1 \in 0..n /\ m - 1 # n /\ m \in 0..n
      OBVIOUS
    <3>2. h[m - 1] = g[m - 1]
      BY <3>1
    <3>3. CASE m = n
      BY <3>1, <3>2, <3>3
    <3>4. CASE m # n
      <4>1. m \in 1..(n - 1) /\ h[m] = g[m]
        BY <3>1, <3>4
      <4> QED
        BY <2>1, <3>2, <4>1
    <3> QED
      BY <3>3, <3>4
  <2>5. Good(h, n)
    BY <2>3, <2>4
  <2>6. \E k \in [0..n -> S] : Good(k, n)
    <3> HIDE DEF Good, h
    <3> QED
      BY <2>2, <2>5
  <2> QED
    BY <2>6
<1>3. \A n \in 0..N : n \in T
  <2> HIDE DEF T
  <2> QED
    BY <1>1, <1>2, UpTo
<1>4. N \in T
  BY <1>3
<1> QED
  BY <1>4 DEF Iterates

(***************************************************************************)
(* The helpers on lines.                                                    *)
(***************************************************************************)
LEMMA LowestMember ==
  ASSUME NEW S, S \subseteq Nat, S # {}
  PROVE  Min(S) \in S /\ \A m \in S : Min(S) <= m
<1>1. PICK n \in S : \A m \in S : n <= m
  BY LeastNumber
<1> QED
  BY <1>1 DEF Min

LEMMA GreaterOfTwo ==
  ASSUME NEW a \in Int, NEW b \in Int
  PROVE  Max({a, b}) \in {a, b} /\ a <= Max({a, b}) /\ b <= Max({a, b})
<1>1. \E x \in {a, b} : \A y \in {a, b} : x >= y
  OBVIOUS
<1> QED
  BY <1>1 DEF Max

\* The first LF, if there is one.
LEMMA FirstLFIsFirst ==
  ASSUME NEW S, NEW b \in Seq(S)
  PROVE  /\ FirstLF(b) \in 0..Len(b)
         /\ (FirstLF(b) = 0 <=> \A i \in DOMAIN b : b[i] # "LF")
         /\ (FirstLF(b) # 0 => b[FirstLF(b)] = "LF")
         /\ \A i \in 1..(FirstLF(b) - 1) : b[i] # "LF"
<1> DEFINE I == {i \in DOMAIN b : b[i] = "LF"}
<1>1. I \subseteq Nat /\ DOMAIN b = 1..Len(b) /\ Len(b) \in Nat
  OBVIOUS
<1>2. CASE I = {}
  BY <1>1, <1>2 DEF FirstLF
<1>3. CASE I # {}
  <2>1. Min(I) \in I /\ \A m \in I : Min(I) <= m
    BY <1>1, <1>3, LowestMember
  <2>2. FirstLF(b) = Min(I)
    BY <1>3 DEF FirstLF
  <2> HIDE DEF I
  <2>3. FirstLF(b) \in DOMAIN b /\ b[FirstLF(b)] = "LF" /\ FirstLF(b) \in 1..Len(b)
    BY <1>1, <2>1, <2>2 DEF I
  <2>4. ASSUME NEW i \in 1..(FirstLF(b) - 1) PROVE b[i] # "LF"
    <3>1. i \in DOMAIN b /\ ~(FirstLF(b) <= i)
      BY <1>1, <2>3
    <3> QED
      BY <2>1, <2>2, <3>1 DEF I
  <2> QED
    BY <1>1, <2>3, <2>4
<1> QED
  BY <1>2, <1>3

\* What is left of the buffer after its first n units.
LEMMA FromIsShorter ==
  ASSUME NEW S, NEW b \in Seq(S), NEW n \in 0..Len(b)
  PROVE  From(b, n + 1) \in Seq(S) /\ Len(From(b, n + 1)) = Len(b) - n
<1>1. n + 1 \in 1..(Len(b) + 1)
  OBVIOUS
<1> QED
  BY <1>1, SubSeqProperties DEF From

(***************************************************************************)
(* One call of process_*, and advance().                                    *)
(***************************************************************************)
Requests == [method : Methods \cup {"none"}, close : BOOLEAN, length : Int, body : Seq(Units)]

\* The parsers there can be: process_body is only reached with a body to read.
Parsers ==
  {p \in [buffer : Seq(Units), state : {"RequestLine", "Headers", "Body", "Done", "Error"},
          request : Requests, error : ParseErrors, remaining : 0..MaxBody] :
     p.state = "Body" => p.remaining > 0}

\* No call makes progress.
Stuck(p) == ProcessOne(p) = p

LEMMA NewIsParser ==
  ASSUME NEW b \in Seq(Units)
  PROVE  /\ [NewParser EXCEPT !.buffer = b] \in Parsers
         /\ [NewParser EXCEPT !.buffer = b].buffer = b
<1>1. MaxBody \in Nat /\ <<>> \in Seq(Units)
  BY MaxBodyAssumption
<1>2. NewParser.request \in Requests
  BY <1>1 DEF NewParser, NoRequest, Requests
<1> QED
  BY <1>1, <1>2 DEF NewParser, Parsers, ParseErrors

\* What a call does: nothing, or it ends the request or takes units off the buffer.
Moves(p, q) ==
  /\ q \in Parsers
  /\ q = p \/ q.state \in {"Done", "Error"} \/ Len(q.buffer) < Len(p.buffer)

LEMMA FailMoves ==
  ASSUME NEW p \in Parsers, NEW e \in ParseErrors
  PROVE  Fail(p, e) \in Parsers /\ Fail(p, e).state = "Error" /\ Fail(p, e).buffer = p.buffer
  BY DEF Fail, Parsers

LEMMA RequestLineMoves ==
  ASSUME NEW p \in Parsers, p.state = "RequestLine"
  PROVE  Moves(p, ProcessRequestLine(p)) /\ (FirstLF(p.buffer) # 0 => ProcessRequestLine(p) # p)
<1> DEFINE n == FirstLF(p.buffer)
           unit == FirstUnit(LineTo(p.buffer, n))
           rest == From(p.buffer, n + 1)
           q == [p EXCEPT !.buffer = rest]
<1>1. p.buffer \in Seq(Units) /\ n \in 0..Len(p.buffer) /\ Len(p.buffer) \in Nat
  BY FirstLFIsFirst DEF Parsers
<1>2. CASE n = 0
  <2>1. ProcessRequestLine(p) \in {p, Fail(p, "BadRequest")}
    BY <1>2 DEF ProcessRequestLine
  <2>2. Fail(p, "BadRequest") \in Parsers /\ Fail(p, "BadRequest").state = "Error"
    BY <1>1, FailMoves DEF ParseErrors
  <2> QED
    BY <1>2, <2>1, <2>2 DEF Moves
<1>3. CASE n # 0
  <2>1. rest \in Seq(Units) /\ Len(rest) < Len(p.buffer)
    BY <1>1, <1>3, FromIsShorter
  <2>2. \/ /\ unit \in Methods
           /\ ProcessRequestLine(p) = [q EXCEPT !.state = "Headers", !.request.method = unit]
        \/ ProcessRequestLine(p) \in {Fail(q, "MethodNotAllowed"), Fail(q, "InvalidRequestLine")}
    <3> HIDE DEF n, unit, rest
    <3>1. n > 0
      BY <1>1, <1>3
    <3> QED
      BY <1>3, <3>1 DEF ProcessRequestLine, n, unit, rest
  <2> HIDE DEF n, unit, rest
  <2>0. q \in Parsers
    BY <2>1 DEF Parsers
  <2>3. unit \in Methods => [q EXCEPT !.state = "Headers", !.request.method = unit] \in Parsers
    BY <2>1 DEF Parsers, Requests
  <2>4. [q EXCEPT !.state = "Headers", !.request.method = unit].buffer = rest
    BY DEF Parsers
  <2>5. /\ Fail(q, "MethodNotAllowed") \in Parsers
        /\ Fail(q, "MethodNotAllowed").state = "Error"
        /\ Fail(q, "InvalidRequestLine") \in Parsers
        /\ Fail(q, "InvalidRequestLine").state = "Error"
    BY <2>0, FailMoves DEF ParseErrors
  <2> QED
    <3>1. Moves(p, ProcessRequestLine(p))
      BY <1>1, <2>1, <2>2, <2>3, <2>4, <2>5 DEF Moves
    <3>2. ProcessRequestLine(p).buffer = rest \/ ProcessRequestLine(p).state = "Error"
      BY <2>2, <2>4, <2>5
    <3>3. ProcessRequestLine(p) # p
      BY <1>1, <2>1, <3>2
    <3> QED
      BY <3>1, <3>3
<1> QED
  BY <1>2, <1>3

LEMMA EndOfHeadersMoves ==
  ASSUME NEW p \in Parsers, p.state = "Headers"
  PROVE  EndOfHeaders(p) \in Parsers /\ EndOfHeaders(p).buffer = p.buffer
<1> DEFINE cl == p.request.length
<1>1. cl \in Int /\ MaxBody \in Nat
  BY MaxBodyAssumption DEF Parsers, Requests
<1>2. CASE cl < 0
  <2>1. EndOfHeaders(p) = Fail(p, "BadRequest")
    BY <1>1, <1>2 DEF EndOfHeaders
  <2> QED
    BY <2>1, FailMoves DEF ParseErrors
<1>3. CASE cl > MaxBody
  <2>1. EndOfHeaders(p) = Fail(p, "PayloadTooLarge")
    BY <1>1, <1>3 DEF EndOfHeaders
  <2> QED
    BY <2>1, FailMoves DEF ParseErrors
<1>4. CASE cl \in 0..MaxBody
  <2>1. EndOfHeaders(p)
          = [p EXCEPT !.remaining = cl,
                      !.state = IF p.request.method = "POST" /\ cl > 0 THEN "Body" ELSE "Done"]
    BY <1>1, <1>4 DEF EndOfHeaders
  <2> QED
    BY <1>4, <2>1 DEF Parsers
<1> QED
  BY <1>1, <1>2, <1>3, <1>4

LEMMA SetHeaderMoves ==
  ASSUME NEW p \in Parsers, p.state = "Headers", NEW unit
  PROVE  /\ SetHeader(p, unit) \in Parsers
         /\ SetHeader(p, unit).buffer = p.buffer
         /\ SetHeader(p, unit).state = "Headers"
         /\ SetHeader(p, unit).request.body = p.request.body
<1>1. CASE unit = "CC"
  <2>1. SetHeader(p, unit) = [p EXCEPT !.request.close = TRUE]
    BY <1>1 DEF SetHeader, LengthOf
  <2>2. [p.request EXCEPT !.close = TRUE] \in Requests
    BY DEF Parsers, Requests
  <2>3. SetHeader(p, unit) \in Parsers
    BY <2>1, <2>2 DEF Parsers
  <2> QED
    BY <2>1, <2>3 DEF Parsers, Requests
<1>2. CASE unit \in DOMAIN LengthOf
  <2>1. LengthOf[unit] \in Int
    BY <1>2, MaxBodyAssumption DEF LengthOf
  <2>2. SetHeader(p, unit) = [p EXCEPT !.request.length = LengthOf[unit]]
    BY <1>2 DEF SetHeader, LengthOf
  <2> QED
    BY <2>1, <2>2 DEF Parsers, Requests
<1>3. CASE unit # "CC" /\ unit \notin DOMAIN LengthOf
  BY <1>3 DEF SetHeader
<1> QED
  BY <1>1, <1>2, <1>3

LEMMA HeadersMove ==
  ASSUME NEW p \in Parsers, p.state = "Headers"
  PROVE  Moves(p, ProcessHeaders(p)) /\ (FirstLF(p.buffer) # 0 => ProcessHeaders(p) # p)
<1> DEFINE n == FirstLF(p.buffer)
           line == LineTo(p.buffer, n)
           rest == From(p.buffer, n + 1)
           q == [p EXCEPT !.buffer = rest]
<1>1. p.buffer \in Seq(Units) /\ n \in 0..Len(p.buffer) /\ Len(p.buffer) \in Nat
  BY FirstLFIsFirst DEF Parsers
<1>2. CASE n = 0
  <2>1. ProcessHeaders(p) \in {p, Fail(p, "InvalidHeader")}
    BY <1>2 DEF ProcessHeaders
  <2>2. Fail(p, "InvalidHeader") \in Parsers /\ Fail(p, "InvalidHeader").state = "Error"
    BY FailMoves DEF ParseErrors
  <2> QED
    BY <1>2, <2>1, <2>2 DEF Moves
<1>3. CASE n # 0
  <2>1. rest \in Seq(Units) /\ Len(rest) < Len(p.buffer)
    BY <1>1, <1>3, FromIsShorter
  <2>2. ProcessHeaders(p) \in {EndOfHeaders(q), SetHeader(q, FirstUnit(line)),
                               Fail(q, "InvalidHeader")}
    <3> HIDE DEF n, line, rest
    <3>1. n > 0
      BY <1>1, <1>3
    <3> QED
      BY <1>3, <3>1 DEF ProcessHeaders, n, line, rest
  <2> HIDE DEF n, line, rest
  <2>3. q \in Parsers /\ q.state = "Headers" /\ q.buffer = rest
    BY <2>1 DEF Parsers
  <2>4. Fail(q, "InvalidHeader") \in Parsers /\ Fail(q, "InvalidHeader").state = "Error"
    BY <2>3, FailMoves DEF ParseErrors
  <2>5. EndOfHeaders(q) \in Parsers /\ EndOfHeaders(q).buffer = rest
    BY <2>3, EndOfHeadersMoves
  <2>6. /\ SetHeader(q, FirstUnit(line)) \in Parsers
        /\ SetHeader(q, FirstUnit(line)).buffer = rest
    BY <2>3, SetHeaderMoves
  <2> QED
    BY <1>1, <2>1, <2>2, <2>4, <2>5, <2>6 DEF Moves
<1> QED
  BY <1>2, <1>3

LEMMA BodyMoves ==
  ASSUME NEW p \in Parsers, p.state = "Body"
  PROVE  Moves(p, ProcessBody(p))
<1>1. /\ p.buffer \in Seq(Units) /\ Len(p.buffer) \in Nat /\ MaxBody \in Nat
      /\ p.remaining \in 0..MaxBody
  BY MaxBodyAssumption DEF Parsers
<1>2. CASE Len(p.buffer) < p.remaining
  BY <1>2 DEF ProcessBody, Moves
<1>3. CASE Len(p.buffer) >= p.remaining
  <2> DEFINE body == SubSeq(p.buffer, 1, p.remaining)
             rest == From(p.buffer, p.remaining + 1)
  <2>1. body \in Seq(Units)
    BY <1>1, <1>3, SubSeqProperties
  <2>2. rest \in Seq(Units)
    BY <1>1, <1>3, FromIsShorter
  <2>3. ProcessBody(p) = [p EXCEPT !.request.body = body, !.buffer = rest,
                                   !.remaining = 0, !.state = "Done"]
    BY <1>1, <1>3 DEF ProcessBody
  <2> HIDE DEF body, rest
  <2>4. [p.request EXCEPT !.body = body] \in Requests
    BY <2>1 DEF Parsers, Requests
  <2>5. ProcessBody(p) = [buffer |-> rest, state |-> "Done", error |-> p.error, remaining |-> 0,
                          request |-> [p.request EXCEPT !.body = body]]
    BY <2>3 DEF Parsers
  <2> QED
    BY <1>1, <2>2, <2>4, <2>5 DEF Moves, Parsers
<1> QED
  BY <1>1, <1>2, <1>3

LEMMA ProcessOneMoves ==
  ASSUME NEW p \in Parsers
  PROVE  Moves(p, ProcessOne(p))
<1>1. CASE p.state = "RequestLine"
  BY <1>1, RequestLineMoves DEF ProcessOne
<1>2. CASE p.state = "Headers"
  BY <1>2, HeadersMove DEF ProcessOne
<1>3. CASE p.state = "Body"
  BY <1>3, BodyMoves DEF ProcessOne
<1>4. CASE p.state \in {"Done", "Error"}
  BY <1>4 DEF ProcessOne, Moves
<1> QED
  BY <1>1, <1>2, <1>3, <1>4 DEF Parsers

\* advance() is a number of calls, one after the other.
LEMMA AdvanceRuns ==
  ASSUME NEW p \in Parsers
  PROVE  \E g \in [0..Len(p.buffer) -> Parsers] :
            /\ g[0] = p /\ Advance(p) = g[Len(p.buffer)]
            /\ \A n \in 1..Len(p.buffer) : g[n] = ProcessOne(g[n - 1])
<1> DEFINE L == Len(p.buffer)
           F == [q \in Parsers |-> ProcessOne(q)]
           Body(f) == [n \in 0..L |-> IF n = 0 THEN {p} ELSE {ProcessOne(q) : q \in f[n - 1]}]
           after == CHOOSE f : f = Body(f)
<1>1. L \in Nat
  BY DEF Parsers
<1>2. F \in [Parsers -> Parsers]
  BY ProcessOneMoves DEF Moves
<1>3. PICK g \in [0..L -> Parsers] : g[0] = p /\ \A n \in 1..L : g[n] = F[g[n - 1]]
  <2> HIDE DEF F, L
  <2>1. \E g : Iterates(g, Parsers, F, p, L)
    BY <1>1, <1>2, Iterated
  <2> QED
    BY <2>1 DEF Iterates
<1>4. \A n \in 1..L : g[n] = ProcessOne(g[n - 1])
  <2>1. ASSUME NEW n \in 1..L PROVE g[n - 1] \in Parsers
    BY <1>1, <1>3
  <2> QED
    BY <1>3, <2>1
<1>5. after = Body(after)
  <2> DEFINE h == [n \in 0..L |-> {g[n]}]
  <2>1. h = Body(h)
    <3>1. ASSUME NEW n \in 0..L
          PROVE  h[n] = IF n = 0 THEN {p} ELSE {ProcessOne(q) : q \in h[n - 1]}
      <4>1. CASE n = 0
        BY <1>3, <4>1
      <4>2. CASE n # 0
        <5>1. n \in 1..L /\ n - 1 \in 0..L
          BY <1>1, <4>2
        <5>2. h[n - 1] = {g[n - 1]} /\ h[n] = {g[n]} /\ g[n] = ProcessOne(g[n - 1])
          BY <1>4, <5>1
        <5>3. {ProcessOne(q) : q \in h[n - 1]} = {ProcessOne(g[n - 1])}
          BY <5>2
        <5> QED
          BY <4>2, <5>2, <5>3
      <4> QED
        BY <4>1, <4>2
    <3> QED
      BY <3>1
  <2>2. \E f : f = Body(f)
    <3> HIDE DEF h, Body
    <3> QED
      BY <2>1
  <2> QED
    BY <2>2
<1>6. \A n \in 0..L : after[n] = {g[n]}
  <2> DEFINE T == {n \in 0..L : after[n] = {g[n]}}
  <2> HIDE DEF after
  <2>1. 0 \in T
    BY <1>1, <1>3, <1>5
  <2>2. ASSUME NEW n \in 1..L, n - 1 \in T PROVE n \in T
    <3>1. n \in 0..L /\ n # 0
      BY <1>1
    <3>2. after[n] = {ProcessOne(q) : q \in after[n - 1]}
      BY <1>5, <3>1
    <3>3. after[n - 1] = {g[n - 1]}
      BY <2>2
    <3>4. {ProcessOne(q) : q \in after[n - 1]} = {ProcessOne(g[n - 1])}
      BY <3>3
    <3> QED
      BY <1>4, <3>1, <3>2, <3>4
  <2> HIDE DEF T
  <2>3. \A n \in 0..L : n \in T
    BY <1>1, <2>1, <2>2, UpTo
  <2> QED
    BY <2>3 DEF T
<1>7. Advance(p) = CHOOSE q \in after[L] : TRUE
  BY DEF Advance
<1>8. Advance(p) = g[L]
  <2> HIDE DEF after
  <2>1. after[L] = {g[L]}
    BY <1>1, <1>6
  <2> QED
    BY <1>7, <2>1
<1> QED
  BY <1>3, <1>4, <1>8

\* An empty buffer gives nothing to do.
LEMMA EmptyStuck ==
  ASSUME NEW p \in Parsers, p.buffer = <<>>
  PROVE  Stuck(p)
<1>1. FirstLF(p.buffer) = 0 /\ Len(p.buffer) = 0 /\ MaxLine \in Nat
  BY MaxLineAssumption DEF FirstLF
<1>2. CASE p.state = "RequestLine"
  BY <1>1, <1>2 DEF Stuck, ProcessOne, ProcessRequestLine
<1>3. CASE p.state = "Headers"
  BY <1>1, <1>3 DEF Stuck, ProcessOne, ProcessHeaders
<1>4. CASE p.state = "Body"
  <2>1. p.remaining \in Nat /\ p.remaining > 0
    BY <1>4, MaxBodyAssumption DEF Parsers
  <2> QED
    BY <1>1, <1>4, <2>1 DEF Stuck, ProcessOne, ProcessBody
<1>5. CASE p.state \in {"Done", "Error"}
  BY <1>5 DEF Stuck, ProcessOne
<1> QED
  BY <1>2, <1>3, <1>4, <1>5 DEF Parsers

\* After advance() no call makes progress.
LEMMA AdvanceStops ==
  ASSUME NEW p \in Parsers
  PROVE  Advance(p) \in Parsers /\ Stuck(Advance(p))
<1> DEFINE L == Len(p.buffer)
<1>1. L \in Nat
  BY DEF Parsers
<1>2. PICK g \in [0..L -> Parsers] :
        /\ g[0] = p /\ Advance(p) = g[L]
        /\ \A n \in 1..L : g[n] = ProcessOne(g[n - 1])
  BY AdvanceRuns
<1> DEFINE T == {n \in 0..L : Stuck(g[n]) \/ Len(g[n].buffer) <= L - n}
<1>3. 0 \in T
  BY <1>1, <1>2
<1>4. ASSUME NEW n \in 1..L, n - 1 \in T PROVE n \in T
  <2>1. n \in 0..L /\ n - 1 \in 0..L /\ L - (n - 1) = (L - n) + 1
    BY <1>1
  <2>2. g[n] = ProcessOne(g[n - 1]) /\ g[n] \in Parsers /\ g[n - 1] \in Parsers
    BY <1>2, <2>1
  <2>3. Moves(g[n - 1], g[n])
    BY <2>2, ProcessOneMoves
  <2>4. CASE g[n] = g[n - 1]
    BY <2>1, <2>2, <2>4 DEF Stuck
  <2>5. CASE g[n].state \in {"Done", "Error"}
    BY <2>1, <2>5 DEF Stuck, ProcessOne
  <2>6. CASE g[n] # g[n - 1] /\ Len(g[n].buffer) < Len(g[n - 1].buffer)
    <3>1. Len(g[n - 1].buffer) <= L - (n - 1)
      BY <1>4, <2>2, <2>6 DEF Stuck
    <3>2. Len(g[n].buffer) \in Nat /\ Len(g[n - 1].buffer) \in Nat
      BY <2>2 DEF Parsers
    <3> QED
      BY <1>1, <2>1, <2>6, <3>1, <3>2
  <2> QED
    BY <2>3, <2>4, <2>5, <2>6 DEF Moves
<1>5. L \in T
  <2>1. \A n \in 0..L : n \in T
    <3> HIDE DEF T
    <3> QED
      BY <1>1, <1>3, <1>4, UpTo
  <2> QED
    BY <1>1, <2>1
<1>6. g[L] \in Parsers
  BY <1>1, <1>2
<1>7. CASE Len(g[L].buffer) <= 0
  <2>1. g[L].buffer = <<>>
    BY <1>6, <1>7 DEF Parsers
  <2>2. Stuck(g[L])
    BY <1>6, <2>1, EmptyStuck
  <2> QED
    BY <1>2, <1>6, <2>2
<1> QED
  BY <1>1, <1>2, <1>5, <1>6, <1>7

\* A parser that waits has no whole line or no whole body, and a line is not too long.
LEMMA StuckWaits ==
  ASSUME NEW p \in Parsers, Stuck(p)
  PROVE  /\ p.state \in {"RequestLine", "Headers"} =>
              FirstLF(p.buffer) = 0 /\ Len(p.buffer) <= MaxLine
         /\ p.state = "Body" => Len(p.buffer) < p.remaining
<1>1. /\ Len(p.buffer) \in Nat /\ MaxLine \in Nat /\ MaxBody \in Nat
      /\ p.remaining \in 0..MaxBody
  BY MaxLineAssumption, MaxBodyAssumption DEF Parsers
<1>2. CASE p.state = "RequestLine"
  <2>1. ProcessOne(p) = ProcessRequestLine(p)
    BY <1>2 DEF ProcessOne
  <2>2. FirstLF(p.buffer) = 0
    BY <1>2, <2>1, RequestLineMoves DEF Stuck
  <2>3. Len(p.buffer) > MaxLine => ProcessOne(p) = Fail(p, "BadRequest")
    BY <2>1, <2>2 DEF ProcessRequestLine
  <2>4. Fail(p, "BadRequest") # p
    BY <1>2 DEF Fail, Parsers
  <2> QED
    BY <1>1, <1>2, <2>2, <2>3, <2>4 DEF Stuck
<1>3. CASE p.state = "Headers"
  <2>1. ProcessOne(p) = ProcessHeaders(p)
    BY <1>3 DEF ProcessOne
  <2>2. FirstLF(p.buffer) = 0
    BY <1>3, <2>1, HeadersMove DEF Stuck
  <2>3. Len(p.buffer) > MaxLine => ProcessOne(p) = Fail(p, "InvalidHeader")
    BY <2>1, <2>2 DEF ProcessHeaders
  <2>4. Fail(p, "InvalidHeader") # p
    BY <1>3 DEF Fail, Parsers
  <2> QED
    BY <1>1, <1>3, <2>2, <2>3, <2>4 DEF Stuck
<1>4. CASE p.state = "Body"
  <2>1. Len(p.buffer) >= p.remaining => ProcessOne(p).state = "Done"
    BY <1>1, <1>4 DEF ProcessOne, ProcessBody, Parsers
  <2> QED
    BY <1>1, <1>4, <2>1 DEF Stuck
<1> QED
  BY <1>2, <1>3, <1>4

\* It holds less than the longest line or the largest body.
LEMMA StuckIsBounded ==
  ASSUME NEW p \in Parsers, Stuck(p), p.state \notin {"Done", "Error"}
  PROVE  Len(p.buffer) <= Max({MaxLine, MaxBody})
<1>1. /\ Len(p.buffer) \in Nat /\ MaxLine \in Nat /\ MaxBody \in Nat
      /\ p.remaining \in 0..MaxBody
  BY MaxLineAssumption, MaxBodyAssumption DEF Parsers
<1>2. Len(p.buffer) <= MaxLine \/ Len(p.buffer) <= MaxBody
  BY <1>1, StuckWaits DEF Parsers
<1>3. MaxLine \in Int /\ MaxBody \in Int
  BY <1>1
<1>4. Max({MaxLine, MaxBody}) \in {MaxLine, MaxBody}
  BY <1>3, GreaterOfTwo
<1>5. MaxLine <= Max({MaxLine, MaxBody}) /\ MaxBody <= Max({MaxLine, MaxBody})
  BY <1>3, GreaterOfTwo
<1> QED
  BY <1>1, <1>2, <1>3, <1>4, <1>5

(***************************************************************************)
(* Lines of a stream, and of the part of it that has been read.             *)
(***************************************************************************)
LEMMA MinIs ==
  ASSUME NEW S, S \subseteq Int, NEW x \in S, \A y \in S : x <= y
  PROVE  Min(S) = x
<1>1. \A z \in S : (\A y \in S : z <= y) => z = x
  OBVIOUS
<1> QED
  BY <1>1 DEF Min

LEMMA LesserOfTwo ==
  ASSUME NEW a \in Int, NEW b \in Int
  PROVE  Min({a, b}) = IF a <= b THEN a ELSE b
<1>1. CASE a <= b
  <2>1. {a, b} \subseteq Int /\ a \in {a, b} /\ \A y \in {a, b} : a <= y
    BY <1>1
  <2> QED
    BY <1>1, <2>1, MinIs
<1>2. CASE b < a
  <2>1. {a, b} \subseteq Int /\ b \in {a, b} /\ \A y \in {a, b} : b <= y
    BY <1>2
  <2> QED
    BY <1>2, <2>1, MinIs
<1> QED
  BY <1>1, <1>2

LEMMA MaxIs ==
  ASSUME NEW S, S \subseteq Int, NEW x \in S, \A y \in S : y <= x
  PROVE  Max(S) = x
<1>1. \A z \in S : (\A y \in S : z >= y) => z = x
  OBVIOUS
<1> QED
  BY <1>1 DEF Max

LEMMA GreatestMember ==
  ASSUME NEW S, NEW N \in Nat, S \subseteq 0..N, S # {}
  PROVE  Max(S) \in S /\ \A y \in S : y <= Max(S)
<1> DEFINE R == {N - y : y \in S}
<1>1. PICK m \in R : \A z \in R : m <= z
  <2>1. ASSUME NEW y \in S PROVE N - y \in Nat
    <3>1. y \in 0..N
      OBVIOUS
    <3> QED
      BY <3>1
  <2>2. R \subseteq Nat
    BY <2>1
  <2>3. R # {}
    BY Zenon
  <2> HIDE DEF R
  <2> QED
    BY <2>2, <2>3, LeastNumber
<1>2. PICK x \in S : m = N - x
  BY <1>1
<1>3. \A y \in S : y <= x
  <2>1. ASSUME NEW y \in S PROVE y <= x
    <3>1. N - x <= N - y /\ x \in Int /\ y \in Int
      BY <1>1, <1>2
    <3> QED
      BY <3>1
  <2> QED
    BY <2>1
<1>4. S \subseteq Int /\ x \in S
  BY <1>2
<1> QED
  BY <1>3, <1>4, MaxIs

LEMMA LFsAreNumbers ==
  ASSUME NEW s \in Seq(Units)
  PROVE  LFs(s) \subseteq 1..Len(s)
  BY DEF LFs

\* The first d units of a stream.
LEMMA CutProperties ==
  ASSUME NEW s \in Seq(Units), NEW d \in 0..Len(s), NEW t, t = SubSeq(s, 1, d)
  PROVE  /\ t \in Seq(Units) /\ Len(t) = d /\ \A i \in 1..d : t[i] = s[i]
         /\ LFs(t) = {k \in LFs(s) : k <= d}
<1>1. t \in Seq(Units) /\ Len(t) = d /\ \A i \in 1..d : t[i] = s[i]
  <2>1. \A i \in 1..d : s[i] \in Units
    OBVIOUS
  <2>2. /\ SubSeq(s, 1, d) \in Seq(Units)
        /\ Len(SubSeq(s, 1, d)) = IF 1 <= d THEN d - 1 + 1 ELSE 0
        /\ \A i \in 1..(d - 1 + 1) : SubSeq(s, 1, d)[i] = s[1 + i - 1]
    BY <2>1, SubSeqProperties
  <2> QED
    BY <2>2
<1> QED
  BY <1>1 DEF LFs

LEMMA LineInCut ==
  ASSUME NEW s \in Seq(Units), NEW d \in 0..Len(s), NEW m \in 1..d, NEW n \in m..d
  PROVE  LineIn(SubSeq(s, 1, d), m, n) = LineIn(s, m, n)
<1>1. 1 \in 1..Len(s) /\ d \in 1..Len(s) /\ m \in 1..(d - 1 + 1) /\ n \in 1..(d - 1 + 1)
  OBVIOUS
<1>2. SubSeq(SubSeq(s, 1, d), m, n) = SubSeq(s, 1 + m - 1, 1 + n - 1)
  BY <1>1, SubSeqOfSubSeq
<1>3. 1 + m - 1 = m /\ 1 + n - 1 = n
  OBVIOUS
<1> QED
  BY <1>2, <1>3 DEF LineIn

\* Where the header line that ends at n begins.
LEMMA HeaderBegin ==
  ASSUME NEW s \in Seq(Units), NEW n \in LFs(s)
  PROVE  Max({0} \cup {k \in LFs(s) : k < n}) \in 0..(n - 1)
<1> DEFINE S == {0} \cup {k \in LFs(s) : k < n}
<1>1. n \in 1..Len(s) /\ S \subseteq 0..(n - 1) /\ S # {} /\ n - 1 \in Nat
  BY LFsAreNumbers
<1>2. Max(S) \in S
  <2> HIDE DEF S
  <2> QED
    BY <1>1, GreatestMember
<1> QED
  BY <1>1, <1>2

LEMMA HeaderAtCut ==
  ASSUME NEW s \in Seq(Units), NEW d \in 0..Len(s), NEW n \in LFs(s), n <= d
  PROVE  HeaderAt(SubSeq(s, 1, d), n) = HeaderAt(s, n)
<1> DEFINE t == SubSeq(s, 1, d)
           m == Max({0} \cup {k \in LFs(s) : k < n})
<1>1. n \in 1..Len(s) /\ m \in 0..(n - 1)
  BY LFsAreNumbers, HeaderBegin
<1>2. {k \in LFs(t) : k < n} = {k \in LFs(s) : k < n}
  <2>1. LFs(t) = {k \in LFs(s) : k <= d}
    BY CutProperties
  <2>2. \A k \in LFs(s) : k < n => k <= d
    BY <1>1, LFsAreNumbers
  <2> HIDE DEF t
  <2> QED
    BY <2>1, <2>2
<1>3. LineIn(t, m + 1, n) = LineIn(s, m + 1, n)
  <2> HIDE DEF m
  <2>1. m + 1 \in 1..d /\ n \in (m + 1)..d
    BY <1>1
  <2> QED
    BY <2>1, LineInCut
<1> QED
  BY <1>2, <1>3 DEF HeaderAt

\* The header line that begins after the LF at k - 1.
LEMMA HeaderAfter ==
  ASSUME NEW s \in Seq(Units), NEW k \in Nat, k - 1 \in LFs(s),
         NEW j \in LFs(s), k <= j, \A i \in LFs(s) : k <= i => j <= i
  PROVE  HeaderAt(s, j) = LineIn(s, k, j)
<1> DEFINE S == {0} \cup {i \in LFs(s) : i < j}
<1>1. S \subseteq Int /\ k - 1 \in S /\ \A i \in S : i <= k - 1
  BY LFsAreNumbers
<1>2. Max(S) = k - 1
  <2> HIDE DEF S
  <2> QED
    BY <1>1, MaxIs
<1>3. (k - 1) + 1 = k
  OBVIOUS
<1> QED
  BY <1>2, <1>3 DEF HeaderAt

LEMMA Prefix ==
  ASSUME NEW S, NEW s \in Seq(S), NEW n \in 0..Len(s)
  PROVE  SubSeq(s, 1, n) = [i \in 1..n |-> s[i]]
  OBVIOUS

\* What is left of a buffer of the stream from k to c after its first n units.
LEMMA RestOfBuffer ==
  ASSUME NEW S, NEW s \in Seq(S), NEW c \in 0..Len(s), NEW k \in 1..(c + 1),
         NEW n \in 0..(c - k + 1)
  PROVE  From(SubSeq(s, k, c), n + 1) = SubSeq(s, k + n, c)
<1>1. \A i \in k..c : s[i] \in S
  OBVIOUS
<1>2. /\ SubSeq(s, k, c) \in Seq(S)
      /\ Len(SubSeq(s, k, c)) = IF k <= c THEN c - k + 1 ELSE 0
  BY <1>1, SubSeqProperties
<1>3. Len(SubSeq(s, k, c)) = c - k + 1
  BY <1>2
<1>4. CASE n = c - k + 1
  <2>1. From(SubSeq(s, k, c), n + 1) = <<>>
    BY <1>3, <1>4, SubSeqEmpty DEF From
  <2>2. SubSeq(s, k + n, c) = <<>>
    BY <1>4, SubSeqEmpty
  <2> QED
    BY <2>1, <2>2
<1>5. CASE n # c - k + 1
  <2>1. /\ k \in 1..Len(s) /\ c \in 1..Len(s) /\ n + 1 \in 1..(c - k + 1)
        /\ c - k + 1 \in 1..(c - k + 1)
    BY <1>5
  <2>2. SubSeq(SubSeq(s, k, c), n + 1, c - k + 1) = SubSeq(s, k + (n + 1) - 1, k + (c - k + 1) - 1)
    BY <2>1, SubSeqOfSubSeq
  <2>3. k + (n + 1) - 1 = k + n /\ k + (c - k + 1) - 1 = c
    OBVIOUS
  <2> QED
    BY <1>3, <2>2, <2>3 DEF From
<1> QED
  BY <1>4, <1>5

(***************************************************************************)
(* Where the parser stands in the stream.                                   *)
(***************************************************************************)
\* Streams of units.
Texts == Seq(Units)

\* The line that begins at b ends at e.
Line(s, b, e) == e \in LFs(s) /\ b <= e /\ \A j \in LFs(s) : b <= j => e <= j

\* The request line at b ends at e; the lines between e and n are headers, and r
\* is what they all say.
Block(s, r, b, e, n) ==
  /\ Line(s, b, e) /\ e < n
  /\ r.method = FirstUnit(LineIn(s, b, e)) /\ r.method \in Methods
  /\ \A j \in HeadersIn(s, e, n) : FirstUnit(HeaderAt(s, j)) \in HeaderUnits
  /\ r.length = LengthIn(s, e, n) /\ r.close = ClosesIn(s, e, n)

Blank(s, n) == n \in LFs(s) /\ HeaderAt(s, n) = <<>>

BodyLength(r) == IF r.method = "POST" THEN r.length ELSE 0

AtRequestLine(p, b, k) == p.state = "RequestLine" /\ k = b /\ p.request = NoRequest

AtHeaders(s, p, b, k) ==
  /\ p.state = "Headers" /\ p.request.body = <<>> /\ k - 1 \in LFs(s)
  /\ \E e \in LFs(s) : Block(s, p.request, b, e, k)

AtBody(s, p, b, k) ==
  /\ p.state = "Body" /\ p.request.body = <<>> /\ Blank(s, k - 1)
  /\ \E e \in LFs(s) : Block(s, p.request, b, e, k - 1)
  /\ p.request.method = "POST" /\ p.request.length \in 1..MaxBody
  /\ p.remaining = p.request.length

AtEnd(s, p, b, k) ==
  /\ p.state = "Done" /\ p.request.length \in 0..MaxBody
  /\ \E e, n \in LFs(s) :
       /\ Block(s, p.request, b, e, n) /\ Blank(s, n)
       /\ k = n + BodyLength(p.request) + 1 /\ p.request.body = SubSeq(s, n + 1, k - 1)

LongLine(s, c, p, k) ==
  /\ p.error \in {"BadRequest", "InvalidHeader"}
  /\ c - k >= MaxLine /\ \A j \in k..c : s[j] # "LF"

BadRequestLine(s, c, p, b) ==
  /\ p.error \in {"MethodNotAllowed", "InvalidRequestLine"}
  /\ \E e \in 1..c : Line(s, b, e) /\ FirstUnit(LineIn(s, b, e)) \notin Methods

BadHeaders(s, c, p, b) ==
  \E e, n \in LFs(s) :
    /\ n <= c /\ Block(s, p.request, b, e, n) /\ FirstUnit(HeaderAt(s, n)) \notin HeaderUnits
    /\ \/ HeaderAt(s, n) # <<>> /\ p.error = "InvalidHeader"
       \/ HeaderAt(s, n) = <<>> /\ p.request.length < 0 /\ p.error = "BadRequest"
       \/ HeaderAt(s, n) = <<>> /\ p.request.length > MaxBody /\ p.error = "PayloadTooLarge"

AtError(s, c, p, b, k) ==
  /\ p.state = "Error"
  /\ LongLine(s, c, p, k) \/ BadRequestLine(s, c, p, b) \/ BadHeaders(s, c, p, b)

\* With c units of the stream s read, the parser p is at position k of the request
\* that begins at b.
Stands(s, c, p, b, k) ==
  /\ b \in 1..(c + 1) /\ k \in b..(c + 1) /\ p.buffer = SubSeq(s, k, c)
  /\ \/ AtRequestLine(p, b, k) \/ AtHeaders(s, p, b, k) \/ AtBody(s, p, b, k)
     \/ AtEnd(s, p, b, k) \/ AtError(s, c, p, b, k)

LEMMA NoneIsNoHeader == FirstUnit(<<>>) = "none" /\ "none" \notin HeaderUnits
  BY DEF FirstUnit, HeaderUnits, LengthOf

\* The next line, which ends at j.
NextLine(s, k, j) == j \in LFs(s) /\ k <= j /\ \A i \in LFs(s) : k <= i => j <= i

LEMMA HeadersUpTo ==
  ASSUME NEW s \in Seq(Units), NEW e \in Int, NEW k \in Int, NEW j \in Int, e < k,
         NextLine(s, k, j)
  PROVE  HeadersIn(s, e, j) = HeadersIn(s, e, k)
<1>1. \A i \in LFs(s) : i \in Int
  BY LFsAreNumbers
<1>2. \A i \in LFs(s) : i < j <=> i < k
  BY <1>1 DEF NextLine
<1> QED
  BY <1>2 DEF HeadersIn

LEMMA HeadersOneMore ==
  ASSUME NEW s \in Seq(Units), NEW e \in Int, NEW k \in Int, NEW j \in Int, e < k,
         NextLine(s, k, j), NEW n, n = j + 1
  PROVE  \A i : i \in HeadersIn(s, e, n) <=> i \in HeadersIn(s, e, k) \/ i = j
<1>1. \A i \in LFs(s) : i \in Int
  BY LFsAreNumbers
<1>2. \A i \in LFs(s) : i < j + 1 <=> i < k \/ i = j
  BY <1>1 DEF NextLine
<1>3. e < j /\ j \in LFs(s)
  BY DEF NextLine
<1> QED
  BY <1>2, <1>3 DEF HeadersIn

LEMMA BlockAtLine ==
  ASSUME NEW s \in Seq(Units), NEW r, NEW b, NEW e \in Int, NEW k \in Int, NEW j \in Int,
         Block(s, r, b, e, k), NextLine(s, k, j)
  PROVE  Block(s, r, b, e, j)
<1>1. e < k /\ e < j
  BY DEF Block, NextLine
<1>2. HeadersIn(s, e, j) = HeadersIn(s, e, k)
  BY <1>1, HeadersUpTo
<1>3. LengthIn(s, e, j) = LengthIn(s, e, k) /\ ClosesIn(s, e, j) = ClosesIn(s, e, k)
  BY <1>2 DEF LengthIn, ClosesIn
<1> QED
  BY <1>1, <1>2, <1>3 DEF Block

LEMMA LengthOfIsInt ==
  ASSUME NEW unit \in DOMAIN LengthOf
  PROVE  LengthOf[unit] \in Int /\ unit # "CC" /\ unit \in HeaderUnits
  BY MaxBodyAssumption DEF LengthOf, HeaderUnits

\* One more header line: the last Content-Length counts.
LEMMA LengthOneMore ==
  ASSUME NEW s \in Seq(Units), NEW e \in Int, NEW k \in Int, NEW j \in Int, e < k,
         NextLine(s, k, j), NEW n, n = j + 1, NEW unit, unit = FirstUnit(HeaderAt(s, j))
  PROVE  LengthIn(s, e, n) = IF unit \in DOMAIN LengthOf THEN LengthOf[unit]
                                                             ELSE LengthIn(s, e, k)
<1> DEFINE Says(i) == FirstUnit(HeaderAt(s, i)) \in DOMAIN LengthOf
           old == {i \in HeadersIn(s, e, k) : Says(i)}
           new == {i \in HeadersIn(s, e, n) : Says(i)}
<1>1. \A i : i \in HeadersIn(s, e, n) <=> i \in HeadersIn(s, e, k) \/ i = j
  BY HeadersOneMore
<1>2. CASE unit \in DOMAIN LengthOf
  <2>1. new = old \cup {j}
    BY <1>1, <1>2
  <2>2. new \subseteq Int /\ j \in new /\ \A i \in new : i <= j
    <3>1. \A i \in HeadersIn(s, e, k) : i \in Int /\ i < k
      BY LFsAreNumbers DEF HeadersIn
    <3>2. k <= j
      BY DEF NextLine
    <3> QED
      BY <2>1, <3>1, <3>2
  <2>3. Max(new) = j
    <3> HIDE DEF new
    <3> QED
      BY <2>2, MaxIs
  <2> QED
    BY <1>2, <2>1, <2>3 DEF LengthIn
<1>3. CASE unit \notin DOMAIN LengthOf
  <2>1. new = old
    BY <1>1, <1>3
  <2> QED
    BY <1>3, <2>1 DEF LengthIn
<1> QED
  BY <1>2, <1>3

LEMMA BlockOneMore ==
  ASSUME NEW s \in Texts, NEW b, NEW e \in Int, NEW k \in Int, NEW j \in Int,
         NEW p \in Parsers, Block(s, p.request, b, e, k), NextLine(s, k, j),
         NEW n, n = j + 1, NEW unit \in HeaderUnits, unit = FirstUnit(HeaderAt(s, j))
  PROVE  Block(s, SetHeader(p, unit).request, b, e, n)
<1> DEFINE r == SetHeader(p, unit).request
<1>0. s \in Seq(Units)
  BY DEF Texts
<1>1. e < k /\ e < n /\ Line(s, b, e)
  BY DEF Block, NextLine
<1>2. \A i : i \in HeadersIn(s, e, n) <=> i \in HeadersIn(s, e, k) \/ i = j
  BY <1>0, <1>1, HeadersOneMore
<1>3. \A i \in HeadersIn(s, e, n) : FirstUnit(HeaderAt(s, i)) \in HeaderUnits
  BY <1>2 DEF Block
<1>4. LengthIn(s, e, n) = IF unit \in DOMAIN LengthOf THEN LengthOf[unit] ELSE p.request.length
  BY <1>0, <1>1, LengthOneMore DEF Block
<1>5. ClosesIn(s, e, n) <=> p.request.close \/ unit = "CC"
  BY <1>2 DEF Block, ClosesIn
<1>6. p.request \in Requests
  BY DEF Parsers
<1>7. /\ r.method = p.request.method
      /\ r.length = LengthIn(s, e, n)
      /\ r.close = ClosesIn(s, e, n)
  <2>1. CASE unit = "CC"
    <3>1. unit \notin DOMAIN LengthOf
      BY <2>1, LengthOfIsInt
    <3>2. SetHeader(p, unit) = [p EXCEPT !.request.close = TRUE]
      BY <2>1, <3>1 DEF SetHeader
    <3> QED
      BY <1>4, <1>5, <1>6, <2>1, <3>1, <3>2 DEF Parsers, Requests, ClosesIn
  <2>2. CASE unit \in DOMAIN LengthOf
    <3>1. SetHeader(p, unit) = [p EXCEPT !.request.length = LengthOf[unit]] /\ unit # "CC"
      BY <2>2, LengthOfIsInt DEF SetHeader
    <3> QED
      BY <1>4, <1>5, <1>6, <2>2, <3>1 DEF Parsers, Requests, ClosesIn
  <2>3. CASE unit # "CC" /\ unit \notin DOMAIN LengthOf
    <3>1. SetHeader(p, unit) = p
      BY <2>3 DEF SetHeader
    <3> QED
      BY <1>4, <1>5, <1>6, <2>3, <3>1 DEF Requests, ClosesIn
  <2> QED
    BY <2>1, <2>2, <2>3
<1> HIDE DEF r
<1>8. r.method = FirstUnit(LineIn(s, b, e)) /\ r.method \in Methods
  BY <1>7 DEF Block
<1>9. Block(s, r, b, e, n)
  BY <1>1, <1>3, <1>7, <1>8 DEF Block
<1> QED
  BY <1>9 DEF r

\* The buffer b holds the stream from k to c: it has no line, or the next one, which
\* ends at j and, in the buffer, at n.
NoLineHeld(s, c, k, b) == Len(b) = c - k + 1 /\ \A i \in LFs(s) : k <= i => c < i

LineHeld(s, c, k, b, n, j) ==
  /\ j \in k..c /\ NextLine(s, k, j)
  /\ LineTo(b, n) = LineIn(s, k, j) /\ From(b, n + 1) = SubSeq(s, j + 1, c)

LEMMA LineOfBuffer ==
  ASSUME NEW s \in Texts, NEW c \in 0..Len(s), NEW k \in 1..(c + 1),
         NEW b, b = SubSeq(s, k, c), NEW n, n = FirstLF(b)
  PROVE  /\ n = 0 => NoLineHeld(s, c, k, b)
         /\ n # 0 => \E j : LineHeld(s, c, k, b, n, j)
<1>0. s \in Seq(Units)
  BY DEF Texts
<1>1. /\ b \in Seq(Units) /\ Len(b) = c - k + 1
      /\ \A i \in 1..(c - k + 1) : b[i] = s[k + i - 1]
  <2>1. \A i \in k..c : s[i] \in Units
    BY <1>0
  <2>2. /\ SubSeq(s, k, c) \in Seq(Units)
        /\ Len(SubSeq(s, k, c)) = IF k <= c THEN c - k + 1 ELSE 0
        /\ \A i \in 1..(c - k + 1) : SubSeq(s, k, c)[i] = s[k + i - 1]
    BY <2>1, SubSeqProperties
  <2> QED
    BY <2>2
<1>2. /\ n \in 0..Len(b)
      /\ (n = 0 <=> \A i \in DOMAIN b : b[i] # "LF")
      /\ (n # 0 => b[n] = "LF")
      /\ \A i \in 1..(n - 1) : b[i] # "LF"
  BY <1>1, FirstLFIsFirst
<1>3. \A i \in LFs(s) : i \in 1..Len(s) /\ s[i] = "LF"
  BY <1>0 DEF LFs
<1>4. CASE n = 0
  <2>1. ASSUME NEW i \in LFs(s), k <= i, ~(c < i) PROVE FALSE
    <3>1. i - k + 1 \in 1..(c - k + 1) /\ k + (i - k + 1) - 1 = i
      BY <1>3, <2>1
    <3>2. b[i - k + 1] = "LF"
      BY <1>1, <1>3, <3>1
    <3> QED
      BY <1>1, <1>2, <1>4, <3>1, <3>2
  <2> QED
    BY <1>1, <1>4, <2>1 DEF NoLineHeld
<1>5. CASE n # 0
  <2>1. n \in 1..(c - k + 1) /\ s[k + n - 1] = "LF" /\ k + n - 1 \in k..c
    BY <1>1, <1>2, <1>5
  <2>2. k + n - 1 \in LFs(s)
    BY <1>0, <2>1 DEF LFs
  <2>3. ASSUME NEW i \in LFs(s), k <= i, ~(k + n - 1 <= i) PROVE FALSE
    <3>1. i - k + 1 \in 1..(n - 1) /\ i - k + 1 \in 1..(c - k + 1) /\ k + (i - k + 1) - 1 = i
      BY <1>3, <2>1, <2>3
    <3>2. b[i - k + 1] = "LF"
      BY <1>1, <1>3, <3>1
    <3> QED
      BY <1>2, <3>1, <3>2
  <2>4. LineTo(b, n) = LineIn(s, k, k + n - 1)
    <3> DEFINE a == SubSeq(s, k, k + n - 1)
    <3>1. /\ Len(a) = n /\ a \in Seq(Units)
          /\ \A i \in 1..n : a[i] = b[i]
      <4>1. \A i \in k..(k + n - 1) : s[i] \in Units
        BY <1>0, <2>1
      <4>2. /\ a \in Seq(Units)
            /\ Len(a) = IF k <= k + n - 1 THEN (k + n - 1) - k + 1 ELSE 0
            /\ \A i \in 1..((k + n - 1) - k + 1) : a[i] = s[k + i - 1]
        BY <2>1, <4>1, SubSeqProperties
      <4>3. (k + n - 1) - k + 1 = n /\ k <= k + n - 1
        BY <2>1
      <4> HIDE DEF a
      <4> QED
        BY <1>1, <2>1, <4>2, <4>3
    <3>2. \A x \in 0..n : SubSeq(b, 1, x) = SubSeq(a, 1, x)
      <4>1. ASSUME NEW x \in 0..n PROVE SubSeq(b, 1, x) = SubSeq(a, 1, x)
        <5> HIDE DEF a
        <5>1. /\ SubSeq(b, 1, x) = [i \in 1..x |-> b[i]]
              /\ SubSeq(a, 1, x) = [i \in 1..x |-> a[i]]
          BY <1>1, <2>1, <3>1, Prefix
        <5>2. \A i \in 1..x : a[i] = b[i]
          BY <2>1, <3>1
        <5> QED
          BY <5>1, <5>2
      <4> QED
        BY <4>1
    <3>3. n - 1 \in 0..n /\ (n > 1 => n - 2 \in 0..n /\ n - 1 \in 1..n)
      BY <2>1
    <3>4. LineTo(b, n) = LineTo(a, n)
      <4> HIDE DEF a
      <4> QED
        BY <3>1, <3>2, <3>3 DEF LineTo
    <3>5. (k + n - 1) - k + 1 = n
      BY <2>1
    <3> QED
      BY <3>4, <3>5 DEF LineIn
  <2>5. From(b, n + 1) = SubSeq(s, k + n, c)
    <3>1. n \in 0..(c - k + 1)
      BY <2>1
    <3>2. From(SubSeq(s, k, c), n + 1) = SubSeq(s, k + n, c)
      BY <1>0, <3>1, RestOfBuffer
    <3> QED
      BY <3>2
  <2>6. NextLine(s, k, k + n - 1)
    BY <1>0, <2>1, <2>2, <2>3 DEF NextLine
  <2>7. (k + n - 1) + 1 = k + n
    BY <2>1
  <2>8. LineHeld(s, c, k, b, n, k + n - 1)
    BY <2>1, <2>4, <2>5, <2>6, <2>7 DEF LineHeld
  <2> QED
    BY <1>5, <2>8
<1> QED
  BY <1>4, <1>5

\* A call that finds no line: the buffer's limit may strike.
LEMMA NoLineStands ==
  ASSUME NEW s \in Texts, NEW c \in 0..Len(s), NEW p \in Parsers, NEW b, NEW k,
         Stands(s, c, p, b, k), FirstLF(p.buffer) = 0, Len(p.buffer) > MaxLine,
         NEW e \in {"BadRequest", "InvalidHeader"}
  PROVE  Stands(s, c, Fail(p, e), b, k)
<1>1. b \in 1..(c + 1) /\ k \in b..(c + 1) /\ p.buffer = SubSeq(s, k, c) /\ k \in 1..(c + 1)
  BY DEF Stands
<1>2. Len(p.buffer) = c - k + 1 /\ \A i \in LFs(s) : k <= i => c < i
  BY <1>1, LineOfBuffer DEF NoLineHeld
<1>3. c - k >= MaxLine
  BY <1>1, <1>2, MaxLineAssumption
<1>4. \A j \in k..c : s[j] # "LF"
  <2>1. ASSUME NEW j \in k..c, s[j] = "LF" PROVE FALSE
    <3>1. j \in LFs(s)
      BY <1>1, <2>1 DEF LFs, Texts
    <3> QED
      BY <1>1, <1>2, <3>1
  <2> QED
    BY <2>1
<1>5. LongLine(s, c, Fail(p, e), k) /\ Fail(p, e).state = "Error" /\ Fail(p, e).buffer = p.buffer
  BY <1>3, <1>4 DEF LongLine, Fail, Parsers
<1> QED
  BY <1>1, <1>5 DEF Stands, AtError

LEMMA RequestLineStands ==
  ASSUME NEW s \in Texts, NEW c \in 0..Len(s), NEW p \in Parsers, NEW b, NEW k,
         Stands(s, c, p, b, k), p.state = "RequestLine"
  PROVE  \E m : Stands(s, c, ProcessRequestLine(p), b, m)
<1> DEFINE n == FirstLF(p.buffer)
           unit == FirstUnit(LineTo(p.buffer, n))
           q == [p EXCEPT !.buffer = From(p.buffer, n + 1)]
<1>1. /\ b \in 1..(c + 1) /\ k \in b..(c + 1) /\ p.buffer = SubSeq(s, k, c) /\ k \in 1..(c + 1)
      /\ k = b /\ p.request = NoRequest
  BY DEF Stands, AtRequestLine, AtHeaders, AtBody, AtEnd, AtError
<1>2. CASE n = 0
  <2>1. CASE Len(p.buffer) > MaxLine
    <3>1. ProcessRequestLine(p) = Fail(p, "BadRequest")
      BY <1>2, <2>1 DEF ProcessRequestLine
    <3> QED
      BY <1>2, <2>1, <3>1, NoLineStands
  <2>2. CASE ~(Len(p.buffer) > MaxLine)
    BY <1>2, <2>2 DEF ProcessRequestLine
  <2> QED
    BY <2>1, <2>2
<1>3. CASE n # 0
  <2>1. PICK j \in k..c : /\ NextLine(s, k, j)
                          /\ LineTo(p.buffer, n) = LineIn(s, k, j)
                          /\ From(p.buffer, n + 1) = SubSeq(s, j + 1, c)
    <3>1. \E j : LineHeld(s, c, k, p.buffer, n, j)
      BY <1>1, <1>3, LineOfBuffer
    <3> QED
      BY <3>1 DEF LineHeld
  <2>2. n > 0
    <3>1. n \in 0..Len(p.buffer) /\ Len(p.buffer) \in Nat
      BY FirstLFIsFirst DEF Parsers
    <3> QED
      BY <1>3, <3>1
  <2>3. j \in 1..c /\ j \in b..c /\ j + 1 \in b..(c + 1)
    BY <1>1, <2>1
  <2>4. Line(s, b, j) /\ unit = FirstUnit(LineIn(s, b, j))
    BY <1>1, <2>1, <2>3 DEF Line, NextLine
  <2>5. q.buffer = SubSeq(s, j + 1, c)
    BY <2>1 DEF Parsers
  <2> HIDE DEF n, unit
  <2>6. CASE unit \in Methods
    <3> DEFINE r == [NoRequest EXCEPT !.method = unit]
               pp == [p EXCEPT !.buffer = q.buffer, !.state = "Headers", !.request = r]
    <3>1. ProcessRequestLine(p) = pp
      <4>1. ProcessRequestLine(p) = [q EXCEPT !.state = "Headers", !.request.method = unit]
        <5>1. ~(n = 0) /\ unit # "BREW"
          BY <1>3, <2>6 DEF Methods
        <5> QED
          BY <2>2, <2>6, <5>1 DEF ProcessRequestLine, n, unit
      <4> QED
        BY <1>1, <4>1 DEF Parsers
    <3>2. /\ r.method = unit /\ r.length = 0 /\ r.close = FALSE /\ r.body = <<>>
      BY DEF NoRequest
    <3>3. HeadersIn(s, j, j + 1) = {}
      BY <2>3, LFsAreNumbers DEF HeadersIn, Texts
    <3>4. LengthIn(s, j, j + 1) = 0 /\ ClosesIn(s, j, j + 1) = FALSE
      BY <3>3 DEF LengthIn, ClosesIn
    <3>5. Block(s, r, b, j, j + 1)
      <4> HIDE DEF r
      <4>1. j < j + 1
        BY <2>3
      <4> QED
        BY <2>4, <2>6, <3>2, <3>3, <3>4, <4>1 DEF Block
    <3>6. pp.state = "Headers" /\ pp.request = r /\ pp.buffer = SubSeq(s, j + 1, c)
      BY <2>5 DEF Parsers
    <3> HIDE DEF r, pp
    <3>7. AtHeaders(s, pp, b, j + 1)
      <4>1. (j + 1) - 1 = j
        BY <2>3
      <4> QED
        BY <2>1, <3>2, <3>5, <3>6, <4>1 DEF AtHeaders, NextLine
    <3>8. Stands(s, c, pp, b, j + 1)
      BY <1>1, <2>3, <3>6, <3>7 DEF Stands
    <3> QED
      BY <3>1, <3>8
  <2>7. CASE unit \notin Methods
    <3>1. PICK e \in {"MethodNotAllowed", "InvalidRequestLine"} : ProcessRequestLine(p) = Fail(q, e)
      BY <1>3, <2>2, <2>7 DEF ProcessRequestLine, n, unit
    <3>2. /\ Fail(q, e).state = "Error" /\ Fail(q, e).error = e
          /\ Fail(q, e).buffer = SubSeq(s, j + 1, c)
      BY <2>5 DEF Fail, Parsers
    <3>3. BadRequestLine(s, c, Fail(q, e), b)
      BY <2>3, <2>4, <2>7, <3>2 DEF BadRequestLine
    <3>4. Stands(s, c, Fail(q, e), b, j + 1)
      BY <1>1, <2>3, <3>2, <3>3 DEF Stands, AtError
    <3> QED
      BY <3>1, <3>4
  <2> QED
    BY <2>6, <2>7
<1> QED
  BY <1>2, <1>3

LEMMA EndOfHeadersStands ==
  ASSUME NEW s \in Texts, NEW c \in 0..Len(s), NEW p \in Parsers, NEW b \in 1..(c + 1),
         NEW j \in b..c, NEW e \in LFs(s),
         p.buffer = SubSeq(s, j + 1, c), p.state = "Headers", p.request.body = <<>>,
         Block(s, p.request, b, e, j), Blank(s, j)
  PROVE  Stands(s, c, EndOfHeaders(p), b, j + 1)
<1> DEFINE cl == p.request.length
           q == EndOfHeaders(p)
<1>1. /\ cl \in Int /\ MaxBody \in Nat /\ j \in Int /\ j <= c /\ j \in LFs(s)
      /\ j + 1 \in b..(c + 1) /\ (j + 1) - 1 = j /\ HeaderAt(s, j) = <<>>
  BY MaxBodyAssumption DEF Parsers, Requests, Blank
<1>2. CASE cl < 0
  <2>1. q = Fail(p, "BadRequest")
    BY <1>1, <1>2 DEF EndOfHeaders
  <2>2. /\ q.state = "Error" /\ q.error = "BadRequest" /\ q.request = p.request
        /\ q.buffer = p.buffer
    BY <2>1 DEF Fail, Parsers
  <2> HIDE DEF q
  <2>3. BadHeaders(s, c, q, b)
    BY <1>1, <1>2, <2>2, NoneIsNoHeader DEF BadHeaders
  <2> QED
    BY <1>1, <2>2, <2>3 DEF Stands, AtError, q
<1>3. CASE cl > MaxBody
  <2>1. q = Fail(p, "PayloadTooLarge")
    BY <1>1, <1>3 DEF EndOfHeaders
  <2>2. /\ q.state = "Error" /\ q.error = "PayloadTooLarge" /\ q.request = p.request
        /\ q.buffer = p.buffer
    BY <2>1 DEF Fail, Parsers
  <2> HIDE DEF q
  <2>3. BadHeaders(s, c, q, b)
    BY <1>1, <1>3, <2>2, NoneIsNoHeader DEF BadHeaders
  <2> QED
    BY <1>1, <2>2, <2>3 DEF Stands, AtError, q
<1>4. CASE cl \in 0..MaxBody
  <2>1. q = [p EXCEPT !.remaining = cl,
                      !.state = IF p.request.method = "POST" /\ cl > 0 THEN "Body" ELSE "Done"]
    BY <1>1, <1>4 DEF EndOfHeaders
  <2>2. /\ q.request = p.request /\ q.buffer = p.buffer /\ q.remaining = cl
        /\ q.state = IF p.request.method = "POST" /\ cl > 0 THEN "Body" ELSE "Done"
    BY <2>1 DEF Parsers
  <2> HIDE DEF q
  <2>3. CASE p.request.method = "POST" /\ cl > 0
    <3>1. Block(s, q.request, b, e, (j + 1) - 1) /\ Blank(s, (j + 1) - 1)
      BY <1>1, <2>2
    <3>2. q.request.length \in 1..MaxBody /\ q.remaining = q.request.length
      BY <1>4, <2>2, <2>3
    <3>3. AtBody(s, q, b, j + 1)
      BY <2>2, <2>3, <3>1, <3>2 DEF AtBody
    <3> QED
      BY <1>1, <2>2, <3>3 DEF Stands, q
  <2>4. CASE ~(p.request.method = "POST" /\ cl > 0)
    <3>1. BodyLength(q.request) = 0
      BY <1>1, <1>4, <2>2, <2>4 DEF BodyLength
    <3>2. SubSeq(s, j + 1, j) = <<>>
      BY <1>1, SubSeqEmpty
    <3>3. j + 0 + 1 = j + 1
      BY <1>1
    <3>4. /\ Block(s, q.request, b, e, j) /\ Blank(s, j)
          /\ j + 1 = j + BodyLength(q.request) + 1
          /\ q.request.body = SubSeq(s, j + 1, (j + 1) - 1)
      BY <1>1, <2>2, <3>1, <3>2, <3>3
    <3>5. q.state = "Done" /\ q.request.length \in 0..MaxBody
      BY <1>4, <2>2, <2>4
    <3>6. AtEnd(s, q, b, j + 1)
      BY <1>1, <3>4, <3>5 DEF AtEnd
    <3> QED
      BY <1>1, <2>2, <3>6 DEF Stands, q
  <2> QED
    BY <2>3, <2>4
<1> QED
  BY <1>1, <1>2, <1>3, <1>4

LEMMA HeadersStand ==
  ASSUME NEW s \in Texts, NEW c \in 0..Len(s), NEW p \in Parsers, NEW b, NEW k,
         Stands(s, c, p, b, k), p.state = "Headers"
  PROVE  \E m : Stands(s, c, ProcessHeaders(p), b, m)
<1> DEFINE n == FirstLF(p.buffer)
           line == LineTo(p.buffer, n)
           q == [p EXCEPT !.buffer = From(p.buffer, n + 1)]
<1>1. /\ b \in 1..(c + 1) /\ k \in b..(c + 1) /\ p.buffer = SubSeq(s, k, c) /\ k \in 1..(c + 1)
      /\ p.request.body = <<>> /\ k - 1 \in LFs(s)
  BY DEF Stands, AtRequestLine, AtHeaders, AtBody, AtEnd, AtError
<1>2. PICK e \in LFs(s) : Block(s, p.request, b, e, k)
  BY DEF Stands, AtRequestLine, AtHeaders, AtBody, AtEnd, AtError
<1>3. CASE n = 0
  <2>1. CASE Len(p.buffer) > MaxLine
    <3>1. ProcessHeaders(p) = Fail(p, "InvalidHeader")
      BY <1>3, <2>1 DEF ProcessHeaders
    <3> QED
      BY <1>3, <2>1, <3>1, NoLineStands
  <2>2. CASE ~(Len(p.buffer) > MaxLine)
    BY <1>3, <2>2 DEF ProcessHeaders
  <2> QED
    BY <2>1, <2>2
<1>4. CASE n # 0
  <2>1. PICK j \in k..c : /\ NextLine(s, k, j) /\ line = LineIn(s, k, j)
                          /\ From(p.buffer, n + 1) = SubSeq(s, j + 1, c)
    <3>1. \E j : LineHeld(s, c, k, p.buffer, n, j)
      BY <1>1, <1>4, LineOfBuffer
    <3> QED
      BY <3>1 DEF LineHeld
  <2>2. n > 0
    <3>1. n \in 0..Len(p.buffer) /\ Len(p.buffer) \in Nat
      BY FirstLFIsFirst DEF Parsers
    <3> QED
      BY <1>4, <3>1
  <2>3. j \in b..c /\ j + 1 \in b..(c + 1) /\ j \in Int /\ k \in Nat /\ e \in Int /\ j \in LFs(s)
    BY <1>1, <2>1, LFsAreNumbers DEF NextLine, Texts
  <2>4. line = HeaderAt(s, j)
    BY <1>1, <2>1, <2>3, HeaderAfter DEF NextLine, Texts
  <2>5. Block(s, p.request, b, e, j)
    BY <1>2, <2>1, <2>3, <1>1, BlockAtLine DEF Texts
  <2>6. /\ q \in Parsers /\ q.state = "Headers" /\ q.request = p.request
        /\ q.buffer = SubSeq(s, j + 1, c)
    <3>1. From(p.buffer, n + 1) \in Seq(Units)
      BY FirstLFIsFirst, FromIsShorter DEF Parsers
    <3> QED
      BY <2>1, <3>1 DEF Parsers
  <2> HIDE DEF n, line, q
  <2>7. CASE line = <<>>
    <3>1. ProcessHeaders(p) = EndOfHeaders(q)
      <4>1. FirstUnit(line) \notin HeaderUnits
        BY <2>7, NoneIsNoHeader
      <4> QED
        BY <1>4, <2>2, <2>7, <4>1 DEF ProcessHeaders, n, line, q
    <3>2. Blank(s, j)
      BY <2>3, <2>4, <2>7 DEF Blank
    <3>3. Stands(s, c, EndOfHeaders(q), b, j + 1)
      BY <1>1, <2>3, <2>5, <2>6, <3>2, EndOfHeadersStands
    <3> QED
      BY <3>1, <3>3
  <2>8. CASE FirstUnit(line) \in HeaderUnits
    <3> DEFINE qq == SetHeader(q, FirstUnit(line))
    <3>1. ProcessHeaders(p) = qq
      <4>1. line # <<>>
        BY <2>8, NoneIsNoHeader
      <4> QED
        BY <1>4, <2>2, <2>8, <4>1 DEF ProcessHeaders, n, line, q
    <3>2. /\ qq.buffer = SubSeq(s, j + 1, c) /\ qq.state = "Headers"
          /\ qq.request.body = <<>>
      BY <1>1, <2>6, SetHeaderMoves
    <3>3. Block(s, qq.request, b, e, j + 1)
      <4> DEFINE unit == FirstUnit(line)
                 m == j + 1
      <4>1. unit \in HeaderUnits /\ unit = FirstUnit(HeaderAt(s, j)) /\ m = j + 1
        BY <2>4, <2>8
      <4>2. Block(s, q.request, b, e, k) /\ k \in Int
        BY <1>2, <2>3, <2>6
      <4> HIDE DEF unit, m
      <4>3. Block(s, SetHeader(q, unit).request, b, e, m)
        BY <2>1, <2>3, <2>6, <4>1, <4>2, BlockOneMore
      <4> QED
        BY <4>3 DEF unit, m
    <3> HIDE DEF qq
    <3>4. (j + 1) - 1 = j
      BY <2>3
    <3>5. AtHeaders(s, qq, b, j + 1)
      BY <2>3, <3>2, <3>3, <3>4 DEF AtHeaders
    <3>6. Stands(s, c, qq, b, j + 1)
      BY <1>1, <2>3, <3>2, <3>5 DEF Stands
    <3> QED
      BY <3>1, <3>6
  <2>9. CASE line # <<>> /\ FirstUnit(line) \notin HeaderUnits
    <3> DEFINE qq == Fail(q, "InvalidHeader")
    <3>1. ProcessHeaders(p) = qq
      BY <1>4, <2>2, <2>9 DEF ProcessHeaders, n, line, q
    <3>2. /\ qq.state = "Error" /\ qq.error = "InvalidHeader" /\ qq.request = p.request
          /\ qq.buffer = SubSeq(s, j + 1, c)
      BY <2>6 DEF Fail, Parsers
    <3> HIDE DEF qq
    <3>3. j <= c
      BY <2>3
    <3>4. BadHeaders(s, c, qq, b)
      BY <2>3, <2>4, <2>5, <2>9, <3>2, <3>3 DEF BadHeaders
    <3>5. Stands(s, c, qq, b, j + 1)
      BY <1>1, <2>3, <3>2, <3>4 DEF Stands, AtError
    <3> QED
      BY <3>1, <3>5
  <2> QED
    BY <2>7, <2>8, <2>9
<1> QED
  BY <1>3, <1>4

LEMMA BodyStands ==
  ASSUME NEW s \in Texts, NEW c \in 0..Len(s), NEW p \in Parsers, NEW b, NEW k,
         Stands(s, c, p, b, k), p.state = "Body"
  PROVE  \E m : Stands(s, c, ProcessBody(p), b, m)
<1> DEFINE rem == p.remaining
           n == k - 1
           m == k + rem
           q == ProcessBody(p)
<1>1. /\ b \in 1..(c + 1) /\ k \in b..(c + 1) /\ p.buffer = SubSeq(s, k, c)
      /\ AtBody(s, p, b, k) /\ k \in Int /\ rem \in 1..MaxBody /\ c \in Nat /\ MaxBody \in Nat
  BY MaxBodyAssumption DEF Stands, AtRequestLine, AtHeaders, AtBody, AtEnd, AtError
<1>2. PICK e \in LFs(s) : Block(s, p.request, b, e, n)
  BY <1>1 DEF AtBody
<1>3. CASE Len(p.buffer) < rem
  <2>1. q = p
    BY <1>3 DEF ProcessBody
  <2> QED
    BY <2>1
<1>4. CASE Len(p.buffer) >= rem
  <2>1. q = [p EXCEPT !.request.body = SubSeq(p.buffer, 1, rem),
                      !.buffer = From(p.buffer, rem + 1), !.remaining = 0, !.state = "Done"]
    <3>1. Len(p.buffer) \in Nat
      BY DEF Parsers
    <3> QED
      BY <1>1, <1>4, <3>1 DEF ProcessBody
  <2>2. /\ q.state = "Done" /\ q.buffer = From(p.buffer, rem + 1)
        /\ q.request.body = SubSeq(p.buffer, 1, rem)
        /\ q.request.method = p.request.method /\ q.request.length = p.request.length
        /\ q.request.close = p.request.close
    BY <2>1 DEF Parsers, Requests
  <2> HIDE DEF q
  <2>3. Len(p.buffer) = c - k + 1
    <3>1. k \in 1..(c + 1) /\ s \in Seq(Units)
      BY <1>1 DEF Texts
    <3>2. \A i \in k..c : s[i] \in Units
      BY <3>1
    <3>3. Len(SubSeq(s, k, c)) = IF k <= c THEN c - k + 1 ELSE 0
      BY <3>1, <3>2, SubSeqProperties
    <3> QED
      BY <1>1, <3>3
  <2>4. m \in b..(c + 1) /\ rem \in 0..(c - k + 1) /\ k \in 1..(c + 1) /\ k <= c
    BY <1>1, <1>4, <2>3
  <2>5. q.buffer = SubSeq(s, m, c)
    BY <1>1, <2>2, <2>4, RestOfBuffer DEF Texts
  <2>6. q.request.body = SubSeq(s, n + 1, m - 1)
    <3>1. /\ k \in 1..Len(s) /\ c \in 1..Len(s) /\ 1 \in 1..(c - k + 1) /\ rem \in 1..(c - k + 1)
      BY <1>1, <2>4 DEF Texts
    <3>2. SubSeq(SubSeq(s, k, c), 1, rem) = SubSeq(s, k + 1 - 1, k + rem - 1)
      BY <3>1, SubSeqOfSubSeq DEF Texts
    <3>3. k + 1 - 1 = k /\ n + 1 = k /\ k + rem - 1 = m - 1
      BY <1>1
    <3> HIDE DEF n, m
    <3> QED
      BY <1>1, <2>2, <3>2, <3>3
  <2>7. Block(s, q.request, b, e, n) /\ Blank(s, n)
    BY <1>1, <1>2, <2>2 DEF Block, AtBody
  <2>8. BodyLength(q.request) = rem /\ q.request.length \in 0..MaxBody
    BY <1>1, <2>2 DEF BodyLength, AtBody
  <2>9. m = n + BodyLength(q.request) + 1
    BY <1>1, <2>8
  <2>10. AtEnd(s, q, b, m)
    <3>1. n \in LFs(s)
      BY <2>7 DEF Blank
    <3> HIDE DEF m, n
    <3> QED
      BY <2>2, <2>6, <2>7, <2>8, <2>9, <3>1 DEF AtEnd
  <2>11. Stands(s, c, q, b, m)
    BY <1>1, <2>4, <2>5, <2>10 DEF Stands
  <2> QED
    BY <2>11 DEF q
<1> QED
  <2>1. Len(p.buffer) \in Nat
    BY DEF Parsers
  <2> QED
    BY <1>1, <1>3, <1>4, <2>1

LEMMA ProcessOneStands ==
  ASSUME NEW s \in Texts, NEW c \in 0..Len(s), NEW p \in Parsers, NEW b, NEW k,
         Stands(s, c, p, b, k)
  PROVE  \E m : Stands(s, c, ProcessOne(p), b, m)
<1>1. CASE p.state = "RequestLine"
  BY <1>1, RequestLineStands DEF ProcessOne
<1>2. CASE p.state = "Headers"
  BY <1>2, HeadersStand DEF ProcessOne
<1>3. CASE p.state = "Body"
  BY <1>3, BodyStands DEF ProcessOne
<1>4. CASE p.state \in {"Done", "Error"}
  BY <1>4 DEF ProcessOne
<1> QED
  BY <1>1, <1>2, <1>3, <1>4 DEF Parsers

\* The parser is somewhere in the request that begins at b.
StandsIn(s, c, p, b) == \E k : Stands(s, c, p, b, k)

LEMMA AdvanceStands ==
  ASSUME NEW s \in Texts, NEW c \in 0..Len(s), NEW p \in Parsers, NEW b,
         StandsIn(s, c, p, b)
  PROVE  StandsIn(s, c, Advance(p), b)
<1> DEFINE L == Len(p.buffer)
<1>1. L \in Nat
  BY DEF Parsers
<1>2. PICK g \in [0..L -> Parsers] :
        /\ g[0] = p /\ Advance(p) = g[L]
        /\ \A n \in 1..L : g[n] = ProcessOne(g[n - 1])
  BY AdvanceRuns
<1> DEFINE T == {n \in 0..L : StandsIn(s, c, g[n], b)}
<1>3. 0 \in T
  BY <1>1, <1>2
<1>4. ASSUME NEW n \in 1..L, n - 1 \in T PROVE n \in T
  <2>1. n \in 0..L /\ n - 1 \in 0..L
    BY <1>1
  <2>2. g[n] = ProcessOne(g[n - 1]) /\ g[n - 1] \in Parsers /\ StandsIn(s, c, g[n - 1], b)
    BY <1>2, <1>4, <2>1
  <2>3. StandsIn(s, c, ProcessOne(g[n - 1]), b)
    BY <2>2, ProcessOneStands DEF StandsIn
  <2> QED
    BY <2>1, <2>2, <2>3
<1>5. \A n \in 0..L : n \in T
  <2> HIDE DEF T
  <2> QED
    BY <1>1, <1>3, <1>4, UpTo
<1>6. L \in T
  BY <1>1, <1>5
<1> QED
  BY <1>2, <1>6

LEMMA FeedIsParser ==
  ASSUME NEW p \in Parsers, p.state \notin {"Done", "Error"}, NEW data \in Texts
  PROVE  Feed(p, data) \in Parsers /\ Stuck(Feed(p, data))
<1> DEFINE q == [p EXCEPT !.buffer = p.buffer \o data]
<1>1. p.buffer \in Seq(Units) /\ data \in Seq(Units)
  BY DEF Parsers, Texts
<1>2. p.buffer \o data \in Seq(Units)
  BY <1>1, ConcatProperties
<1>3. q \in Parsers
  BY <1>2 DEF Parsers
<1>4. Feed(p, data) = Advance(q)
  BY DEF Feed, HasRequest, HasError
<1> HIDE DEF q
<1> QED
  BY <1>3, <1>4, AdvanceStops

\* read() brings the units up to d and feeds them.
LEMMA FeedStands ==
  ASSUME NEW s \in Texts, NEW c \in 0..Len(s), NEW d \in c..Len(s), NEW p \in Parsers, NEW b,
         StandsIn(s, c, p, b), p.state \notin {"Done", "Error"},
         NEW data, data = SubSeq(s, c + 1, d)
  PROVE  /\ Feed(p, data) \in Parsers /\ Stuck(Feed(p, data))
         /\ StandsIn(s, d, Feed(p, data), b)
<1> DEFINE q == [p EXCEPT !.buffer = p.buffer \o data]
<1>1. Feed(p, data) = Advance(q)
  BY DEF Feed, HasRequest, HasError
<1>2. PICK k : Stands(s, c, p, b, k)
  BY DEF StandsIn
<1>3. /\ b \in 1..(c + 1) /\ k \in b..(c + 1) /\ p.buffer = SubSeq(s, k, c)
      /\ b \in 1..(d + 1) /\ k \in b..(d + 1) /\ d \in 0..Len(s)
  BY <1>2 DEF Stands, Texts
<1>4. p.buffer \o data = SubSeq(s, k, d)
  <2>1. k \in 1..(Len(s) + 1) /\ c \in (k - 1)..Len(s) /\ d \in c..Len(s) /\ s \in Seq(Units)
    BY <1>3 DEF Texts
  <2>2. SubSeq(s, k, c) \o SubSeq(s, c + 1, d) = SubSeq(s, k, d)
    BY <2>1, ConcatAdjacentSubSeq
  <2> QED
    BY <1>3, <2>2
<1>5. SubSeq(s, k, d) \in Seq(Units)
  <2>1. \A i \in k..d : s[i] \in Units
    BY <1>3 DEF Texts
  <2> QED
    BY <1>3, <2>1, SubSeqProperties
<1>6. /\ q \in Parsers /\ q.buffer = SubSeq(s, k, d) /\ q.state = p.state
      /\ q.request = p.request /\ q.remaining = p.remaining
  BY <1>4, <1>5 DEF Parsers
<1> HIDE DEF q
<1>7. AtRequestLine(q, b, k) \/ AtHeaders(s, q, b, k) \/ AtBody(s, q, b, k)
  BY <1>2, <1>6 DEF Stands, AtRequestLine, AtHeaders, AtBody, AtEnd, AtError
<1>8. StandsIn(s, d, q, b)
  BY <1>3, <1>6, <1>7 DEF Stands, StandsIn
<1>9. StandsIn(s, d, Advance(q), b)
  BY <1>3, <1>6, <1>8, AdvanceStands
<1> QED
  BY <1>1, <1>6, <1>9, AdvanceStops

\* get_request() leaves the parser at the beginning of the next request.
LEMMA NextStands ==
  ASSUME NEW s \in Texts, NEW c \in 0..Len(s), NEW p \in Parsers, NEW b, NEW k,
         Stands(s, c, p, b, k)
  PROVE  /\ AfterGetRequest(p) \in Parsers /\ Stuck(AfterGetRequest(p))
         /\ StandsIn(s, c, AfterGetRequest(p), k)
<1> DEFINE q == [NewParser EXCEPT !.buffer = p.buffer]
<1>1. p.buffer \in Seq(Units) /\ p.buffer = SubSeq(s, k, c) /\ k \in 1..(c + 1)
  BY DEF Stands, Parsers
<1>2. q \in Parsers /\ q.buffer = p.buffer /\ q.state = "RequestLine" /\ q.request = NoRequest
  BY <1>1, NewIsParser DEF NewParser
<1>3. AfterGetRequest(p) = Advance(q)
  BY DEF AfterGetRequest
<1> HIDE DEF q
<1>4. Stands(s, c, q, k, k)
  BY <1>1, <1>2 DEF Stands, AtRequestLine
<1>5. StandsIn(s, c, Advance(q), k)
  BY <1>2, <1>4, AdvanceStands DEF StandsIn
<1> QED
  BY <1>2, <1>3, <1>5, AdvanceStops

LEMMA NewStands ==
  ASSUME NEW s \in Texts
  PROVE  NewParser \in Parsers /\ Stuck(NewParser) /\ StandsIn(s, 0, NewParser, 1)
<1>1. <<>> \in Seq(Units) /\ NewParser.buffer = <<>> /\ NewParser.state = "RequestLine"
  BY DEF NewParser
<1>2. NewParser = [NewParser EXCEPT !.buffer = <<>>]
  BY DEF NewParser
<1>3. NewParser \in Parsers
  BY <1>1, <1>2, NewIsParser
<1>4. Stuck(NewParser)
  BY <1>1, <1>3, EmptyStuck
<1>5. SubSeq(s, 1, 0) = <<>>
  BY SubSeqEmpty
<1>6. Stands(s, 0, NewParser, 1, 1)
  BY <1>1, <1>5 DEF Stands, AtRequestLine, NewParser
<1> QED
  BY <1>3, <1>4, <1>6 DEF StandsIn

(***************************************************************************)
(* What the part of the stream that has been read calls for.                *)
(***************************************************************************)
\* The first d units of s.
Cut(s, d) == SubSeq(s, 1, d)

LEMMA CutIsText ==
  ASSUME NEW s \in Texts, NEW d \in 0..Len(s)
  PROVE  /\ Cut(s, d) \in Texts /\ Len(Cut(s, d)) = d
         /\ LFs(Cut(s, d)) = {k \in LFs(s) : k <= d}
         /\ LFs(s) \subseteq Int
<1>1. s \in Seq(Units)
  BY DEF Texts
<1> DEFINE t == Cut(s, d)
<1>2. t = SubSeq(s, 1, d)
  BY DEF Cut
<1> HIDE DEF t
<1>3. t \in Seq(Units) /\ Len(t) = d /\ LFs(t) = {k \in LFs(s) : k <= d}
  BY <1>1, <1>2, CutProperties
<1> QED
  BY <1>1, <1>3, LFsAreNumbers DEF t, Texts

LEMMA CutLine ==
  ASSUME NEW s \in Texts, NEW d \in 0..Len(s), NEW b \in 1..(d + 1), NEW e \in Int,
         Line(s, b, e), e <= d
  PROVE  LineEnd(Cut(s, d), b) = e /\ LineIn(Cut(s, d), b, e) = LineIn(s, b, e)
<1> DEFINE t == Cut(s, d)
           S == {k \in LFs(t) : k >= b} \cup {Len(t) + 1}
<1>1. Len(t) = d /\ LFs(t) = {k \in LFs(s) : k <= d} /\ LFs(s) \subseteq Int
  BY CutIsText
<1>2. S \subseteq Int /\ e \in S /\ \A y \in S : e <= y
  <2> HIDE DEF t
  <2> QED
    BY <1>1 DEF Line
<1>3. LineEnd(t, b) = e
  <2>1. Min(S) = e
    <3> HIDE DEF S
    <3> QED
      BY <1>2, MinIs
  <2> QED
    BY <2>1 DEF LineEnd
<1>4. LineIn(t, b, e) = LineIn(s, b, e)
  <2>1. b \in 1..d /\ e \in b..d /\ s \in Seq(Units)
    BY DEF Line, Texts
  <2> QED
    BY <2>1, LineInCut DEF Cut
<1> QED
  BY <1>3, <1>4

\* No line has been read after position b.
LEMMA CutNoLine ==
  ASSUME NEW s \in Texts, NEW d \in 0..Len(s), NEW b \in 1..(d + 1),
         \A i \in LFs(s) : b <= i => d < i
  PROVE  LineEnd(Cut(s, d), b) = d + 1
<1> DEFINE t == Cut(s, d)
           S == {k \in LFs(t) : k >= b} \cup {Len(t) + 1}
<1>1. Len(t) = d /\ LFs(t) = {k \in LFs(s) : k <= d} /\ LFs(s) \subseteq Int
  BY CutIsText
<1>2. S = {d + 1}
  <2> HIDE DEF t
  <2> QED
    BY <1>1
<1>3. d + 1 \in S /\ S \subseteq Int /\ \A y \in S : d + 1 <= y
  <2> HIDE DEF S
  <2> QED
    BY <1>2
<1>4. Min(S) = d + 1
  <2> HIDE DEF S
  <2> QED
    BY <1>3, MinIs
<1> QED
  BY <1>4 DEF LineEnd

LEMMA CutHeaders ==
  ASSUME NEW s \in Texts, NEW d \in 0..Len(s), NEW m \in Int, NEW n \in Int, n <= d + 1
  PROVE  /\ HeadersIn(Cut(s, d), m, n) = HeadersIn(s, m, n)
         /\ LengthIn(Cut(s, d), m, n) = LengthIn(s, m, n)
         /\ ClosesIn(Cut(s, d), m, n) = ClosesIn(s, m, n)
         /\ \A i \in HeadersIn(s, m, n) : HeaderAt(Cut(s, d), i) = HeaderAt(s, i)
<1> DEFINE t == Cut(s, d)
           H == HeadersIn(s, m, n)
<1>1. LFs(t) = {k \in LFs(s) : k <= d} /\ LFs(s) \subseteq Int
  BY CutIsText
<1>2. HeadersIn(t, m, n) = H
  <2> HIDE DEF t
  <2> QED
    BY <1>1 DEF HeadersIn
<1>3. \A i \in H : HeaderAt(t, i) = HeaderAt(s, i)
  <2>1. ASSUME NEW i \in H PROVE HeaderAt(t, i) = HeaderAt(s, i)
    <3>1. i \in LFs(s) /\ i <= d /\ s \in Seq(Units)
      BY <1>1 DEF HeadersIn, Texts
    <3> QED
      BY <3>1, HeaderAtCut DEF Cut
  <2> QED
    BY <2>1
<1> DEFINE L(u) == {i \in H : FirstUnit(HeaderAt(u, i)) \in DOMAIN LengthOf}
<1>4. LengthIn(t, m, n) = LengthIn(s, m, n)
  <2>1. L(t) = L(s)
    <3> HIDE DEF H, t
    <3> QED
      BY <1>3
  <2>2. L(s) \subseteq H
    OBVIOUS
  <2>3. LengthIn(t, m, n) = IF L(s) = {} THEN 0 ELSE LengthOf[FirstUnit(HeaderAt(t, Max(L(s))))]
    <3> HIDE DEF H, t
    <3> QED
      BY <1>2, <2>1 DEF LengthIn
  <2>4. L(s) # {} => Max(L(s)) \in L(s)
    <3>1. L(s) \subseteq 0..Len(s) /\ Len(s) \in Nat
      BY LFsAreNumbers DEF HeadersIn, Texts
    <3> HIDE DEF L
    <3> QED
      BY <3>1, GreatestMember
  <2>5. LengthIn(s, m, n) = IF L(s) = {} THEN 0 ELSE LengthOf[FirstUnit(HeaderAt(s, Max(L(s))))]
    BY DEF LengthIn
  <2> HIDE DEF L, H, t
  <2>6. L(s) # {} => HeaderAt(t, Max(L(s))) = HeaderAt(s, Max(L(s)))
    BY <1>3, <2>2, <2>4
  <2> QED
    BY <2>3, <2>5, <2>6
<1>5. ClosesIn(t, m, n) = ClosesIn(s, m, n)
  <2> HIDE DEF t, H
  <2>1. ClosesIn(t, m, n) = \E i \in H : FirstUnit(HeaderAt(t, i)) = "CC"
    BY <1>2 DEF ClosesIn
  <2>2. ClosesIn(s, m, n) = \E i \in H : FirstUnit(HeaderAt(s, i)) = "CC"
    BY DEF ClosesIn, H
  <2> QED
    BY <1>3, <2>1, <2>2
<1> QED
  BY <1>2, <1>3, <1>4, <1>5

\* A header block that ends at n, a blank line or one that is no header.
LEMMA ReplyToBlock ==
  ASSUME NEW s \in Texts, NEW d \in 0..Len(s), NEW b \in 1..(d + 1), NEW r,
         NEW e \in LFs(s), NEW n \in LFs(s), n <= d,
         Block(s, r, b, e, n), FirstUnit(HeaderAt(s, n)) \notin HeaderUnits
  PROVE  ReplyAt(Cut(s, d), b) =
           IF HeaderAt(s, n) # <<>> \/ r.length < 0 THEN Reply(<<ErrorAnswer("BadRequest")>>, 0)
           ELSE IF r.length > MaxBody THEN Reply(<<ErrorAnswer("PayloadTooLarge")>>, 0)
           ELSE IF n + BodyLength(r) > d THEN Reply(<<>>, 0)
           ELSE Reply(<<OkAnswer([method |-> r.method, close |-> r.close, length |-> 0,
                                  body |-> SubSeq(Cut(s, d), n + 1, n + BodyLength(r))])>>,
                      IF r.close THEN 0 ELSE n + BodyLength(r) + 1)
<1> DEFINE t == Cut(s, d)
<1>1. /\ Len(t) = d /\ LFs(t) = {k \in LFs(s) : k <= d} /\ LFs(s) \subseteq Int
      /\ e \in Int /\ n \in Int /\ e < n /\ e <= d /\ n <= d + 1
  BY CutIsText DEF Block
<1>2. LineEnd(t, b) = e /\ LineIn(t, b, e) = LineIn(s, b, e)
  BY <1>1, CutLine DEF Block
<1>3. FirstUnit(LineIn(t, b, e)) = r.method /\ r.method \in Methods
  BY <1>2 DEF Block
<1>4. LengthIn(t, e, n) = r.length /\ (ClosesIn(t, e, n) <=> r.close)
  BY <1>1, CutHeaders DEF Block
<1>5. n \in BlockEnds(t, e) /\ BlockEnds(t, e) \subseteq Int /\ \A j \in BlockEnds(t, e) : n <= j
  <2>1. HeaderAt(t, n) = HeaderAt(s, n)
    BY <1>1, HeaderAtCut DEF Cut, Texts
  <2>2. n \in BlockEnds(t, e)
    BY <1>1, <2>1 DEF BlockEnds
  <2>3. ASSUME NEW j \in BlockEnds(t, e), ~(n <= j) PROVE FALSE
    <3>1. /\ j \in LFs(s) /\ j \in Int /\ e < j /\ j < n
          /\ FirstUnit(HeaderAt(t, j)) \notin HeaderUnits
      BY <1>1, <2>3 DEF BlockEnds
    <3>2. j \in HeadersIn(s, e, n)
      BY <3>1 DEF HeadersIn
    <3>3. HeaderAt(t, j) = HeaderAt(s, j)
      BY <1>1, <3>2, CutHeaders
    <3> QED
      BY <3>1, <3>2, <3>3 DEF Block
  <2> QED
    BY <1>1, <2>2, <2>3 DEF BlockEnds
<1>6. Min(BlockEnds(t, e)) = n /\ BlockEnds(t, e) # {}
  BY <1>5, MinIs
<1>7. HeaderAt(t, n) = HeaderAt(s, n)
  BY <1>1, HeaderAtCut DEF Cut, Texts
<1> HIDE DEF t
<1>8. ReplyAt(t, b) =
        IF HeaderAt(t, n) # <<>> \/ LengthIn(t, e, n) < 0
        THEN Reply(<<ErrorAnswer("BadRequest")>>, 0)
        ELSE IF LengthIn(t, e, n) > MaxBody THEN Reply(<<ErrorAnswer("PayloadTooLarge")>>, 0)
        ELSE LET bodyLen == IF r.method = "POST" THEN LengthIn(t, e, n) ELSE 0
             IN  IF n + bodyLen > Len(t) THEN Reply(<<>>, 0)
                 ELSE Reply(<<OkAnswer([method |-> r.method, close |-> ClosesIn(t, e, n),
                                        length |-> 0,
                                        body |-> SubSeq(t, n + 1, n + bodyLen)])>>,
                            IF ClosesIn(t, e, n) THEN 0 ELSE n + bodyLen + 1)
  <2>1. ~(e > Len(t)) /\ ~(e <= Len(t) /\ r.method \notin Methods)
    BY <1>1, <1>3
  <2> QED
    BY <1>2, <1>3, <1>6, <2>1 DEF ReplyAt
<1>9. ClosesIn(t, e, n) = r.close
  BY <1>4 DEF Block, ClosesIn
<1> QED
  BY <1>1, <1>4, <1>7, <1>8, <1>9 DEF BodyLength, t

\* A request that the parser has completed.
LEMMA ReplyToRequest ==
  ASSUME NEW s \in Texts, NEW c \in 0..Len(s), NEW d \in c..Len(s), NEW p \in Parsers,
         NEW b, NEW k, Stands(s, c, p, b, k), p.state = "Done"
  PROVE  ReplyAt(Cut(s, d), b)
           = Reply(<<OkAnswer(p.request)>>, IF p.request.close THEN 0 ELSE k)
<1> DEFINE r == p.request
           len == BodyLength(r)
<1>1. b \in 1..(c + 1) /\ k \in b..(c + 1) /\ AtEnd(s, p, b, k) /\ MaxBody \in Nat
  BY MaxBodyAssumption DEF Stands, AtRequestLine, AtHeaders, AtBody, AtEnd, AtError
<1>2. PICK e \in LFs(s), n \in LFs(s) :
        /\ Block(s, r, b, e, n) /\ Blank(s, n)
        /\ k = n + len + 1 /\ r.body = SubSeq(s, n + 1, k - 1)
  BY <1>1 DEF AtEnd
<1>3. r.length \in 0..MaxBody /\ len \in Nat /\ r \in Requests
  BY <1>1 DEF AtEnd, BodyLength, Parsers
<1>4. n \in Nat /\ n > 0 /\ n + len <= c /\ n <= d /\ d \in 0..Len(s) /\ b \in 1..(d + 1)
  <2>1. n \in 1..Len(s)
    BY LFsAreNumbers DEF Texts
  <2> QED
    BY <1>1, <1>2, <1>3, <2>1 DEF Texts
<1>5. HeaderAt(s, n) = <<>> /\ FirstUnit(HeaderAt(s, n)) \notin HeaderUnits
  BY <1>2, NoneIsNoHeader DEF Blank
<1>6. SubSeq(Cut(s, d), n + 1, n + len) = r.body
  <2>1. k - 1 = n + len
    BY <1>2, <1>3, <1>4
  <2>2. CASE len = 0
    <3>1. SubSeq(Cut(s, d), n + 1, n + len) = <<>> /\ SubSeq(s, n + 1, k - 1) = <<>>
      BY <1>3, <1>4, <2>1, <2>2, SubSeqEmpty
    <3> QED
      BY <1>2, <3>1
  <2>3. CASE len # 0
    <3>1. /\ 1 \in 1..Len(s) /\ d \in 1..Len(s) /\ n + 1 \in 1..(d - 1 + 1)
          /\ n + len \in 1..(d - 1 + 1)
      BY <1>3, <1>4, <2>3 DEF Texts
    <3>2. SubSeq(SubSeq(s, 1, d), n + 1, n + len) = SubSeq(s, 1 + (n + 1) - 1, 1 + (n + len) - 1)
      BY <3>1, SubSeqOfSubSeq DEF Texts
    <3>3. 1 + (n + 1) - 1 = n + 1 /\ 1 + (n + len) - 1 = k - 1
      BY <1>3, <1>4, <2>1
    <3> HIDE DEF len
    <3> QED
      BY <1>2, <3>2, <3>3 DEF Cut
  <2> QED
    BY <2>2, <2>3
<1> DEFINE ok == [method |-> r.method, close |-> r.close, length |-> 0,
                  body |-> SubSeq(Cut(s, d), n + 1, n + len)]
<1>7. OkAnswer(ok) = OkAnswer(r)
  <2>1. [ok EXCEPT !.length = 0] = [r EXCEPT !.length = 0]
    <3>1. [r EXCEPT !.length = 0]
            = [method |-> r.method, close |-> r.close, length |-> 0, body |-> r.body]
      BY <1>3 DEF Requests
    <3>2. ok = [method |-> r.method, close |-> r.close, length |-> 0, body |-> r.body]
      BY <1>6
    <3> HIDE DEF ok, r
    <3> QED
      BY <3>1, <3>2
  <2> HIDE DEF ok
  <2> QED
    BY <2>1 DEF OkAnswer
<1>8. ~(n + len > d) /\ ~(r.length < 0) /\ ~(r.length > MaxBody)
  BY <1>1, <1>3, <1>4
<1>9. ReplyAt(Cut(s, d), b) = Reply(<<OkAnswer(ok)>>, IF r.close THEN 0 ELSE n + len + 1)
  <2> HIDE DEF len, r
  <2>1. ReplyAt(Cut(s, d), b) =
           IF HeaderAt(s, n) # <<>> \/ r.length < 0 THEN Reply(<<ErrorAnswer("BadRequest")>>, 0)
           ELSE IF r.length > MaxBody THEN Reply(<<ErrorAnswer("PayloadTooLarge")>>, 0)
           ELSE IF n + BodyLength(r) > d THEN Reply(<<>>, 0)
           ELSE Reply(<<OkAnswer([method |-> r.method, close |-> r.close, length |-> 0,
                                  body |-> SubSeq(Cut(s, d), n + 1, n + BodyLength(r))])>>,
                      IF r.close THEN 0 ELSE n + BodyLength(r) + 1)
    <3>1. /\ d \in 0..Len(s) /\ b \in 1..(d + 1) /\ n <= d /\ Block(s, r, b, e, n)
          /\ FirstUnit(HeaderAt(s, n)) \notin HeaderUnits
      BY <1>2, <1>4, <1>5
    <3> QED
      BY <3>1, ReplyToBlock
  <2>2. len = BodyLength(r)
    BY DEF len
  <2> QED
    BY <1>5, <1>8, <2>1, <2>2
<1> QED
  BY <1>2, <1>7, <1>9

\* An error, unless a limit on the length of a line struck.
LEMMA ReplyToError ==
  ASSUME NEW s \in Texts, NEW c \in 0..Len(s), NEW p \in Parsers,
         NEW b, NEW k, Stands(s, c, p, b, k), p.state = "Error", ~LongLine(s, c, p, k)
  PROVE  ReplyAt(Cut(s, c), b) = Reply(<<ErrorAnswer(p.error)>>, 0)
<1>1. b \in 1..(c + 1) /\ (BadRequestLine(s, c, p, b) \/ BadHeaders(s, c, p, b))
  BY DEF Stands, AtRequestLine, AtHeaders, AtBody, AtEnd, AtError
<1>2. CASE BadRequestLine(s, c, p, b)
  <2>1. PICK e \in 1..c : Line(s, b, e) /\ FirstUnit(LineIn(s, b, e)) \notin Methods
    BY <1>2 DEF BadRequestLine
  <2>2. LineEnd(Cut(s, c), b) = e /\ LineIn(Cut(s, c), b, e) = LineIn(s, b, e)
    BY <1>1, <2>1, CutLine
  <2>3. Len(Cut(s, c)) = c /\ e <= c /\ ~(e > c)
    BY <2>1, CutIsText
  <2>4. ReplyAt(Cut(s, c), b) = Reply(<<ErrorAnswer("BadRequest")>>, 0)
    BY <2>1, <2>2, <2>3 DEF ReplyAt
  <2>5. ErrorAnswer(p.error) = ErrorAnswer("BadRequest")
    BY <1>2 DEF BadRequestLine, ErrorAnswer
  <2> QED
    BY <2>4, <2>5
<1>3. CASE BadHeaders(s, c, p, b)
  <2> DEFINE r == p.request
  <2>1. PICK e \in LFs(s), n \in LFs(s) :
          /\ n <= c /\ Block(s, r, b, e, n) /\ FirstUnit(HeaderAt(s, n)) \notin HeaderUnits
          /\ \/ HeaderAt(s, n) # <<>> /\ p.error = "InvalidHeader"
             \/ HeaderAt(s, n) = <<>> /\ r.length < 0 /\ p.error = "BadRequest"
             \/ HeaderAt(s, n) = <<>> /\ r.length > MaxBody /\ p.error = "PayloadTooLarge"
    BY <1>3 DEF BadHeaders
  <2>2. r.length \in Int /\ MaxBody \in Nat
    BY MaxBodyAssumption DEF Parsers, Requests
  <2> HIDE DEF r
  <2>3. ReplyAt(Cut(s, c), b) =
           IF HeaderAt(s, n) # <<>> \/ r.length < 0 THEN Reply(<<ErrorAnswer("BadRequest")>>, 0)
           ELSE IF r.length > MaxBody THEN Reply(<<ErrorAnswer("PayloadTooLarge")>>, 0)
           ELSE IF n + BodyLength(r) > c THEN Reply(<<>>, 0)
           ELSE Reply(<<OkAnswer([method |-> r.method, close |-> r.close, length |-> 0,
                                  body |-> SubSeq(Cut(s, c), n + 1, n + BodyLength(r))])>>,
                      IF r.close THEN 0 ELSE n + BodyLength(r) + 1)
    BY <1>1, <2>1, ReplyToBlock
  <2>4. ErrorAnswer("InvalidHeader") = ErrorAnswer("BadRequest")
    BY DEF ErrorAnswer
  <2> QED
    BY <2>1, <2>2, <2>3, <2>4
<1> QED
  BY <1>1, <1>2, <1>3

\* A request that is not complete.
LEMMA NoReplyYet ==
  ASSUME NEW s \in Texts, NEW c \in 0..Len(s), NEW p \in Parsers, Stuck(p),
         NEW b, NEW k, Stands(s, c, p, b, k), p.state \notin {"Done", "Error"}
  PROVE  ReplyAt(Cut(s, c), b) = Reply(<<>>, 0)
<1> DEFINE t == Cut(s, c)
           r == p.request
<1>1. /\ b \in 1..(c + 1) /\ k \in b..(c + 1) /\ p.buffer = SubSeq(s, k, c) /\ k \in 1..(c + 1)
      /\ c \in Nat
  BY DEF Stands, Texts
<1>2. Len(t) = c /\ LFs(t) = {i \in LFs(s) : i <= c} /\ LFs(s) \subseteq Int
  BY CutIsText
<1>3. p.state \in {"RequestLine", "Headers"} => NoLineHeld(s, c, k, p.buffer)
  BY <1>1, StuckWaits, LineOfBuffer
<1> HIDE DEF t
<1>4. CASE p.state = "RequestLine"
  <2>1. k = b
    BY <1>4 DEF Stands, AtRequestLine, AtHeaders, AtBody, AtEnd, AtError
  <2>2. \A i \in LFs(s) : b <= i => c < i
    BY <1>3, <1>4, <2>1 DEF NoLineHeld
  <2>3. LineEnd(t, b) = c + 1
    BY <1>1, <2>2, CutNoLine DEF t
  <2>4. LineEnd(t, b) > Len(t) /\ ~(LineEnd(t, b) <= Len(t))
    BY <1>1, <1>2, <2>3
  <2> QED
    BY <2>4 DEF ReplyAt, t
<1>5. CASE p.state = "Headers"
  <2>1. PICK e \in LFs(s) : Block(s, r, b, e, k)
    BY <1>5 DEF Stands, AtRequestLine, AtHeaders, AtBody, AtEnd, AtError
  <2>2. k - 1 \in LFs(s) /\ e \in Int /\ e <= c /\ k <= c + 1 /\ k \in Int
    BY <1>1, <1>2, <1>5, <2>1 DEF Stands, AtRequestLine, AtHeaders, AtBody, AtEnd, AtError, Block
  <2>3. LineEnd(t, b) = e /\ LineIn(t, b, e) = LineIn(s, b, e)
    BY <1>1, <2>1, <2>2, CutLine DEF Block, t
  <2>4. \A i \in HeadersIn(s, e, k) : HeaderAt(t, i) = HeaderAt(s, i)
    BY <2>2, CutHeaders DEF t
  <2>5. BlockEnds(t, e) = {}
    <3>1. ASSUME NEW i \in BlockEnds(t, e) PROVE FALSE
      <4>1. /\ i \in LFs(s) /\ i \in Int /\ i <= c /\ e < i
            /\ FirstUnit(HeaderAt(t, i)) \notin HeaderUnits
        BY <1>2, <2>2, <3>1 DEF BlockEnds
      <4>2. i < k
        BY <1>1, <1>3, <1>5, <4>1 DEF NoLineHeld
      <4>3. i \in HeadersIn(s, e, k)
        BY <4>1, <4>2 DEF HeadersIn
      <4> QED
        BY <2>1, <2>4, <4>1, <4>3 DEF Block
    <3> QED
      BY <3>1
  <2>6. ~(e > Len(t)) /\ FirstUnit(LineIn(t, b, e)) \in Methods
    BY <1>2, <2>1, <2>2, <2>3 DEF Block
  <2> QED
    BY <2>3, <2>5, <2>6 DEF ReplyAt, t
<1>6. CASE p.state = "Body"
  <2>1. AtBody(s, p, b, k)
    BY <1>6 DEF Stands, AtRequestLine, AtHeaders, AtBody, AtEnd, AtError
  <2> DEFINE n == k - 1
  <2>2. PICK e \in LFs(s) : Block(s, r, b, e, n)
    BY <2>1 DEF AtBody
  <2>3. /\ n \in LFs(s) /\ HeaderAt(s, n) = <<>> /\ FirstUnit(HeaderAt(s, n)) \notin HeaderUnits
        /\ n <= c /\ n \in Int
    BY <1>1, <1>2, <2>1, NoneIsNoHeader DEF AtBody, Blank
  <2>4. /\ BodyLength(r) = p.remaining /\ r.length \in 1..MaxBody /\ MaxBody \in Nat
        /\ BodyLength(r) \in Nat
    BY <2>1, MaxBodyAssumption DEF AtBody, BodyLength
  <2>5. Len(p.buffer) < p.remaining
    BY <1>6, StuckWaits
  <2>6. Len(p.buffer) = c - k + 1
    <3>1. \A i \in k..c : s[i] \in Units
      BY <1>1 DEF Texts
    <3>2. Len(SubSeq(s, k, c)) = IF k <= c THEN c - k + 1 ELSE 0
      BY <1>1, <3>1, SubSeqProperties
    <3> QED
      BY <1>1, <3>2
  <2>7. n + BodyLength(r) > c
    BY <1>1, <2>4, <2>5, <2>6
  <2> HIDE DEF n, r
  <2>8. ReplyAt(Cut(s, c), b) =
           IF HeaderAt(s, n) # <<>> \/ r.length < 0 THEN Reply(<<ErrorAnswer("BadRequest")>>, 0)
           ELSE IF r.length > MaxBody THEN Reply(<<ErrorAnswer("PayloadTooLarge")>>, 0)
           ELSE IF n + BodyLength(r) > c THEN Reply(<<>>, 0)
           ELSE Reply(<<OkAnswer([method |-> r.method, close |-> r.close, length |-> 0,
                                  body |-> SubSeq(Cut(s, c), n + 1, n + BodyLength(r))])>>,
                      IF r.close THEN 0 ELSE n + BodyLength(r) + 1)
    <3>1. /\ b \in 1..(c + 1) /\ n \in LFs(s) /\ n <= c /\ Block(s, r, b, e, n)
          /\ FirstUnit(HeaderAt(s, n)) \notin HeaderUnits
      BY <1>1, <2>2, <2>3
    <3> QED
      BY <3>1, ReplyToBlock
  <2>9. ~(r.length < 0) /\ ~(r.length > MaxBody)
    BY <2>4
  <2> QED
    BY <2>3, <2>7, <2>8, <2>9
<1> QED
  BY <1>4, <1>5, <1>6 DEF Parsers

\* An answer; what a position calls for is at most one, and the next request
\* begins further on.
AnswerSet == [status : {200, 400, 413}, request : Requests]

LEMMA NoRequestIsRequest == NoRequest \in Requests
  BY DEF NoRequest, Requests

LEMMA ErrorAnswerIsAnswer ==
  ASSUME NEW e
  PROVE  ErrorAnswer(e) \in AnswerSet
  BY NoRequestIsRequest DEF ErrorAnswer, AnswerSet

LEMMA OkAnswerIsAnswer ==
  ASSUME NEW r \in Requests
  PROVE  OkAnswer(r) \in AnswerSet
  BY DEF OkAnswer, AnswerSet, Requests

GoesOn(t, i, r) ==
  /\ r.answers \in Seq(AnswerSet)
  /\ r.next = 0 \/ r.next \in (i + 1)..(Len(t) + 1)

LEMMA LengthInIsInt ==
  ASSUME NEW t \in Texts, NEW m, NEW n
  PROVE  LengthIn(t, m, n) \in Int
<1> DEFINE L == {k \in HeadersIn(t, m, n) : FirstUnit(HeaderAt(t, k)) \in DOMAIN LengthOf}
<1>1. L \subseteq 0..Len(t) /\ Len(t) \in Nat
  BY LFsAreNumbers DEF HeadersIn, Texts
<1>2. L # {} => Max(L) \in L
  <2> HIDE DEF L
  <2> QED
    BY <1>1, GreatestMember
<1>3. L # {} => LengthOf[FirstUnit(HeaderAt(t, Max(L)))] \in Int
  BY <1>2, LengthOfIsInt
<1> QED
  BY <1>3 DEF LengthIn

LEMMA ReplyGoesOn ==
  ASSUME NEW t \in Texts, NEW i \in 1..(Len(t) + 1)
  PROVE  GoesOn(t, i, ReplyAt(t, i))
<1> DEFINE e == LineEnd(t, i)
           method == FirstUnit(LineIn(t, i, e))
           ends == BlockEnds(t, e)
           n == Min(ends)
           cl == LengthIn(t, e, n)
           len == IF method = "POST" THEN cl ELSE 0
           close == ClosesIn(t, e, n)
           ok == OkAnswer([method |-> method, close |-> close, length |-> 0,
                           body |-> SubSeq(t, n + 1, n + len)])
           done == Reply(<<ok>>, IF close THEN 0 ELSE n + len + 1)
<1>1. Len(t) \in Nat /\ t \in Seq(Units) /\ LFs(t) \subseteq 1..Len(t)
  BY LFsAreNumbers DEF Texts
<1>2. e \in i..(Len(t) + 1)
  <2> DEFINE S == {k \in LFs(t) : k >= i} \cup {Len(t) + 1}
  <2>1. S \subseteq i..(Len(t) + 1) /\ S # {} /\ S \subseteq Nat
    BY <1>1
  <2>2. Min(S) \in S
    <3> HIDE DEF S
    <3> QED
      BY <2>1, LowestMember
  <2> QED
    BY <2>1, <2>2 DEF LineEnd
<1>3. ends # {} => n \in LFs(t) /\ n > e
  <2>1. ends \subseteq Nat
    BY <1>1 DEF BlockEnds
  <2>2. ends # {} => n \in ends
    <3> HIDE DEF ends
    <3> QED
      BY <2>1, LowestMember
  <2> QED
    BY <2>2 DEF BlockEnds
<1>4. cl \in Int /\ MaxBody \in Nat
  BY LengthInIsInt, MaxBodyAssumption
<1>5. GoesOn(t, i, Reply(<<>>, 0))
  BY DEF GoesOn, Reply
<1>6. \A x : GoesOn(t, i, Reply(<<ErrorAnswer(x)>>, 0))
  BY ErrorAnswerIsAnswer DEF GoesOn, Reply
<1>7. ASSUME method \in Methods, ends # {}, ~(cl < 0), ~(n + len > Len(t))
      PROVE  GoesOn(t, i, done)
  <2>1. len \in Nat /\ n \in 1..Len(t) /\ n > e /\ n + len \in 0..Len(t) /\ i <= e
    BY <1>1, <1>2, <1>3, <1>4, <1>7
  <2>2. SubSeq(t, n + 1, n + len) \in Seq(Units)
    <3> HIDE DEF n, len
    <3>1. \A x \in (n + 1)..(n + len) : t[x] \in Units
      BY <1>1, <2>1
    <3> QED
      BY <2>1, <3>1, SubSeqProperties
  <2>3. close \in BOOLEAN
    BY DEF ClosesIn
  <2>4. ok \in AnswerSet
    <3> DEFINE r == [method |-> method, close |-> close, length |-> 0,
                     body |-> SubSeq(t, n + 1, n + len)]
    <3>1. r \in Requests
      <4> HIDE DEF method, close, n, len
      <4> QED
        BY <1>7, <2>2, <2>3 DEF Requests
    <3> HIDE DEF r
    <3>2. OkAnswer(r) \in AnswerSet
      BY <3>1, OkAnswerIsAnswer
    <3> QED
      BY <3>2 DEF r
  <2>5. n + len + 1 \in (i + 1)..(Len(t) + 1)
    <3> HIDE DEF n, len, e
    <3> QED
      BY <1>1, <1>2, <2>1
  <2> HIDE DEF ok, close, n, len
  <2> QED
    BY <2>4, <2>5 DEF GoesOn, Reply
<1>8. ReplyAt(t, i) =
        CASE e > Len(t) -> Reply(<<>>, 0)
          [] e <= Len(t) /\ method \notin Methods -> Reply(<<ErrorAnswer("BadRequest")>>, 0)
          [] OTHER ->
               IF ends = {} THEN Reply(<<>>, 0)
               ELSE IF HeaderAt(t, n) # <<>> \/ cl < 0
                    THEN Reply(<<ErrorAnswer("BadRequest")>>, 0)
               ELSE IF cl > MaxBody THEN Reply(<<ErrorAnswer("PayloadTooLarge")>>, 0)
               ELSE IF n + len > Len(t) THEN Reply(<<>>, 0)
               ELSE done
  BY DEF ReplyAt
<1>9. e > Len(t) \/ (e <= Len(t) /\ method \notin Methods) \/ (e <= Len(t) /\ method \in Methods)
  <2> HIDE DEF e, method
  <2> QED
    BY <1>1, <1>2
<1> HIDE DEF e, method, ends, n, cl, len, done
<1>10. CASE e > Len(t)
  <2>1. ReplyAt(t, i) = Reply(<<>>, 0)
    BY <1>1, <1>2, <1>8, <1>10
  <2> QED
    BY <1>5, <2>1
<1>11. CASE e <= Len(t) /\ method \notin Methods
  <2>1. ReplyAt(t, i) = Reply(<<ErrorAnswer("BadRequest")>>, 0)
    BY <1>1, <1>2, <1>8, <1>11
  <2> QED
    BY <1>6, <2>1
<1>12. CASE e <= Len(t) /\ method \in Methods
  <2>1. ~(e > Len(t)) /\ ~(e <= Len(t) /\ method \notin Methods)
    BY <1>1, <1>2, <1>12
  <2>2. ReplyAt(t, i) =
               IF ends = {} THEN Reply(<<>>, 0)
               ELSE IF HeaderAt(t, n) # <<>> \/ cl < 0
                    THEN Reply(<<ErrorAnswer("BadRequest")>>, 0)
               ELSE IF cl > MaxBody THEN Reply(<<ErrorAnswer("PayloadTooLarge")>>, 0)
               ELSE IF n + len > Len(t) THEN Reply(<<>>, 0)
               ELSE done
    BY <1>8, <2>1
  <2> QED
    BY <1>5, <1>6, <1>7, <1>12, <2>2
<1> QED
  BY <1>9, <1>10, <1>11, <1>12

\* What a position calls for, given what the later ones do.
AnswersStep(t, f, i) ==
  LET r == ReplyAt(t, i)
  IN  r.answers \o (IF r.next = 0 THEN <<>> ELSE f[r.next])

\* The recursion in AnswersFrom has a solution: L + 1 rounds over any function
\* reach it, since a position only refers to later ones.
LEMMA AnswersFromSolves ==
  ASSUME NEW t \in Texts
  PROVE  \E f \in [1..(Len(t) + 1) -> Seq(AnswerSet)] :
            f = [i \in 1..(Len(t) + 1) |-> AnswersStep(t, f, i)]
<1> DEFINE L == Len(t)
           D == 1..(L + 1)
           S == [D -> Seq(AnswerSet)]
           Round(f) == [i \in D |-> AnswersStep(t, f, i)]
           F == [f \in S |-> Round(f)]
           start == [i \in D |-> <<>>]
<1>1. L \in Nat /\ L + 1 \in Nat
  BY DEF Texts
<1>2. ASSUME NEW f \in S, NEW i \in D PROVE AnswersStep(t, f, i) \in Seq(AnswerSet)
  <2> DEFINE r == ReplyAt(t, i)
  <2>1. GoesOn(t, i, r)
    BY ReplyGoesOn
  <2>2. r.answers \in Seq(AnswerSet) /\ (r.next # 0 => r.next \in D)
    BY <1>1, <2>1 DEF GoesOn
  <2> HIDE DEF r
  <2>3. (IF r.next = 0 THEN <<>> ELSE f[r.next]) \in Seq(AnswerSet)
    <3>1. r.next # 0 => f[r.next] \in Seq(AnswerSet)
      BY <2>2
    <3>2. <<>> \in Seq(AnswerSet)
      OBVIOUS
    <3> QED
      BY <3>1, <3>2
  <2>4. r.answers \o (IF r.next = 0 THEN <<>> ELSE f[r.next]) \in Seq(AnswerSet)
    BY <2>2, <2>3, ConcatProperties
  <2> QED
    BY <2>4 DEF AnswersStep, r
<1>3. F \in [S -> S]
  <2>1. ASSUME NEW f \in S PROVE Round(f) \in S
    BY <1>2
  <2> HIDE DEF Round, S
  <2> QED
    BY <2>1
<1>4. start \in S
  <2>1. <<>> \in Seq(AnswerSet)
    OBVIOUS
  <2> QED
    BY <2>1
<1>5. PICK g : Iterates(g, S, F, start, L + 1)
  <2> HIDE DEF S, F, start, L
  <2> QED
    BY <1>1, <1>3, <1>4, Iterated
<1>6. /\ g \in [0..(L + 1) -> S]
      /\ \A n \in 1..(L + 1) : g[n] = F[g[n - 1]]
  BY <1>5 DEF Iterates
<1>7. ASSUME NEW n \in 1..(L + 1) PROVE g[n - 1] \in S /\ g[n] \in S /\ g[n] = Round(g[n - 1])
  <2>1. n - 1 \in 0..(L + 1) /\ n \in 0..(L + 1)
    BY <1>1
  <2>2. g[n - 1] \in S /\ g[n] \in S
    <3> HIDE DEF S
    <3> QED
      BY <1>6, <2>1
  <2>3. g[n] = F[g[n - 1]]
    BY <1>6
  <2> HIDE DEF S, Round
  <2> QED
    BY <2>2, <2>3
\* After n rounds the last n positions are settled.
<1> DEFINE Settled(n) == \A i \in D : i > L + 1 - n => g[n][i] = AnswersStep(t, g[n], i)
           T == {n \in 0..(L + 1) : Settled(n)}
<1>8. 0 \in T
  BY <1>1
<1>9. ASSUME NEW n \in 1..(L + 1), n - 1 \in T PROVE n \in T
  <2>1. ASSUME NEW i \in D, i > L + 1 - n PROVE g[n][i] = AnswersStep(t, g[n], i)
    <3> DEFINE r == ReplyAt(t, i)
    <3>1. g[n][i] = AnswersStep(t, g[n - 1], i)
      BY <1>7
    <3>2. ASSUME r.next # 0 PROVE g[n - 1][r.next] = g[n][r.next]
      <4>1. r.next \in (i + 1)..(L + 1)
        BY <3>2, ReplyGoesOn DEF GoesOn
      <4>2. r.next \in D /\ r.next > L + 1 - (n - 1)
        <5> HIDE DEF r, L
        <5> QED
          BY <1>1, <2>1, <4>1
      <4>3. g[n - 1][r.next] = AnswersStep(t, g[n - 1], r.next)
        BY <1>9, <4>2
      <4>4. g[n][r.next] = AnswersStep(t, g[n - 1], r.next)
        BY <1>7, <4>2
      <4> QED
        BY <4>3, <4>4
    <3>3. AnswersStep(t, g[n], i) = AnswersStep(t, g[n - 1], i)
      BY <3>2 DEF AnswersStep
    <3> QED
      BY <3>1, <3>3
  <2>2. n \in 0..(L + 1)
    BY <1>1
  <2> QED
    BY <2>1, <2>2
<1>10. L + 1 \in T
  <2>1. \A n \in 0..(L + 1) : n \in T
    <3> HIDE DEF T, L
    <3> QED
      BY <1>1, <1>8, <1>9, UpTo
  <2> QED
    BY <1>1, <2>1
<1> DEFINE h == g[L + 1]
<1>11. h \in S
  <2>1. L + 1 \in 1..(L + 1)
    BY <1>1
  <2> QED
    BY <1>7, <2>1
<1>12. \A i \in D : h[i] = AnswersStep(t, h, i)
  <2>1. \A i \in D : i > L + 1 - (L + 1)
    BY <1>1
  <2> QED
    BY <1>10, <2>1
<1>13. h = Round(h)
  <2> HIDE DEF h
  <2> QED
    BY <1>11, <1>12
<1> QED
  <2> HIDE DEF h
  <2> QED
    BY <1>11, <1>13

LEMMA AnswersFromIs ==
  ASSUME NEW t \in Texts
  PROVE  /\ AnswersFrom(t) = [i \in 1..(Len(t) + 1) |-> AnswersStep(t, AnswersFrom(t), i)]
<1> DEFINE Solves(f) == f = [i \in 1..(Len(t) + 1) |-> AnswersStep(t, f, i)]
<1>1. AnswersFrom(t) = CHOOSE f : Solves(f)
  BY DEF AnswersFrom, AnswersStep
<1>2. \E f : Solves(f)
  BY AnswersFromSolves
<1> HIDE DEF Solves
<1>3. Solves(AnswersFrom(t))
  BY <1>1, <1>2
<1> QED
  BY <1>3 DEF Solves

(***************************************************************************)
(* What a connection that has answered some requests still owes.            *)
(***************************************************************************)
Replies == Seq(AnswerSet)

\* What the first d units of s call for from position b on.
Due(s, d, b) == AnswersFrom(Cut(s, d))[b]

\* With the answers in sent given, what is due begins at b, wherever the stream is cut
\* after its first c units.
Owing(s, c, sent, b) == \A d \in c..Len(s) : Answers(Cut(s, d)) = sent \o Due(s, d, b)

\* The same with the answer a being given.
Following(a, s, d, b) == IF a.request.close THEN <<>> ELSE Due(s, d, b)

OwingAfter(s, c, sent, a, b) ==
  \A d \in c..Len(s) : Answers(Cut(s, d)) = sent \o (<<a>> \o Following(a, s, d, b))

LEMMA ReplyIsTyped ==
  ASSUME NEW t \in Texts, NEW i, i \in 1..(Len(t) + 1)
  PROVE  GoesOn(t, i, ReplyAt(t, i))
  BY ReplyGoesOn

\* A solution of the recursion in AnswersFrom is of the expected type, the last position
\* first.
LEMMA AnswersAreTyped ==
  ASSUME NEW t \in Texts, NEW b \in 1..(Len(t) + 1)
  PROVE  AnswersFrom(t)[b] \in Replies
<1> DEFINE L == Len(t)
           f == AnswersFrom(t)
           T == {n \in 0..L : \A i \in (L + 1 - n)..(L + 1) : f[i] \in Replies}
<1>1. L \in Nat
  BY DEF Texts
<1>2. ASSUME NEW i \in 1..(L + 1), \A j \in (i + 1)..(L + 1) : f[j] \in Replies
      PROVE  f[i] \in Replies
  <2> DEFINE r == ReplyAt(t, i)
  <2>1. GoesOn(t, i, r)
    BY ReplyIsTyped
  <2>2. f[i] = r.answers \o (IF r.next = 0 THEN <<>> ELSE f[r.next])
    <3>1. f = [j \in 1..(L + 1) |-> AnswersStep(t, f, j)]
      BY AnswersFromIs
    <3> HIDE DEF f
    <3>2. f[i] = AnswersStep(t, f, i)
      BY <3>1
    <3> QED
      BY <3>2 DEF AnswersStep
  <2> HIDE DEF r, f
  <2>3. r.answers \in Replies /\ (r.next = 0 \/ r.next \in (i + 1)..(L + 1))
    BY <2>1 DEF GoesOn, Replies
  <2>4. (IF r.next = 0 THEN <<>> ELSE f[r.next]) \in Replies
    BY <1>2, <2>3 DEF Replies
  <2> QED
    BY <2>2, <2>3, <2>4, ConcatProperties DEF Replies
<1> HIDE DEF f
<1>3. 0 \in T
  <2>1. f[L + 1] \in Replies
    BY <1>1, <1>2
  <2> QED
    BY <1>1, <2>1
<1>4. ASSUME NEW n \in 1..L, n - 1 \in T PROVE n \in T
  <2>1. \A i \in (L + 2 - n)..(L + 1) : f[i] \in Replies
    BY <1>1, <1>4
  <2>2. f[L + 1 - n] \in Replies
    <3>1. L + 1 - n \in 1..(L + 1)
      BY <1>1
    <3>2. \A j \in ((L + 1 - n) + 1)..(L + 1) : f[j] \in Replies
      BY <1>1, <2>1
    <3> QED
      BY <1>2, <3>1, <3>2
  <2>3. \A i \in (L + 1 - n)..(L + 1) : i = L + 1 - n \/ i \in (L + 2 - n)..(L + 1)
    BY <1>1
  <2> QED
    BY <1>1, <2>1, <2>2, <2>3
<1>5. \A n \in 0..L : n \in T
  <2> HIDE DEF T
  <2> QED
    BY <1>1, <1>3, <1>4, UpTo
<1>6. L \in T
  BY <1>1, <1>5
<1> QED
  BY <1>1, <1>6 DEF f

LEMMA DueIsTyped ==
  ASSUME NEW s \in Texts, NEW d, d \in 0..Len(s), NEW b, b \in 1..(d + 1)
  PROVE  Due(s, d, b) \in Replies
<1>1. Cut(s, d) \in Texts /\ Len(Cut(s, d)) = d
  BY CutIsText
<1> QED
  BY <1>1, AnswersAreTyped DEF Due

\* What is due from k on, which is 0 when nothing is.
DueFrom(s, d, k) == IF k = 0 THEN <<>> ELSE Due(s, d, k)

\* What is due from b on, by what the position b calls for.
LEMMA DueByReply ==
  ASSUME NEW s \in Texts, NEW d, d \in 0..Len(s), NEW b, b \in 1..(d + 1), NEW x, NEW k,
         ReplyAt(Cut(s, d), b) = Reply(x, k)
  PROVE  Due(s, d, b) = x \o DueFrom(s, d, k)
<1> DEFINE t == Cut(s, d)
           f == AnswersFrom(t)
<1>1. t \in Texts /\ Len(t) = d
  BY CutIsText
<1>2. f = [i \in 1..(d + 1) |-> AnswersStep(t, f, i)]
  BY <1>1, AnswersFromIs
<1>3. Due(s, d, b) = f[b] /\ Due(s, d, k) = f[k] /\ ReplyAt(t, b) = Reply(x, k)
  BY DEF Due
<1> HIDE DEF f, t
<1>4. f[b] = AnswersStep(t, f, b)
  BY <1>2
<1> QED
  BY <1>3, <1>4 DEF AnswersStep, Reply, DueFrom

\* Nothing has been read or answered yet.
LEMMA OwingFirst ==
  ASSUME NEW s \in Texts
  PROVE  Owing(s, 0, <<>>, 1)
<1> SUFFICES ASSUME NEW d \in 0..Len(s) PROVE Answers(Cut(s, d)) = <<>> \o Due(s, d, 1)
  BY DEF Owing
<1>1. Due(s, d, 1) \in Replies
  <2>1. d \in 0..Len(s) /\ 1 \in 1..(d + 1)
    BY DEF Texts
  <2> QED
    BY <2>1, DueIsTyped
<1>2. Answers(Cut(s, d)) = Due(s, d, 1)
  BY DEF Answers, Due
<1> QED
  BY <1>1, <1>2, ConcatEmptySeq DEF Replies

LEMMA OwingLater ==
  ASSUME NEW s \in Texts, NEW c \in 0..Len(s), NEW d \in c..Len(s), NEW sent, NEW b,
         Owing(s, c, sent, b)
  PROVE  Owing(s, d, sent, b)
<1>1. \A e \in d..Len(s) : e \in c..Len(s)
  BY DEF Texts
<1> QED
  BY <1>1 DEF Owing

\* A complete request: its answer is due, and what follows it.
LEMMA OwingRequest ==
  ASSUME NEW s \in Texts, NEW c \in 0..Len(s), NEW p \in Parsers, NEW b, NEW k,
         Stands(s, c, p, b, k), p.state = "Done", NEW sent, Owing(s, c, sent, b)
  PROVE  OwingAfter(s, c, sent, OkAnswer(p.request), k)
<1> DEFINE a == OkAnswer(p.request)
<1> SUFFICES ASSUME NEW d \in c..Len(s)
             PROVE  Due(s, d, b) = <<a>> \o Following(a, s, d, k)
  BY DEF Owing, OwingAfter
<1>1. ReplyAt(Cut(s, d), b) = Reply(<<a>>, IF p.request.close THEN 0 ELSE k)
  BY ReplyToRequest
<1>2. d \in 0..Len(s) /\ b \in 1..(d + 1) /\ ~(k = 0)
  BY DEF Stands, Texts
<1>3. a.request.close = p.request.close
  BY DEF OkAnswer, Parsers, Requests
<1> HIDE DEF a
<1>4. CASE p.request.close
  <2>1. ReplyAt(Cut(s, d), b) = Reply(<<a>>, 0)
    BY <1>1, <1>4
  <2>2. Due(s, d, b) = <<a>> \o DueFrom(s, d, 0)
    BY <1>2, <2>1, DueByReply
  <2> QED
    BY <1>3, <1>4, <2>2 DEF Following, DueFrom
<1>5. CASE ~p.request.close
  <2>1. ReplyAt(Cut(s, d), b) = Reply(<<a>>, k)
    BY <1>1, <1>5
  <2>3. d \in 0..Len(s) /\ b \in 1..(d + 1)
    BY <1>2
  <2>2. Due(s, d, b) = <<a>> \o DueFrom(s, d, k)
    BY <2>1, <2>3, DueByReply
  <2> QED
    BY <1>2, <1>3, <1>5, <2>2 DEF Following, DueFrom
<1> QED
  BY <1>4, <1>5

LEMMA FollowingIsTyped ==
  ASSUME NEW s \in Texts, NEW d, d \in 0..Len(s), NEW b, b \in 1..(d + 1), NEW a
  PROVE  Following(a, s, d, b) \in Replies
<1>1. Due(s, d, b) \in Replies /\ <<>> \in Replies
  BY DueIsTyped DEF Replies
<1> QED
  BY <1>1 DEF Following

\* The answer has been given.
LEMMA OwingAnswered ==
  ASSUME NEW s \in Texts, NEW c \in 0..Len(s), NEW sent \in Replies, NEW a \in AnswerSet,
         NEW b \in 1..(c + 1), OwingAfter(s, c, sent, a, b)
  PROVE  \A d \in c..Len(s) :
            Answers(Cut(s, d)) = Append(sent, a) \o Following(a, s, d, b)
<1> SUFFICES ASSUME NEW d \in c..Len(s)
             PROVE  Answers(Cut(s, d)) = Append(sent, a) \o Following(a, s, d, b)
  OBVIOUS
<1>1. Following(a, s, d, b) \in Replies
  <2>1. d \in 0..Len(s) /\ b \in 1..(d + 1)
    BY DEF Texts
  <2> QED
    BY <2>1, FollowingIsTyped
<1>2. Answers(Cut(s, d)) = sent \o (<<a>> \o Following(a, s, d, b))
  BY DEF OwingAfter
<1>3. <<a>> \in Replies
  BY DEF Replies
<1>4. (sent \o <<a>>) \o Following(a, s, d, b) = sent \o (<<a>> \o Following(a, s, d, b))
  BY <1>1, <1>3, ConcatAssociative DEF Replies
<1>5. Append(sent, a) = sent \o <<a>>
  BY AppendIsConcat DEF Replies
<1> QED
  BY <1>2, <1>4, <1>5

LEMMA OwingNext ==
  ASSUME NEW s \in Texts, NEW c \in 0..Len(s), NEW sent \in Replies, NEW a \in AnswerSet,
         NEW b \in 1..(c + 1), OwingAfter(s, c, sent, a, b), ~a.request.close
  PROVE  Owing(s, c, Append(sent, a), b)
  BY OwingAnswered DEF Owing, Following

LEMMA NothingAfterClose ==
  ASSUME NEW s \in Texts, NEW c \in 0..Len(s), NEW sent \in Replies, NEW a \in AnswerSet,
         NEW b \in 1..(c + 1), OwingAfter(s, c, sent, a, b), a.request.close
  PROVE  Append(sent, a) = Answers(Cut(s, c))
<1>1. Answers(Cut(s, c)) = Append(sent, a) \o <<>>
  <2>1. c \in c..Len(s)
    BY DEF Texts
  <2> QED
    BY <2>1, OwingAnswered DEF Following
<1>2. Append(sent, a) \in Replies
  BY AppendProperties DEF Replies
<1> QED
  BY <1>1, <1>2, ConcatEmptySeq DEF Replies

\* The parser waits for more: everything has been answered.
LEMMA NothingOwed ==
  ASSUME NEW s \in Texts, NEW c \in 0..Len(s), NEW p \in Parsers, Stuck(p),
         p.state \notin {"Done", "Error"}, NEW b, StandsIn(s, c, p, b),
         NEW sent \in Replies, Owing(s, c, sent, b)
  PROVE  sent = Answers(Cut(s, c))
<1>1. PICK k : Stands(s, c, p, b, k)
  BY DEF StandsIn
<1>2. ReplyAt(Cut(s, c), b) = Reply(<<>>, 0)
  BY <1>1, NoReplyYet
<1>3. c \in c..Len(s) /\ b \in 1..(c + 1)
  BY <1>1 DEF Texts, Stands
<1>4. Due(s, c, b) = <<>> \o DueFrom(s, c, 0)
  BY <1>2, <1>3, DueByReply
<1>5. Due(s, c, b) = <<>>
  <2>1. <<>> \o <<>> = <<>>
    OBVIOUS
  <2> QED
    BY <1>4, <2>1 DEF DueFrom
<1>6. Answers(Cut(s, c)) = sent \o <<>>
  BY <1>3, <1>5 DEF Owing
<1> QED
  BY <1>6, ConcatEmptySeq DEF Replies

\* An error: it is the last thing due.
LEMMA OnlyErrorOwed ==
  ASSUME NEW s \in Texts, NEW c \in 0..Len(s), NEW p \in Parsers,
         p.state = "Error", NEW b, NEW k, Stands(s, c, p, b, k), ~LongLine(s, c, p, k),
         NEW sent \in Replies, Owing(s, c, sent, b)
  PROVE  Append(sent, ErrorAnswer(p.error)) = Answers(Cut(s, c))
<1> DEFINE a == ErrorAnswer(p.error)
<1>1. ReplyAt(Cut(s, c), b) = Reply(<<a>>, 0)
  BY ReplyToError
<1>2. a \in AnswerSet
  BY ErrorAnswerIsAnswer
<1> HIDE DEF a
<1>3. c \in c..Len(s) /\ b \in 1..(c + 1)
  BY DEF Texts, Stands
<1>4. Due(s, c, b) = <<a>> \o DueFrom(s, c, 0)
  BY <1>1, <1>3, DueByReply
<1>5. Due(s, c, b) = <<a>>
  <2>1. <<a>> \in Replies
    BY <1>2 DEF Replies
  <2>2. <<a>> \o <<>> = <<a>>
    BY <2>1, ConcatEmptySeq DEF Replies
  <2> QED
    BY <1>4, <2>2 DEF DueFrom
<1>6. Answers(Cut(s, c)) = sent \o <<a>>
  BY <1>3, <1>5 DEF Owing
<1>7. Append(sent, a) = sent \o <<a>>
  BY <1>2, AppendIsConcat DEF Replies
<1> QED
  BY <1>6, <1>7 DEF a

\* A limit struck.
LEMMA LimitStruck ==
  ASSUME NEW s \in Texts, NEW c \in 0..Len(s), NEW p \in Parsers, NEW b, NEW k,
         Stands(s, c, p, b, k), LongLine(s, c, p, k)
  PROVE  HasLongLine(s) /\ ErrorAnswer(p.error).status = 400
<1>1. /\ k \in 1..(c + 1) /\ c - k >= MaxLine /\ \A j \in k..c : s[j] # "LF"
      /\ p.error \in {"BadRequest", "InvalidHeader"} /\ MaxLine \in Nat
  BY MaxLineAssumption DEF Stands, LongLine
<1>2. k \in DOMAIN s /\ k + MaxLine <= Len(s) /\ \A j \in k..(k + MaxLine) : j \in k..c
  BY <1>1 DEF Texts
<1>3. HasLongLine(s)
  BY <1>1, <1>2 DEF HasLongLine
<1> QED
  BY <1>1, <1>3 DEF ErrorAnswer

LEMMA PrefixOfConcat ==
  ASSUME NEW x \in Replies, NEW y \in Replies
  PROVE  IsPrefix(x, x \o y)
<1>1. /\ x \o y \in Replies /\ Len(x \o y) = Len(x) + Len(y) /\ Len(x) \in Nat /\ Len(y) \in Nat
      /\ \A i \in 1..Len(x) : (x \o y)[i] = x[i]
  BY ConcatProperties DEF Replies
<1>2. SubSeq(x, 1, Len(x)) = [i \in 1..Len(x) |-> x[i]]
  <2>1. Len(x) \in 0..Len(x)
    BY <1>1
  <2> QED
    BY <2>1, Prefix DEF Replies
<1>3. SubSeq(x \o y, 1, Len(x)) = [i \in 1..Len(x) |-> (x \o y)[i]]
  <2>1. Len(x) \in 0..Len(x \o y)
    BY <1>1
  <2> QED
    BY <1>1, <2>1, Prefix DEF Replies
<1> QED
  BY <1>1, <1>2, <1>3 DEF IsPrefix

LEMMA SentIsPrefix ==
  ASSUME NEW s \in Texts, NEW c \in 0..Len(s), NEW b \in 1..(c + 1), NEW sent \in Replies,
         Owing(s, c, sent, b)
  PROVE  IsPrefix(sent, Answers(Cut(s, c)))
<1>1. c \in c..Len(s)
  BY DEF Texts
<1>2. Answers(Cut(s, c)) = sent \o Due(s, c, b) /\ Due(s, c, b) \in Replies
  BY <1>1, DueIsTyped DEF Owing
<1> QED
  BY <1>2, PrefixOfConcat

LEMMA SentIsPrefixAfter ==
  ASSUME NEW s \in Texts, NEW c \in 0..Len(s), NEW b \in 1..(c + 1), NEW sent \in Replies,
         NEW a \in AnswerSet, OwingAfter(s, c, sent, a, b)
  PROVE  /\ IsPrefix(sent, Answers(Cut(s, c)))
         /\ IsPrefix(Append(sent, a), Answers(Cut(s, c)))
<1>1. c \in c..Len(s)
  BY DEF Texts
<1>6. Following(a, s, c, b) \in Replies
  BY FollowingIsTyped
<1>2. Answers(Cut(s, c)) = Append(sent, a) \o Following(a, s, c, b)
  BY <1>1, OwingAnswered
<1>3. Answers(Cut(s, c)) = sent \o (<<a>> \o Following(a, s, c, b))
  BY <1>1 DEF OwingAfter
<1>4. Append(sent, a) \in Replies /\ <<a>> \in Replies
  BY AppendProperties DEF Replies
<1>5. <<a>> \o Following(a, s, c, b) \in Replies
  BY <1>4, <1>6, ConcatProperties DEF Replies
<1> QED
  BY <1>2, <1>3, <1>4, <1>5, <1>6, PrefixOfConcat

LEMMA FrontAndLast ==
  ASSUME NEW x \in Replies, NEW a \in AnswerSet
  PROVE  /\ Append(x, a) \in Replies /\ Append(x, a) # <<>>
         /\ Front(Append(x, a)) = x /\ Last(Append(x, a)) = a
<1> DEFINE y == Append(x, a)
<1>1. /\ y \in Replies /\ y # <<>> /\ Len(y) = Len(x) + 1 /\ Len(x) \in Nat
      /\ \A i \in 1..Len(x) : y[i] = x[i]
      /\ y[Len(x) + 1] = a
  BY AppendProperties DEF Replies
<1> HIDE DEF y
<1>2. SubSeq(y, 1, Len(x)) = [i \in 1..Len(x) |-> y[i]]
  <2>1. Len(x) \in 0..Len(y)
    BY <1>1
  <2> QED
    BY <1>1, <2>1, Prefix DEF Replies
<1>3. x = [i \in 1..Len(x) |-> x[i]]
  BY DEF Replies
<1>4. Len(y) - 1 = Len(x)
  BY <1>1
<1>5. Front(y) = x
  BY <1>1, <1>2, <1>3, <1>4 DEF Front
<1> QED
  BY <1>1, <1>5 DEF Last, y
=============================================================================
