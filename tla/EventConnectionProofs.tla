------------------------ MODULE EventConnectionProofs ------------------------
(***************************************************************************)
(* Proofs about EventConnection: the types of the connection's state, and   *)
(* that a client which does not pipeline gets the answers its requests call *)
(* for, whole and in order, and all of them before the connection ends      *)
(* regularly.                                                               *)
(*                                                                          *)
(* The inductive invariant is that of HandleConnectionProofs, and counts    *)
(* requests and answers: reset_conn_to_reading() drops what the parser      *)
(* holds, which is harmless as long as the client has sent nothing behind   *)
(* the request that is being answered.                                      *)
(***************************************************************************)
EXTENDS EventConnection, ParserProofs, FiniteSetTheorems

(***************************************************************************)
(* Counting the requests that end before a position.                        *)
(***************************************************************************)
Before(E, b) == Cardinality({e \in E : e < b})

LEMMA BeforeIsNumber ==
  ASSUME NEW N \in Nat, NEW E, E \subseteq 1..N, NEW b
  PROVE  Before(E, b) \in Nat /\ IsFiniteSet({e \in E : e < b})
<1>1. IsFiniteSet(1..N)
  <2>1. 1 \in Int /\ N \in Int
    OBVIOUS
  <2> QED
    BY <2>1, FS_Interval
<1>2. {e \in E : e < b} \subseteq 1..N
  OBVIOUS
<1>3. IsFiniteSet({e \in E : e < b})
  BY <1>1, <1>2, FS_Subset
<1> QED
  BY <1>3, FS_CardinalityType DEF Before

LEMMA BeforeGrows ==
  ASSUME NEW N \in Nat, NEW E, E \subseteq 1..N, NEW b \in Int, NEW n \in Int, b <= n
  PROVE  Before(E, b) <= Before(E, n)
<1>1. {e \in E : e < b} \subseteq {e \in E : e < n}
  <2>1. ASSUME NEW e \in E, e < b PROVE e < n
    <3>1. e \in Int
      OBVIOUS
    <3> QED
      BY <2>1, <3>1
  <2> QED
    BY <2>1
<1>2. IsFiniteSet({e \in E : e < n})
  BY BeforeIsNumber
<1> QED
  BY <1>1, <1>2, FS_Subset DEF Before

\* The next end adds one.
LEMMA BeforeOneMore ==
  ASSUME NEW N \in Nat, NEW E, E \subseteq 1..N, NEW b \in Int, NEW e \in E, b <= e,
         \A f \in E : b <= f => e <= f
  PROVE  Before(E, e + 1) = Before(E, b) + 1
<1> DEFINE S == {f \in E : f < b}
<1>1. E \subseteq Int /\ e \in Int
  OBVIOUS
<1>2. {f \in E : f < e + 1} = S \cup {e}
  <2>1. ASSUME NEW f \in E PROVE f < e + 1 <=> f < b \/ f = e
    BY <1>1
  <2> QED
    BY <2>1
<1>3. e \notin S
  BY <1>1
<1>4. IsFiniteSet(S)
  BY BeforeIsNumber
<1>5. Cardinality(S \cup {e}) = Cardinality(S) + 1
  BY <1>3, <1>4, FS_AddElement
<1> QED
  BY <1>2, <1>5 DEF Before

\* An end between b and n is counted.
LEMMA BeforeCounts ==
  ASSUME NEW N \in Nat, NEW E, E \subseteq 1..N, NEW b \in Int, NEW n \in Int, NEW e \in E,
         b <= e, e < n
  PROVE  Before(E, b) + 1 <= Before(E, n)
<1> DEFINE S == {f \in E : f < b}
           T == {f \in E : f < n}
<1>1. E \subseteq Int /\ e \in Int
  OBVIOUS
<1>2. S \cup {e} \subseteq T /\ e \notin S
  <2>1. ASSUME NEW f \in E, f < b PROVE f < n
    <3>1. f \in Int
      OBVIOUS
    <3> QED
      BY <1>1, <2>1, <3>1
  <2>2. e \in T /\ e \notin S
    BY <1>1
  <2> QED
    BY <2>1, <2>2
<1>3. IsFiniteSet(S) /\ IsFiniteSet(T)
  BY BeforeIsNumber
<1>4. Cardinality(S \cup {e}) = Cardinality(S) + 1
  BY <1>2, <1>3, FS_AddElement
<1>5. Cardinality(S \cup {e}) <= Cardinality(T)
  BY <1>2, <1>3, FS_Subset
<1> QED
  BY <1>4, <1>5 DEF Before

(***************************************************************************)
(* The inductive invariant.                                                 *)
(***************************************************************************)
Reasons == {"none", "end_of_stream", "reset", "error", "answered", "timeout", "shutdown"}

Shape ==
  /\ pipelining \in BOOLEAN /\ stream \in Streams
  /\ arrived \in 0..Len(stream.bytes) /\ consumed \in 0..arrived
  /\ peer \in {"open", "closed", "reset"} /\ room \in 0..Room /\ fileLen \in 0..FileSize
  /\ edge \in BOOLEAN /\ hung \in BOOLEAN
  /\ phase \in {"Reading", "Writing", "Closed"}
  /\ parser \in Parsers /\ Stuck(parser)
  /\ out \in 0..BufSize /\ fd \in BOOLEAN /\ left \in 0..FileSize /\ answer \in AnswerSet
  /\ age \in 0..Timeout /\ idle \in 0..age
  /\ why \in Reasons
  /\ sent \in Replies

Place ==
  /\ phase = "Reading" => parser.state \notin {"Done", "Error"}
  /\ fd => phase = "Writing"
  /\ phase # "Closed" => why = "none"

\* Reading: b is where the first request begins that has not been answered, and
\* the client has sent nothing behind its end.
ReadsAt(b) ==
  /\ b \in 1..(consumed + 1) /\ (b = 1 \/ b - 1 \in stream.ends)
  /\ StandsIn(stream.bytes, consumed, parser, b) /\ Owing(stream.bytes, consumed, sent, b)
  /\ Before(stream.ends, b) = Len(sent) /\ \A e \in stream.ends : b <= e => arrived <= e

\* Writing: b is where the next request begins, of which nothing has been sent.
WritesBefore(b) ==
  /\ b \in 1..(consumed + 1) /\ OwingAfter(stream.bytes, consumed, sent, answer, b)
  /\ ~answer.request.close =>
       /\ b - 1 \in stream.ends /\ Before(stream.ends, b) = Len(sent) + 1
       /\ consumed = b - 1 /\ arrived = b - 1

Accounted ==
  ~pipelining => /\ phase = "Reading" => \E b : ReadsAt(b)
                 /\ phase = "Writing" => \E b : WritesBefore(b)

IInv == Shape /\ Place /\ Accounted /\ RepliesInOrder /\ RepliesComplete

-----------------------------------------------------------------------------
LEMMA StreamFacts ==
  ASSUME NEW s \in Streams
  PROVE  /\ s.bytes \in Texts /\ Len(s.bytes) \in Nat
         /\ s.ends \subseteq 1..Len(s.bytes) /\ s.ends \subseteq Int
<1>1. s.bytes \in Seq(Units) /\ s.ends \subseteq 1..Len(s.bytes)
  BY StreamsAssumption
<1>2. Len(s.bytes) \in Nat
  BY <1>1
<1> QED
  BY <1>1, <1>2 DEF Texts

LEMMA Initially == Init => IInv
<1> SUFFICES ASSUME Init PROVE IInv
  OBVIOUS
<1> DEFINE s == stream.bytes
           E == stream.ends
<1>1. s \in Texts /\ Len(s) \in Nat /\ E \subseteq 1..Len(s) /\ stream \in Streams
  BY StreamFacts DEF Init
<1>2. /\ parser \in Parsers /\ Stuck(parser) /\ StandsIn(s, 0, parser, 1)
      /\ parser.state = "RequestLine"
  BY <1>1, NewStands DEF Init, NewParser
<1>3. answer \in AnswerSet
  BY ErrorAnswerIsAnswer DEF Init, NoAnswer
<1>4. sent = <<>> /\ sent \in Replies /\ Len(sent) = 0
  BY DEF Init, Replies
<1>5. Shape
  <2>1. arrived = 0 /\ consumed = 0 /\ age = 0 /\ idle = 0
    BY DEF Init
  <2>2. arrived \in 0..Len(stream.bytes) /\ consumed \in 0..arrived
    BY <1>1, <2>1
  <2> HIDE DEF s, E
  <2>3. /\ room \in 0..Room /\ fileLen \in 0..FileSize /\ left \in 0..FileSize
        /\ out \in 0..BufSize /\ age \in 0..Timeout /\ idle \in 0..age
    BY <2>1, BoundsAssumption DEF Init
  <2> QED
    BY <1>1, <1>2, <1>3, <1>4, <2>2, <2>3 DEF Init, Shape, Reasons
<1>6. Place
  BY <1>2 DEF Init, Place
<1>7. Owing(s, 0, <<>>, 1)
  BY <1>1, OwingFirst
<1>8. consumed = 0 /\ arrived = 0
  BY DEF Init
<1>9. Before(E, 1) = 0
  <2>1. {e \in E : e < 1} = {}
    BY <1>1
  <2> QED
    BY <2>1, FS_EmptySet DEF Before
<1>10. ReadsAt(1)
  <2>1. \A e \in E : 1 <= e => arrived <= e
    BY <1>1, <1>8
  <2>2. 1 \in 1..(consumed + 1)
    BY <1>8
  <2> QED
    BY <1>2, <1>4, <1>7, <1>8, <1>9, <2>1, <2>2 DEF ReadsAt
<1>11. Accounted
  BY <1>10 DEF Accounted, Init
<1>12. RepliesInOrder
  <2>1. 0 \in 0..Len(s) /\ 1 \in 1..(0 + 1)
    BY <1>1
  <2>2. IsPrefix(sent, Answers(Cut(s, 0)))
    BY <1>1, <1>4, <1>7, <2>1, SentIsPrefix
  <2> QED
    BY <1>8, <2>2 DEF RepliesInOrder, Consumed, Cut
<1>13. RepliesComplete
  BY DEF Init, RepliesComplete
<1> QED
  BY <1>5, <1>6, <1>11, <1>12, <1>13 DEF IInv

(***************************************************************************)
(* The client, the network, the file system and the clock.                  *)
(***************************************************************************)
\* No bytes move.
LEMMA AroundKeeps ==
  ASSUME IInv, PeerClose \/ PeerReset \/ ClientDrains \/ Truncate \/ Tick
  PROVE  IInv'
<1>1. /\ UNCHANGED <<edgeTriggered, pipelining, stream, arrived, consumed, parser, phase>>
      /\ UNCHANGED <<out, fd, left, answer, why, sent, hung>>
  BY DEF PeerClose, PeerReset, ClientDrains, Truncate, Tick, env, response
<1>2. /\ peer \in {"open", "closed", "reset"} /\ room \in 0..Room /\ fileLen \in 0..FileSize
      /\ age \in 0..Timeout /\ idle \in 0..age /\ edge \in BOOLEAN
      /\ Room \in Nat /\ FileSize \in Nat /\ Timeout \in Nat
  BY BoundsAssumption DEF IInv, Shape
<1>3. edge' \in BOOLEAN
  BY <1>2, Zenon DEF PeerClose, PeerReset, ClientDrains, Truncate, Tick
<1>4. peer' \in {"open", "closed", "reset"}
  BY <1>2 DEF PeerClose, PeerReset, ClientDrains, Truncate, Tick
<1>5. room' \in 0..Room
  BY <1>2 DEF PeerClose, PeerReset, ClientDrains, Truncate, Tick
<1>6. fileLen' \in 0..FileSize
  BY <1>2 DEF PeerClose, PeerReset, ClientDrains, Truncate, Tick
<1>7. age' \in 0..Timeout /\ idle' \in 0..age'
  <2>1. CASE Tick
    BY <1>2, <2>1 DEF Tick
  <2>2. CASE ~Tick
    BY <1>2, <2>2 DEF PeerClose, PeerReset, ClientDrains, Truncate, clock
  <2> QED
    BY <2>1, <2>2
<1>8. Shape'
  BY <1>1, <1>3, <1>4, <1>5, <1>6, <1>7 DEF IInv, Shape
<1>9. Place' /\ Accounted' /\ RepliesInOrder' /\ RepliesComplete'
  BY <1>1 DEF IInv, Place, Accounted, ReadsAt, WritesBefore, RepliesInOrder, RepliesComplete,
              Consumed
<1> QED
  BY <1>8, <1>9 DEF IInv

\* A client that does not pipeline sends no byte behind the end of the request that has
\* not been answered.
LEMMA ArriveKeeps ==
  ASSUME IInv, NEW n \in 1..Len(stream.bytes), Arrive(n)
  PROVE  IInv'
<1> DEFINE E == stream.ends
           N == Len(stream.bytes)
<1>1. /\ UNCHANGED <<edgeTriggered, pipelining, stream, consumed, parser, phase, peer, room>>
      /\ UNCHANGED <<fileLen, out, fd, left, answer, age, idle, why, sent, hung>>
      /\ arrived' = n /\ n > arrived /\ MaySend(n)
  BY DEF Arrive, env, response, clock
<1>2. /\ stream \in Streams /\ N \in Nat /\ E \subseteq 1..N /\ E \subseteq Int
      /\ arrived \in 0..N /\ consumed \in 0..arrived /\ sent \in Replies /\ Len(sent) \in Nat
      /\ n \in Int
  BY StreamFacts DEF IInv, Shape, Replies
<1>3. edge' \in BOOLEAN
  BY Zenon DEF Arrive, IInv, Shape
<1>4. Shape'
  <2>1. n \in 0..N /\ consumed \in 0..n
    BY <1>1, <1>2
  <2> QED
    BY <1>1, <1>3, <2>1 DEF IInv, Shape
<1>5. ~pipelining => Before(E, n) <= Len(sent)
  BY <1>1 DEF MaySend, Before
<1> HIDE DEF E, N
<1>6. ASSUME NEW b, ~pipelining, ReadsAt(b) PROVE ReadsAt(b)'
  <2>1. b \in Int /\ Before(E, b) = Len(sent)
    BY <1>2, <1>6 DEF ReadsAt, E
  <2>2. ASSUME NEW e \in E, b <= e PROVE n <= e
    <3>1. CASE e < n
      <4>1. Before(E, b) + 1 <= Before(E, n)
        BY <1>2, <2>1, <2>2, <3>1, BeforeCounts
      <4>2. Before(E, n) \in Nat
        BY <1>2, BeforeIsNumber
      <4> QED
        BY <1>2, <1>5, <1>6, <2>1, <4>1, <4>2
    <3> QED
      BY <1>2, <3>1
  <2> QED
    BY <1>1, <1>6, <2>2 DEF ReadsAt, E
<1>7. ASSUME NEW b, ~pipelining, WritesBefore(b) PROVE WritesBefore(b)'
  <2>1. CASE answer.request.close
    BY <1>1, <1>7, <2>1 DEF WritesBefore
  <2>2. CASE ~answer.request.close
    <3>1. b \in Int /\ Before(E, b) = Len(sent) + 1 /\ arrived = b - 1
      BY <1>2, <1>7, <2>2 DEF WritesBefore, E
    <3>2. b <= n
      BY <1>1, <1>2, <3>1
    <3>3. Before(E, b) <= Before(E, n) /\ Before(E, n) \in Nat
      BY <1>2, <3>1, <3>2, BeforeGrows, BeforeIsNumber
    <3> QED
      BY <1>2, <1>5, <1>7, <3>1, <3>3
  <2> QED
    BY <2>1, <2>2
<1>8. Accounted'
  BY <1>1, <1>6, <1>7 DEF IInv, Accounted
<1>9. Place' /\ RepliesInOrder' /\ RepliesComplete'
  BY <1>1 DEF IInv, Place, RepliesInOrder, RepliesComplete, Consumed
<1> QED
  BY <1>4, <1>8, <1>9 DEF IInv

(***************************************************************************)
(* The worker.                                                              *)
(***************************************************************************)
\* The connection ends without another answer.
LEMMA CloseKeeps ==
  ASSUME IInv, phase # "Closed", NEW reason \in Reasons, Close(reason), edge' = FALSE,
         UNCHANGED <<env, client, consumed, room, parser, clock, sent, hung>>,
         ~pipelining /\ reason \in {"end_of_stream", "answered"} => sent = Answers(Consumed)
  PROVE  IInv'
<1>1. /\ UNCHANGED <<edgeTriggered, pipelining, stream, arrived, consumed, parser, peer, room>>
      /\ UNCHANGED <<fileLen, age, idle, sent, hung>>
      /\ phase' = "Closed" /\ why' = reason /\ out' = 0 /\ fd' = FALSE /\ left' = 0
      /\ answer' = NoAnswer /\ edge' \in BOOLEAN
  BY DEF Close, env, client, clock
<1>2. answer' \in AnswerSet
  BY <1>1, ErrorAnswerIsAnswer DEF NoAnswer
<1>3. left' \in 0..FileSize /\ out' \in 0..BufSize
  BY <1>1, BoundsAssumption
<1>4. Shape'
  BY <1>1, <1>2, <1>3 DEF IInv, Shape
<1>5. Place' /\ Accounted'
  BY <1>1 DEF Place, Accounted
<1>6. RepliesInOrder'
  BY <1>1 DEF IInv, RepliesInOrder, Consumed
<1>7. RepliesComplete'
  BY <1>1 DEF RepliesComplete, Consumed
<1> QED
  BY <1>4, <1>5, <1>6, <1>7 DEF IInv

\* A client whose end of stream is met has been answered.
LEMMA ReadNothingKeeps ==
  ASSUME IInv, ReadNothing
  PROVE  IInv'
<1> DEFINE reason == IF peer = "reset" THEN "reset" ELSE "end_of_stream"
<1>1. /\ phase = "Reading" /\ Close(reason) /\ edge' = FALSE
      /\ UNCHANGED <<env, client, consumed, room, parser, clock, sent, hung>>
  BY DEF ReadNothing
<1>2. ~pipelining => sent = Answers(Consumed)
  <2> SUFFICES ASSUME ~pipelining PROVE sent = Answers(Consumed)
    OBVIOUS
  <2>1. PICK b : ReadsAt(b)
    BY <1>1 DEF IInv, Accounted
  <2>2. StandsIn(stream.bytes, consumed, parser, b) /\ Owing(stream.bytes, consumed, sent, b)
    BY <2>1 DEF ReadsAt
  <2>3. /\ stream.bytes \in Texts /\ consumed \in 0..Len(stream.bytes) /\ sent \in Replies
        /\ parser \in Parsers /\ Stuck(parser) /\ parser.state \notin {"Done", "Error"}
    BY <1>1, StreamFacts DEF IInv, Shape, Place
  <2>4. sent = Answers(Cut(stream.bytes, consumed))
    BY <2>2, <2>3, NothingOwed
  <2> QED
    BY <2>4 DEF Consumed, Cut
<1>3. reason \in Reasons
  BY DEF Reasons
<1> HIDE DEF reason
<1> QED
  BY <1>1, <1>2, <1>3, CloseKeeps

LEMMA OtherEndsKeep ==
  ASSUME IInv, WriteFails \/ TimesOut \/ Shutdown
  PROVE  IInv'
<1>1. PICK reason \in {"reset", "timeout", "shutdown"} : Close(reason)
  BY DEF WriteFails, TimesOut, Shutdown
<1>2. /\ phase # "Closed" /\ edge' = FALSE
      /\ UNCHANGED <<env, client, consumed, room, parser, clock, sent, hung>>
  BY DEF WriteFails, TimesOut, Shutdown
<1>3. reason \in Reasons /\ reason \notin {"end_of_stream", "answered"}
  BY <1>1 DEF Reasons
<1> QED
  BY <1>1, <1>2, <1>3, CloseKeeps

LEMMA PieceOfPiece ==
  ASSUME NEW s \in Seq(Units), NEW a \in 0..Len(s), NEW c \in 0..a, NEW n \in 1..(a - c)
  PROVE  SubSeq(SubSeq(s, c + 1, a), 1, n) = SubSeq(s, c + 1, c + n)
<1>1. /\ c + 1 \in 1..Len(s) /\ a \in 1..Len(s)
      /\ 1 \in 1..(a - (c + 1) + 1) /\ n \in 1..(a - (c + 1) + 1)
  OBVIOUS
<1>2. SubSeq(SubSeq(s, c + 1, a), 1, n) = SubSeq(s, (c + 1) + 1 - 1, (c + 1) + n - 1)
  BY <1>1, SubSeqOfSubSeq
<1>3. (c + 1) + 1 - 1 = c + 1 /\ (c + 1) + n - 1 = c + n
  OBVIOUS
<1> QED
  BY <1>2, <1>3

\* What one read() takes is what follows in the stream.
Takes(s, c, a, q, n) ==
  n \in Nat /\ c + n \in c..a /\ SubSeq(q, 1, n) = SubSeq(s, c + 1, c + n)

LEMMA ReadTakes ==
  ASSUME NEW s \in Texts, NEW a \in 0..Len(s), NEW c \in 0..a, NEW q, q = SubSeq(s, c + 1, a),
         q # <<>>, NEW n, n = Min({Len(q), ReadMax})
  PROVE  Takes(s, c, a, q, n)
<1>1. s \in Seq(Units) /\ Len(s) \in Nat /\ ReadMax \in Nat \ {0}
  BY BoundsAssumption DEF Texts
<1>2. c < a
  <2>1. CASE c = a
    <3>1. q = <<>>
      BY <1>1, <2>1, SubSeqEmpty
    <3> QED
      BY <3>1
  <2> QED
    BY <1>1, <2>1
<1>3. Len(q) = a - c
  <2>1. \A i \in (c + 1)..a : s[i] \in Units
    BY <1>1
  <2>2. Len(q) = IF c + 1 <= a THEN a - (c + 1) + 1 ELSE 0
    <3>1. c + 1 \in Int /\ a \in Int
      BY <1>1
    <3> QED
      BY <2>1, <3>1, SubSeqProperties
  <2> QED
    BY <1>1, <1>2, <2>2
<1>4. n = IF Len(q) <= ReadMax THEN Len(q) ELSE ReadMax
  <2>1. Len(q) \in Int /\ ReadMax \in Int
    BY <1>1, <1>3
  <2> QED
    BY <2>1, LesserOfTwo
<1>5. n \in 1..(a - c)
  <2>1. a - c \in Nat /\ a - c >= 1
    BY <1>1, <1>2
  <2>2. n = IF a - c <= ReadMax THEN a - c ELSE ReadMax
    BY <1>3, <1>4
  <2> QED
    BY <1>1, <2>1, <2>2
<1>6. SubSeq(q, 1, n) = SubSeq(s, c + 1, c + n)
  BY <1>1, <1>5, PieceOfPiece
<1>7. n \in Nat /\ c + n \in c..a
  BY <1>1, <1>2, <1>5
<1> QED
  BY <1>6, <1>7 DEF Takes

\* Where the request that is complete ends, the client has stopped sending.
StopsBehind(st, a, c, p, b, k) ==
  /\ k - 1 \in st.ends /\ Before(st.ends, k) = Before(st.ends, b) + 1
  /\ c = k - 1 /\ a = k - 1

LEMMA StopsBehindRequest ==
  ASSUME NEW st \in Streams, NEW a \in 0..Len(st.bytes), NEW c \in 0..a,
         NEW p \in Parsers, p.state = "Done", NEW b, b = 1 \/ b - 1 \in st.ends, NEW k,
         Stands(st.bytes, c, p, b, k), ~p.request.close,
         \A e \in st.ends : b <= e => a <= e
  PROVE  StopsBehind(st, a, c, p, b, k)
<1> DEFINE s == st.bytes
           E == st.ends
           N == Len(s)
<1>1. s \in Texts /\ N \in Nat /\ E \subseteq 1..N /\ E \subseteq Int
  BY StreamFacts
<1>2. b \in 1..(c + 1) /\ k \in 1..(c + 1) /\ b < k
  <2>1. b \in 1..(c + 1) /\ k \in b..(c + 1) /\ AtEnd(s, p, b, k)
    BY DEF Stands, AtRequestLine, AtHeaders, AtBody, AtEnd, AtError
  <2>2. PICK e \in LFs(s), n \in LFs(s) :
          Block(s, p.request, b, e, n) /\ k = n + BodyLength(p.request) + 1
    BY <2>1 DEF AtEnd
  <2>3. b <= e /\ e < n /\ e \in Int /\ n \in Int
    BY <1>1, <2>2, LFsAreNumbers DEF Block, Line, Texts
  <2>4. BodyLength(p.request) \in Nat
    BY <2>1, MaxBodyAssumption DEF AtEnd, BodyLength
  <2> QED
    BY <1>1, <2>1, <2>2, <2>3, <2>4
<1>3. ReplyAt(s, b) = Reply(<<OkAnswer(p.request)>>, k)
  <2>1. c \in 0..N /\ N \in c..N
    BY <1>1
  <2>2. ReplyAt(Cut(s, N), b) = Reply(<<OkAnswer(p.request)>>, IF p.request.close THEN 0 ELSE k)
    BY <1>1, <2>1, ReplyToRequest
  <2>3. Cut(s, N) = s
    BY <1>1, SubSeqFull DEF Cut, Texts
  <2> QED
    BY <2>2, <2>3
<1>4. ReplyAt(s, b).next = k /\ k # 0
  BY <1>2, <1>3 DEF Reply
<1>5. k - 1 \in E /\ \A e \in E : e >= b => e >= k - 1
  <2>1. b \in {1} \cup {e + 1 : e \in E}
    <3>1. CASE b - 1 \in E
      <4>1. b = (b - 1) + 1
        BY <1>2
      <4> QED
        BY <3>1, <4>1
    <3> QED
      BY <3>1
  <2> QED
    BY <1>4, <2>1, StreamsAssumption
<1> HIDE DEF E, N
<1>6. k - 1 \in E /\ b <= k - 1 /\ k - 1 \in Int /\ \A f \in E : b <= f => k - 1 <= f
  BY <1>1, <1>2, <1>5
<1>7. Before(E, (k - 1) + 1) = Before(E, b) + 1
  <2>1. b \in Int
    BY <1>2
  <2> QED
    BY <1>1, <1>6, <2>1, BeforeOneMore
<1>8. (k - 1) + 1 = k
  BY <1>2
<1>9. a <= k - 1 /\ k - 1 <= c
  BY <1>2, <1>6 DEF E
<1>10. c = k - 1 /\ a = k - 1
  BY <1>1, <1>2, <1>9 DEF N
<1> QED
  BY <1>6, <1>7, <1>8, <1>10 DEF E, StopsBehind

\* What the parser makes of the bytes that one read() took.
LEMMA ReadFacts ==
  ASSUME IInv, phase = "Reading", sock # <<>>, NEW n, n = ReadCount,
         NEW d, d = consumed + n, NEW p, p = Feed(parser, SubSeq(sock, 1, n))
  PROVE  /\ stream.bytes \in Texts /\ d \in consumed..arrived /\ d \in 0..Len(stream.bytes)
         /\ p \in Parsers /\ Stuck(p)
         /\ ~pipelining =>
              \E b : /\ ReadsAt(b) /\ b \in 1..(d + 1)
                     /\ StandsIn(stream.bytes, d, p, b) /\ Owing(stream.bytes, d, sent, b)
<1> DEFINE s == stream.bytes
<1>1. /\ s \in Texts /\ arrived \in 0..Len(s) /\ consumed \in 0..arrived /\ Len(s) \in Nat
      /\ parser \in Parsers /\ parser.state \notin {"Done", "Error"}
      /\ sock = SubSeq(s, consumed + 1, arrived) /\ n = Min({Len(sock), ReadMax})
  BY StreamFacts DEF IInv, Shape, Place, sock, ReadCount
<1> HIDE DEF s
<1>2. /\ n \in Nat /\ d \in consumed..arrived
      /\ SubSeq(sock, 1, n) = SubSeq(s, consumed + 1, d)
  <2>1. /\ n \in Nat /\ consumed + n \in consumed..arrived
        /\ SubSeq(sock, 1, n) = SubSeq(s, consumed + 1, consumed + n)
    <3>1. /\ s \in Texts /\ arrived \in 0..Len(s) /\ consumed \in 0..arrived
          /\ sock = SubSeq(s, consumed + 1, arrived) /\ sock # <<>>
          /\ n = Min({Len(sock), ReadMax})
      BY <1>1
    <3>2. Takes(s, consumed, arrived, sock, n)
      BY <3>1, ReadTakes
    <3> QED
      BY <3>2 DEF Takes
  <2> QED
    BY <2>1
<1>3. d \in 0..Len(s) /\ consumed \in 0..Len(s) /\ d \in consumed..Len(s)
  BY <1>1, <1>2
<1>4. SubSeq(sock, 1, n) \in Texts
  <2>1. \A i \in (consumed + 1)..d : s[i] \in Units
    BY <1>1, <1>3 DEF Texts
  <2>2. consumed + 1 \in Int /\ d \in Int
    BY <1>1, <1>3
  <2>3. SubSeq(s, consumed + 1, d) \in Seq(Units)
    BY <2>1, <2>2, SubSeqProperties
  <2> QED
    BY <1>2, <2>3 DEF Texts
<1>5. p \in Parsers /\ Stuck(p)
  BY <1>1, <1>4, FeedIsParser
<1>6. ASSUME ~pipelining
      PROVE  \E b : /\ ReadsAt(b) /\ b \in 1..(d + 1)
                    /\ StandsIn(s, d, p, b) /\ Owing(s, d, sent, b)
  <2>1. PICK b : ReadsAt(b)
    BY <1>6 DEF IInv, Accounted
  <2>2. /\ b \in 1..(consumed + 1) /\ StandsIn(s, consumed, parser, b)
        /\ Owing(s, consumed, sent, b)
    BY <2>1 DEF ReadsAt, s
  <2>3. StandsIn(s, d, Feed(parser, SubSeq(sock, 1, n)), b)
    BY <1>1, <1>2, <1>3, <2>2, FeedStands
  <2>4. Owing(s, d, sent, b)
    BY <1>1, <1>3, <2>2, OwingLater
  <2>5. b \in 1..(d + 1)
    BY <1>1, <1>3, <2>2
  <2> QED
    BY <2>1, <2>3, <2>4, <2>5
<1> QED
  BY <1>1, <1>2, <1>3, <1>5, <1>6 DEF s

LEMMA ReadSomeKeeps ==
  ASSUME IInv, ReadSome
  PROVE  IInv'
<1> DEFINE s == stream.bytes
           d == consumed + ReadCount
           p == Feed(parser, SubSeq(sock, 1, ReadCount))
<1>1. /\ UNCHANGED <<edgeTriggered, pipelining, stream, arrived, peer, fileLen, age, hung>>
      /\ phase = "Reading" /\ sock # <<>> /\ consumed' = d /\ idle' = 0
  BY DEF ReadSome, env, client
<1>2. /\ s \in Texts /\ d \in consumed..arrived /\ d \in 0..Len(s) /\ p \in Parsers /\ Stuck(p)
      /\ ~pipelining => \E b : /\ ReadsAt(b) /\ b \in 1..(d + 1)
                               /\ StandsIn(s, d, p, b) /\ Owing(s, d, sent, b)
  BY <1>1, ReadFacts
<1>3. /\ HasRequest(p) =>
           /\ parser' = AfterGetRequest(p) /\ phase' = "Writing" /\ edge' = (room > 0)
           /\ answer' = OkAnswer(p.request) /\ out' = BufSize /\ fd' \in BOOLEAN
           /\ left' = (IF fd' THEN FileSize ELSE 0) /\ UNCHANGED <<room, why, sent>>
      /\ ~HasRequest(p) /\ HasError(p) =>
           /\ parser' = p /\ Close("error") /\ edge' = FALSE
           /\ room' = room - Min({BufSize, room})
           /\ sent' = IF BufSize <= room THEN Append(sent, ErrorAnswer(p.error)) ELSE sent
      /\ ~HasRequest(p) /\ ~HasError(p) =>
           /\ parser' = p /\ edge' = FALSE
           /\ UNCHANGED <<room, phase, out, fd, left, answer, why, sent>>
  <2>1. HasRequest(p) => ~HasError(p)
    BY DEF HasRequest, HasError
  <2> HIDE DEF p
  <2> QED
    BY <2>1 DEF ReadSome, response, p
<1>4. /\ arrived \in 0..Len(s) /\ consumed \in 0..arrived /\ sent \in Replies
      /\ room \in 0..Room /\ FileSize \in Nat /\ Room \in Nat /\ Len(s) \in Nat
      /\ age \in 0..Timeout /\ Timeout \in Nat /\ why = "none" /\ pipelining \in BOOLEAN
      /\ BufSize \in Nat /\ stream \in Streams
  BY <1>1, StreamFacts, BoundsAssumption DEF IInv, Shape, Place
<1>5. consumed' \in 0..arrived /\ idle' \in 0..age
  BY <1>1, <1>2, <1>4
<1>6. Consumed' = Cut(s, d)
  BY <1>1 DEF Consumed, Cut
<1> HIDE DEF s, d, p
<1>7. ~pipelining => IsPrefix(sent, Answers(Cut(s, d)))
  BY <1>2, <1>4, SentIsPrefix
<1>8. CASE HasRequest(p)
  <2> DEFINE a == OkAnswer(p.request)
  <2>1. /\ parser' = AfterGetRequest(p) /\ phase' = "Writing" /\ edge' = (room > 0)
        /\ answer' = a /\ out' = BufSize /\ fd' \in BOOLEAN
        /\ left' = (IF fd' THEN FileSize ELSE 0) /\ UNCHANGED <<room, why, sent>>
        /\ p.state = "Done"
    BY <1>3, <1>8 DEF HasRequest
  <2>2. a \in AnswerSet
    BY <1>2, OkAnswerIsAnswer DEF Parsers
  <2>3. parser' \in Parsers /\ Stuck(parser')
    <3>1. [NewParser EXCEPT !.buffer = p.buffer] \in Parsers
      BY <1>2, NewIsParser DEF Parsers
    <3> QED
      BY <2>1, <3>1, AdvanceStops DEF AfterGetRequest
  <2>4. left' \in 0..FileSize /\ out' \in 0..BufSize
    BY <1>4, <2>1
  <2>5. edge' \in BOOLEAN
    <3>1. CASE room > 0
      BY <2>1, <3>1
    <3>2. CASE ~(room > 0)
      BY <2>1, <3>2
    <3> QED
      BY <3>1, <3>2
  <2> HIDE DEF a
  <2>6. Shape'
    BY <1>1, <1>4, <1>5, <2>1, <2>2, <2>3, <2>4, <2>5 DEF IInv, Shape
  <2>7. Place'
    BY <1>4, <2>1 DEF Place
  <2>8. Accounted'
    <3> SUFFICES ASSUME ~pipelining PROVE \E k : WritesBefore(k)'
      BY <1>1, <2>1 DEF Accounted
    <3>1. PICK b : /\ ReadsAt(b) /\ b \in 1..(d + 1)
                   /\ StandsIn(s, d, p, b) /\ Owing(s, d, sent, b)
      BY <1>2
    <3>2. PICK k : Stands(s, d, p, b, k)
      BY <3>1 DEF StandsIn
    <3>3. OwingAfter(s, d, sent, a, k)
      BY <1>2, <2>1, <3>1, <3>2, OwingRequest DEF a
    <3>4. k \in 1..(d + 1)
      BY <1>2, <3>1, <3>2 DEF Stands
    <3>5. ASSUME ~a.request.close
          PROVE  /\ k - 1 \in stream.ends /\ Before(stream.ends, k) = Len(sent) + 1
                 /\ d = k - 1 /\ arrived = k - 1
      <4>1. \A e \in stream.ends : b <= e => arrived <= e
        BY <3>1 DEF ReadsAt
      <4>2. ~p.request.close
        BY <1>2, <3>5 DEF a, OkAnswer, Parsers, Requests
      <4>3. d \in 0..arrived
        BY <1>2, <1>4
      <4>4. Before(stream.ends, b) = Len(sent) /\ (b = 1 \/ b - 1 \in stream.ends)
        BY <3>1 DEF ReadsAt
      <4>5. /\ k - 1 \in stream.ends /\ Before(stream.ends, k) = Before(stream.ends, b) + 1
            /\ d = k - 1 /\ arrived = k - 1
        <5>1. stream \in Streams /\ arrived \in 0..Len(stream.bytes) /\ p \in Parsers
          BY <1>2, <1>4 DEF s
        <5>2. Stands(stream.bytes, d, p, b, k)
          BY <3>2 DEF s
        <5>3. StopsBehind(stream, arrived, d, p, b, k)
          BY <2>1, <4>1, <4>2, <4>3, <4>4, <5>1, <5>2, StopsBehindRequest
        <5> QED
          BY <5>3 DEF StopsBehind
      <4> QED
        BY <4>4, <4>5
    <3>6. WritesBefore(k)'
      BY <1>1, <2>1, <3>3, <3>4, <3>5 DEF WritesBefore, s
    <3> QED
      BY <3>6
  <2>9. RepliesInOrder' /\ RepliesComplete'
    BY <1>1, <1>4, <1>6, <1>7, <2>1 DEF RepliesInOrder, RepliesComplete
  <2> QED
    BY <2>6, <2>7, <2>8, <2>9 DEF IInv
<1>9. CASE ~HasRequest(p) /\ HasError(p)
  <2> DEFINE a == ErrorAnswer(p.error)
  <2>1. /\ parser' = p /\ phase' = "Closed" /\ why' = "error" /\ out' = 0 /\ fd' = FALSE
        /\ left' = 0 /\ answer' = NoAnswer /\ edge' = FALSE /\ p.state = "Error"
        /\ room' = room - Min({BufSize, room})
        /\ sent' = IF BufSize <= room THEN Append(sent, a) ELSE sent
    BY <1>3, <1>9 DEF Close, HasError
  <2>2. a \in AnswerSet /\ answer' \in AnswerSet
    BY <2>1, ErrorAnswerIsAnswer DEF NoAnswer
  <2> HIDE DEF a
  <2>3. /\ Append(sent, a) \in Replies /\ Append(sent, a) # <<>>
        /\ Front(Append(sent, a)) = sent /\ Last(Append(sent, a)) = a
    BY <1>4, <2>2, FrontAndLast
  <2>4. sent' \in Replies
    BY <1>4, <2>1, <2>3
  <2>5. room' \in 0..Room /\ left' \in 0..FileSize /\ out' \in 0..BufSize
    <3>1. Min({BufSize, room}) = IF BufSize <= room THEN BufSize ELSE room
      BY <1>4, LesserOfTwo
    <3> QED
      BY <1>4, <2>1, <3>1
  <2>6. Shape'
    BY <1>1, <1>2, <1>4, <1>5, <2>1, <2>2, <2>4, <2>5 DEF IInv, Shape, Reasons
  <2>7. Place' /\ Accounted' /\ RepliesComplete'
    BY <2>1 DEF Place, Accounted, RepliesComplete
  <2>8. RepliesInOrder'
    <3> SUFFICES ASSUME ~pipelining
                 PROVE  \/ IsPrefix(sent', Answers(Cut(s, d)))
                        \/ /\ HasLongLine(s) /\ sent' # <<>> /\ Last(sent').status = 400
                           /\ IsPrefix(Front(sent'), Answers(Cut(s, d)))
      BY <1>1, <1>6 DEF RepliesInOrder, s
    <3>1. CASE ~(BufSize <= room)
      BY <1>7, <2>1, <3>1
    <3>2. CASE BufSize <= room
      <4>1. PICK b : StandsIn(s, d, p, b) /\ Owing(s, d, sent, b)
        BY <1>2
      <4>2. PICK k : Stands(s, d, p, b, k)
        BY <4>1 DEF StandsIn
      <4>3. sent' = Append(sent, a)
        BY <2>1, <3>2
      <4>4. CASE LongLine(s, d, p, k)
        <5>1. HasLongLine(s) /\ a.status = 400
          BY <1>2, <4>2, <4>4, LimitStruck DEF a
        <5> QED
          BY <1>7, <2>3, <4>3, <5>1
      <4>5. CASE ~LongLine(s, d, p, k)
        <5>1. Append(sent, a) = Answers(Cut(s, d))
          BY <1>2, <1>4, <2>1, <4>1, <4>2, <4>5, OnlyErrorOwed DEF a
        <5>2. IsPrefix(Append(sent, a), Append(sent, a))
          BY DEF IsPrefix
        <5> QED
          BY <4>3, <5>1, <5>2
      <4> QED
        BY <4>4, <4>5
    <3> QED
      BY <3>1, <3>2
  <2> QED
    BY <2>6, <2>7, <2>8 DEF IInv
<1>10. CASE ~HasRequest(p) /\ ~HasError(p)
  <2>1. /\ parser' = p /\ edge' = FALSE
        /\ UNCHANGED <<room, phase, out, fd, left, answer, why, sent>>
        /\ p.state \notin {"Done", "Error"}
    BY <1>3, <1>10 DEF HasRequest, HasError
  <2>2. Shape'
    BY <1>1, <1>2, <1>4, <1>5, <2>1 DEF IInv, Shape
  <2>3. Place'
    BY <1>1, <2>1 DEF IInv, Place
  <2>4. Accounted'
    <3> SUFFICES ASSUME ~pipelining PROVE \E b : ReadsAt(b)'
      BY <1>1, <2>1 DEF Accounted
    <3>1. PICK b : /\ ReadsAt(b) /\ b \in 1..(d + 1)
                   /\ StandsIn(s, d, p, b) /\ Owing(s, d, sent, b)
      BY <1>2
    <3>2. ReadsAt(b)'
      BY <1>1, <2>1, <3>1 DEF ReadsAt, s
    <3> QED
      BY <3>2
  <2>5. RepliesInOrder' /\ RepliesComplete'
    BY <1>1, <1>4, <1>6, <1>7, <2>1 DEF RepliesInOrder, RepliesComplete
  <2> QED
    BY <2>2, <2>3, <2>4, <2>5 DEF IInv
<1> QED
  BY <1>8, <1>9, <1>10

\* A parser that holds nothing stands where the next byte will come.
LEMMA FreshStands ==
  ASSUME NEW s \in Texts, NEW c \in 0..Len(s)
  PROVE  NewParser \in Parsers /\ Stuck(NewParser) /\ StandsIn(s, c, NewParser, c + 1)
<1>1. NewParser \in Parsers /\ Stuck(NewParser)
  BY NewStands
<1>2. SubSeq(s, c + 1, c) = <<>>
  BY SubSeqEmpty
<1>3. c + 1 \in 1..(c + 1) /\ c + 1 \in (c + 1)..(c + 1)
  BY DEF Texts
<1>4. Stands(s, c, NewParser, c + 1, c + 1)
  BY <1>2, <1>3 DEF Stands, AtRequestLine, NewParser
<1> QED
  BY <1>1, <1>4 DEF StandsIn

LEMMA AvailableIsPart ==
  ASSUME Shape
  PROVE  Available \in 0..left
<1>1. /\ left \in 0..FileSize /\ fileLen \in 0..FileSize /\ FileSize \in Nat
      /\ left \in Int /\ 0 \in Int /\ fileLen - (FileSize - left) \in Int
  BY BoundsAssumption DEF Shape
<1> DEFINE m == Max({0, fileLen - (FileSize - left)})
<1>2. m \in {0, fileLen - (FileSize - left)} /\ 0 <= m
  BY <1>1, GreaterOfTwo
<1>3. m \in Int
  BY <1>1, <1>2
<1>4. Available = IF left <= m THEN left ELSE m
  BY <1>1, <1>3, LesserOfTwo DEF Available
<1> HIDE DEF m
<1> QED
  BY <1>1, <1>2, <1>3, <1>4

\* What one write() and the sendfile() calls after it take off the response, and of the
\* send buffer.
LEMMA WriteTakes ==
  ASSUME Shape, NEW w, w = Min({out, room}),
         NEW f, f = IF w = out THEN Min({Available, room - w}) ELSE 0
  PROVE  room - w - f \in 0..Room /\ out - w \in 0..BufSize /\ left - f \in 0..FileSize
<1>1. /\ room \in 0..Room /\ Room \in Nat /\ out \in 0..BufSize /\ left \in 0..FileSize
      /\ FileSize \in Nat /\ BufSize \in Nat /\ Available \in 0..left
      /\ room \in Int /\ out \in Int
  BY BoundsAssumption, AvailableIsPart DEF Shape
<1>2. w = IF out <= room THEN out ELSE room
  BY <1>1, LesserOfTwo
<1>3. w \in 0..out /\ w \in 0..room /\ w \in Int /\ room - w \in Nat
  BY <1>1, <1>2
<1>4. Available \in Int /\ room - w \in Int
  BY <1>1, <1>3
<1>5. Min({Available, room - w}) = IF Available <= room - w THEN Available ELSE room - w
  BY <1>4, LesserOfTwo
<1>6. f \in 0..left /\ f \in 0..(room - w)
  <2>1. CASE w = out
    BY <1>1, <1>3, <1>5, <2>1
  <2>2. CASE w # out
    BY <1>1, <1>3, <2>2
  <2> QED
    BY <2>1, <2>2
<1> QED
  BY <1>1, <1>3, <1>6

\* The answer has gone out whole: reset_conn_to_reading() drops no byte of the next
\* request, since the client that does not pipeline has sent none.
LEMMA AnsweredKeeps ==
  ASSUME IInv, phase = "Writing", room' \in 0..Room, sent' = Append(sent, answer),
         UNCHANGED <<env, client, consumed, clock, hung>>,
         IF answer.request.close THEN Close("answered") /\ edge' = FALSE /\ UNCHANGED parser
                                 ELSE ResetToReading
  PROVE  IInv'
<1> DEFINE s == stream.bytes
           a == answer
<1>1. /\ UNCHANGED <<edgeTriggered, pipelining, stream, arrived, consumed, peer, fileLen>>
      /\ UNCHANGED <<age, idle, hung>>
  BY DEF env, client, clock
<1>2. /\ out' = 0 /\ fd' = FALSE /\ left' = 0 /\ answer' = NoAnswer
      /\ a.request.close =>
           phase' = "Closed" /\ why' = "answered" /\ edge' = FALSE /\ parser' = parser
      /\ ~a.request.close =>
           phase' = "Reading" /\ why' = why /\ edge' = Readable /\ parser' = NewParser
  BY DEF Close, ResetToReading
<1>3. /\ s \in Texts /\ Len(s) \in Nat /\ arrived \in 0..Len(s) /\ consumed \in 0..arrived
      /\ consumed \in 0..Len(s) /\ sent \in Replies /\ a \in AnswerSet /\ FileSize \in Nat
      /\ BufSize \in Nat
      /\ parser \in Parsers /\ Stuck(parser) /\ why = "none" /\ stream.ends \subseteq Int
  BY StreamFacts, BoundsAssumption DEF IInv, Shape, Place
<1>4. /\ Append(sent, a) \in Replies /\ Len(Append(sent, a)) = Len(sent) + 1
  BY <1>3, AppendProperties DEF Replies
<1>5. edge' \in BOOLEAN
  <2>1. Readable \in BOOLEAN
    BY DEF Readable
  <2> QED
    BY <1>2, <2>1
<1>6. parser' \in Parsers /\ Stuck(parser')
  BY <1>2, <1>3, FreshStands
<1>7. answer' \in AnswerSet
  BY <1>2, ErrorAnswerIsAnswer DEF NoAnswer
<1>8. out' \in 0..BufSize /\ left' \in 0..FileSize
  BY <1>2, <1>3
<1>9. why' \in Reasons /\ phase' \in {"Reading", "Closed"}
  BY <1>2, <1>3 DEF Reasons
<1> HIDE DEF s, a
<1>10. Shape'
  BY <1>1, <1>2, <1>4, <1>5, <1>6, <1>7, <1>8, <1>9 DEF IInv, Shape, a
<1>11. Place'
  BY <1>2, <1>3 DEF Place, NewParser
<1>12. ASSUME ~pipelining
       PROVE  \E b : WritesBefore(b)
  BY <1>12 DEF IInv, Accounted
<1>13. RepliesInOrder'
  <2> SUFFICES ASSUME ~pipelining PROVE IsPrefix(Append(sent, a), Answers(Cut(s, consumed)))
    BY <1>1 DEF RepliesInOrder, Consumed, Cut, s, a
  <2>1. PICK b : WritesBefore(b)
    BY <1>12
  <2>2. b \in 1..(consumed + 1) /\ OwingAfter(s, consumed, sent, a, b)
    BY <2>1 DEF WritesBefore, s, a
  <2> QED
    BY <1>3, <2>2, SentIsPrefixAfter
<1>14. RepliesComplete'
  <2> SUFFICES ASSUME ~pipelining, why' # "none"
               PROVE  Append(sent, a) = Answers(Cut(s, consumed))
    BY <1>1 DEF RepliesComplete, Consumed, Cut, s, a
  <2>1. PICK b : WritesBefore(b)
    BY <1>12
  <2>2. /\ b \in 1..(consumed + 1) /\ OwingAfter(s, consumed, sent, a, b)
        /\ a.request.close
    BY <1>2, <1>3, <2>1 DEF WritesBefore, s, a
  <2> QED
    BY <1>3, <2>2, NothingAfterClose
<1>15. Accounted'
  <2> SUFFICES ASSUME ~pipelining, phase' = "Reading" PROVE \E b : ReadsAt(b)'
    BY <1>1, <1>9 DEF Accounted
  <2>1. PICK b : WritesBefore(b)
    BY <1>12
  <2>2. /\ ~a.request.close /\ parser' = NewParser
        /\ b \in 1..(consumed + 1) /\ OwingAfter(s, consumed, sent, a, b)
        /\ b - 1 \in stream.ends /\ Before(stream.ends, b) = Len(sent) + 1
        /\ consumed = b - 1 /\ arrived = b - 1
    BY <1>2, <2>1 DEF WritesBefore, s, a
  <2>3. Owing(s, consumed, Append(sent, a), b)
    BY <1>3, <2>2, OwingNext
  <2>4. StandsIn(s, consumed, NewParser, b)
    <3>1. b = consumed + 1
      BY <1>3, <2>2
    <3> QED
      BY <1>3, <3>1, FreshStands
  <2>5. \A e \in stream.ends : b <= e => arrived <= e
    BY <1>3, <2>2
  <2>6. ReadsAt(b)'
    BY <1>1, <1>4, <2>2, <2>3, <2>4, <2>5 DEF ReadsAt, s, a
  <2> QED
    BY <2>6
<1> QED
  BY <1>10, <1>11, <1>13, <1>14, <1>15 DEF IInv

LEMMA WriteSomeKeeps ==
  ASSUME IInv, WriteSome
  PROVE  IInv'
<1> DEFINE w == Min({out, room})
           f == IF w = out THEN Min({Available, room - w}) ELSE 0
<1>1. /\ phase = "Writing" /\ UNCHANGED <<env, client, consumed, clock>>
      /\ room' = room - w - f
  BY DEF WriteSome
<1>2. room - w - f \in 0..Room /\ out - w \in 0..BufSize /\ left - f \in 0..FileSize
  BY WriteTakes DEF IInv
<1>3. CASE w = out /\ f = left
  <2>1. /\ sent' = Append(sent, answer) /\ UNCHANGED hung
        /\ IF answer.request.close THEN Close("answered") /\ edge' = FALSE /\ UNCHANGED parser
                                   ELSE ResetToReading
    BY <1>3 DEF WriteSome
  <2>2. UNCHANGED <<env, client, consumed, clock, hung>>
    BY <1>1, <2>1
  <2> QED
    BY <1>1, <1>2, <2>1, <2>2, AnsweredKeeps
<1>4. CASE ~(w = out /\ f = left)
  <2>1. /\ out' = out - w /\ left' = left - f /\ edge' = FALSE
        /\ hung' = (w = out /\ room' > 0)
        /\ UNCHANGED <<parser, phase, fd, answer, why, sent>>
    BY <1>4 DEF WriteSome
  <2>2. /\ UNCHANGED <<edgeTriggered, pipelining, stream, arrived, consumed, peer, fileLen>>
        /\ UNCHANGED <<age, idle>>
    BY <1>1 DEF env, client, clock
  <2>3. hung' \in BOOLEAN
    <3>1. CASE w = out /\ room' > 0
      BY <2>1, <3>1
    <3>2. CASE ~(w = out /\ room' > 0)
      BY <2>1, <3>2
    <3> QED
      BY <3>1, <3>2
  <2> HIDE DEF w, f
  <2>4. Shape'
    BY <1>1, <1>2, <2>1, <2>2, <2>3 DEF IInv, Shape
  <2>5. Place' /\ Accounted' /\ RepliesInOrder' /\ RepliesComplete'
    BY <2>1, <2>2 DEF IInv, Place, Accounted, ReadsAt, WritesBefore, RepliesInOrder,
                      RepliesComplete, Consumed
  <2> QED
    BY <2>4, <2>5 DEF IInv
<1> QED
  BY <1>3, <1>4

-----------------------------------------------------------------------------
LEMMA StepKeeps == IInv /\ [Next]_vars => IInv'
<1> SUFFICES ASSUME IInv, [Next]_vars PROVE IInv'
  OBVIOUS
<1>1. ASSUME NEW n \in 1..Len(stream.bytes), Arrive(n) PROVE IInv'
  BY <1>1, ArriveKeeps
<1>2. CASE PeerClose \/ PeerReset \/ ClientDrains \/ Truncate \/ Tick
  BY <1>2, AroundKeeps
<1>3. CASE ReadNothing
  BY <1>3, ReadNothingKeeps
<1>4. CASE ReadSome
  BY <1>4, ReadSomeKeeps
<1>5. CASE WriteSome
  BY <1>5, WriteSomeKeeps
<1>6. CASE WriteFails \/ TimesOut \/ Shutdown
  BY <1>6, OtherEndsKeep
<1>7. CASE UNCHANGED vars
  <2>1. /\ UNCHANGED <<edgeTriggered, pipelining, stream, arrived, consumed, peer, room>>
        /\ UNCHANGED <<fileLen, edge, parser, phase, out, fd, left, answer, age, idle>>
        /\ UNCHANGED <<why, sent, hung>>
    BY <1>7 DEF vars, env, response, clock
  <2> QED
    BY <2>1 DEF IInv, Shape, Place, Accounted, ReadsAt, WritesBefore, RepliesInOrder,
                RepliesComplete, Consumed
<1> QED
  BY <1>1, <1>2, <1>3, <1>4, <1>5, <1>6, <1>7 DEF Next, Worker

\* What the proofs rest on: in every reachable state the parser stands in the stream
\* where the answers that went out say, and a client that does not pipeline has sent
\* nothing that reset_conn_to_reading() could drop (server/select_mode.cpp).
THEOREM InvariantHolds == Spec => []IInv
<1> QED
  BY Initially, StepKeeps, PTL DEF Spec

\* The state of a connection in the event loop keeps its types, and sendfile_fd is
\* open only in a response that is being written (ConnState, server/select_mode.cpp).
THEOREM TypeCorrect == Spec => []TypeOK
<1>1. IInv => TypeOK
  <2> SUFFICES ASSUME IInv PROVE TypeOK
    OBVIOUS
  <2>1. Shape /\ Place
    BY DEF IInv
  <2>2. idle \in 0..Timeout
    BY <2>1, BoundsAssumption DEF Shape
  <2>3. parser.state \in {"RequestLine", "Headers", "Body", "Done", "Error"}
    BY <2>1 DEF Shape, Parsers
  <2> QED
    BY <2>1, <2>2, <2>3 DEF Shape, Place, TypeOK, Reasons
<1> QED
  BY <1>1, InvariantHolds, PTL

\* A client that waits for each answer gets what its requests call for, in order:
\* process_readable, process_writable, reset_conn_to_reading.
THEOREM InOrder == Spec => []RepliesInOrder
<1>1. IInv => RepliesInOrder
  BY DEF IInv
<1> QED
  BY <1>1, InvariantHolds, PTL

\* It has got all of them when the connection ends by its end of stream or by
\* Connection: close.
THEOREM Complete == Spec => []RepliesComplete
<1>1. IInv => RepliesComplete
  BY DEF IInv
<1> QED
  BY <1>1, InvariantHolds, PTL
=============================================================================
