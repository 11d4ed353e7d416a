----------------------- MODULE HandleConnectionProofs -----------------------
(***************************************************************************)
(* Proofs about HandleConnection: the types of the connection's state, the  *)
(* bound on the parser's buffer, and that the client gets the answers its   *)
(* requests call for, each whole and in order, and all of them before       *)
(* handle_connection returns.                                               *)
(*                                                                          *)
(* The inductive invariant says where the parser stands in the client's     *)
(* stream (StandsIn) and that the answers sent, the one being written and   *)
(* those due from there on are the answers of every part of the stream the  *)
(* server may come to read.                                                 *)
(***************************************************************************)
EXTENDS HandleConnection, ParserProofs

(***************************************************************************)
(* Sequences and numbers.                                                   *)
(***************************************************************************)
LEMMA ReverseIs ==
  ASSUME NEW s \in Texts
  PROVE  /\ Reverse(s) \in Texts /\ Len(Reverse(s)) = Len(s)
         /\ \A i \in 1..Len(s) : Reverse(s)[i] = s[Len(s) - i + 1]
<1>1. \A i \in 1..Len(s) : s[(Len(s) - i) + 1] \in Units
  BY DEF Texts
<1>2. Len(s) \in Nat
  BY DEF Texts
<1>3. [i \in 1..Len(s) |-> s[(Len(s) - i) + 1]] \in Seq(Units)
  BY <1>1, <1>2, IsASeq
<1> QED
  BY <1>2, <1>3 DEF Reverse, Texts

\* What is left to read of a stream is a suffix of it.
LEMMA RestIsSuffix ==
  ASSUME NEW s \in Texts, NEW c \in 0..Len(s), NEW w, w = SubSeq(s, c + 1, Len(s))
  PROVE  IsSuffix(w, s) /\ w \in Texts /\ Len(w) = Len(s) - c
<1> DEFINE N == Len(s)
<1>1. N \in Nat /\ c \in Nat
  BY DEF Texts
<1>2. w \in Seq(Units) /\ Len(w) = N - c /\ \A i \in 1..(N - c) : w[i] = s[c + i]
  <2>1. \A i \in (c + 1)..N : s[i] \in Units
    BY <1>1 DEF Texts
  <2>2. /\ w \in Seq(Units) /\ Len(w) = IF c + 1 <= N THEN N - (c + 1) + 1 ELSE 0
        /\ \A i \in 1..(N - (c + 1) + 1) : w[i] = s[(c + 1) + i - 1]
    <3>1. c + 1 \in Int /\ N \in Int
      BY <1>1
    <3> QED
      BY <2>1, <3>1, SubSeqProperties
  <2> QED
    BY <1>1, <2>2
<1>3. w \in Texts
  BY <1>2 DEF Texts
<1>4. /\ Reverse(w) \in Texts /\ Len(Reverse(w)) = N - c
      /\ \A i \in 1..(N - c) : Reverse(w)[i] = w[(N - c) - i + 1]
  <2>1. /\ Reverse(w) \in Texts /\ Len(Reverse(w)) = Len(w)
        /\ \A i \in 1..Len(w) : Reverse(w)[i] = w[Len(w) - i + 1]
    BY <1>3, ReverseIs
  <2> QED
    BY <1>2, <2>1
<1>5. /\ Reverse(s) \in Texts /\ Len(Reverse(s)) = N
      /\ \A i \in 1..N : Reverse(s)[i] = s[N - i + 1]
  BY ReverseIs
<1>6. \A i \in 1..(N - c) : Reverse(w)[i] = Reverse(s)[i]
  <2>1. ASSUME NEW i \in 1..(N - c) PROVE Reverse(w)[i] = Reverse(s)[i]
    <3>1. /\ (N - c) - i + 1 \in 1..(N - c) /\ i \in 1..N
          /\ c + ((N - c) - i + 1) = N - i + 1
      BY <1>1
    <3>2. Reverse(w)[i] = w[(N - c) - i + 1] /\ Reverse(s)[i] = s[N - i + 1]
      BY <1>4, <1>5, <3>1
    <3>3. w[(N - c) - i + 1] = s[c + ((N - c) - i + 1)]
      BY <1>2, <3>1
    <3> QED
      BY <3>1, <3>2, <3>3
  <2> QED
    BY <2>1
<1>7. SubSeq(Reverse(w), 1, N - c) = [i \in 1..(N - c) |-> Reverse(w)[i]]
  <2>1. N - c \in 0..Len(Reverse(w))
    BY <1>1, <1>4
  <2> QED
    BY <1>4, <2>1, Prefix DEF Texts
<1>8. SubSeq(Reverse(s), 1, N - c) = [i \in 1..(N - c) |-> Reverse(s)[i]]
  <2>1. N - c \in 0..Len(Reverse(s))
    BY <1>1, <1>5
  <2> QED
    BY <1>5, <2>1, Prefix DEF Texts
<1>9. SubSeq(Reverse(w), 1, N - c) = SubSeq(Reverse(s), 1, N - c)
  BY <1>6, <1>7, <1>8
<1>10. IsSuffix(w, s)
  <2>1. N - c <= N
    BY <1>1
  <2> QED
    BY <1>4, <1>5, <1>9, <2>1 DEF IsSuffix, IsPrefix
<1> QED
  BY <1>2, <1>3, <1>10

\* read() takes the next n units.
LEMMA RestOfWire ==
  ASSUME NEW s \in Texts, NEW c \in 0..Len(s), NEW w, w = SubSeq(s, c + 1, Len(s)),
         NEW n \in Nat, n <= Len(w)
  PROVE  /\ c + n \in c..Len(s)
         /\ SubSeq(w, 1, n) = SubSeq(s, c + 1, c + n)
         /\ From(w, n + 1) = SubSeq(s, c + n + 1, Len(s))
<1>1. w \in Texts /\ Len(w) = Len(s) - c
  BY RestIsSuffix
<1>2. Len(s) \in Nat /\ c \in Nat /\ n <= Len(s) - c /\ s \in Seq(Units)
  BY <1>1 DEF Texts
<1>3. From(w, n + 1) = SubSeq(s, c + n + 1, Len(s))
  <2>1. Len(s) \in 0..Len(s) /\ c + 1 \in 1..(Len(s) + 1) /\ n \in 0..(Len(s) - (c + 1) + 1)
    BY <1>2
  <2>2. From(SubSeq(s, c + 1, Len(s)), n + 1) = SubSeq(s, (c + 1) + n, Len(s))
    BY <1>2, <2>1, RestOfBuffer
  <2>3. (c + 1) + n = c + n + 1
    BY <1>2
  <2> QED
    BY <2>2, <2>3
<1>4. SubSeq(w, 1, n) = SubSeq(s, c + 1, c + n)
  <2>1. CASE n = 0
    BY <1>2, <2>1, SubSeqEmpty
  <2>2. CASE n > 0
    <3>1. /\ c + 1 \in 1..Len(s) /\ Len(s) \in 1..Len(s)
          /\ 1 \in 1..(Len(s) - (c + 1) + 1) /\ n \in 1..(Len(s) - (c + 1) + 1)
      BY <1>2, <2>2
    <3>2. SubSeq(SubSeq(s, c + 1, Len(s)), 1, n)
            = SubSeq(s, (c + 1) + 1 - 1, (c + 1) + n - 1)
      BY <1>2, <3>1, SubSeqOfSubSeq
    <3>3. (c + 1) + 1 - 1 = c + 1 /\ (c + 1) + n - 1 = c + n
      BY <1>2
    <3> QED
      BY <3>2, <3>3
  <2> QED
    BY <1>2, <2>1, <2>2
<1> QED
  BY <1>2, <1>3, <1>4

(***************************************************************************)
(* The inductive invariant.                                                 *)
(***************************************************************************)
Pcs == {"handshake", "read", "process", "write", "sendfile", "reject", "returned"}

Packages == [answer : AnswerSet, fd : BOOLEAN, off : 0..FileSize, left : 0..FileSize,
             whole : BOOLEAN]

\* How many units of the stream have been read.
Taken == Len(stream) - Len(wire)

Shape ==
  /\ tls \in BOOLEAN /\ stream \in Texts
  /\ Taken \in 0..Len(stream) /\ wire = SubSeq(stream, Taken + 1, Len(stream))
  /\ peer \in {"open", "closed", "reset"} /\ reading \in BOOLEAN
  /\ fileLen \in 0..FileSize /\ pc \in Pcs
  /\ parser \in Parsers /\ Stuck(parser)
  /\ pkg \in Packages /\ sent \in Replies

Writing == pc \in {"write", "sendfile"}

\* What the program counter says about the parser and the answer being written.
Place ==
  /\ pc \in {"handshake", "read"} => parser.state \notin {"Done", "Error"}
  /\ pc = "process" => parser.state = "Done"
  /\ pc = "reject" => parser.state = "Error"
  /\ pkg.fd => Writing
  /\ pc = "sendfile" /\ peer # "reset" => pkg.whole
  /\ pkg.off + pkg.left <= FileSize

\* The client can still be told everything.
Live ==
  /\ pc # "returned" /\ ~TornByTls
  /\ peer # "reset" \/ (pc = "sendfile" /\ pkg.whole)

\* b is where the first request begins that has neither been answered nor is being
\* answered.
Unanswered(b) ==
  /\ b \in 1..(Taken + 1) /\ StandsIn(stream, Taken, parser, b)
  /\ IF Writing THEN OwingAfter(stream, Taken, sent, pkg.answer, b)
                ELSE Owing(stream, Taken, sent, b)

Accounted == Live => \E b : Unanswered(b)

IInv == Shape /\ Place /\ Accounted /\ RepliesInOrder /\ RepliesComplete

-----------------------------------------------------------------------------
LEMMA Initially == Init => IInv
<1> SUFFICES ASSUME Init PROVE IInv
  OBVIOUS
<1>1. stream \in Texts /\ wire = stream /\ Len(stream) \in Nat
  BY StreamsAssumption DEF Init, Texts
<1>2. Taken = 0 /\ wire = SubSeq(stream, 1, Len(stream))
  BY <1>1, SubSeqFull DEF Taken, Texts
<1>3. /\ parser \in Parsers /\ Stuck(parser) /\ StandsIn(stream, 0, parser, 1)
      /\ parser.state = "RequestLine"
  BY <1>1, NewStands DEF Init, NewParser
<1>4. pkg \in Packages /\ pkg.fd = FALSE /\ pkg.off = 0 /\ pkg.left = 0
  <2>1. ErrorAnswer("none") \in AnswerSet
    BY ErrorAnswerIsAnswer
  <2> QED
    BY <2>1, FileSizeAssumption DEF Init, NoPkg, Packages
<1>5. sent = <<>> /\ sent \in Replies
  BY DEF Init, Replies
<1>6. Shape
  BY <1>1, <1>2, <1>3, <1>4, <1>5, FileSizeAssumption DEF Init, Shape, Pcs
<1>7. Place
  BY <1>3, <1>4, FileSizeAssumption DEF Init, Place
<1>8. Owing(stream, 0, <<>>, 1)
  BY <1>1, OwingFirst
<1>9. Accounted
  <2>1. ~Writing
    BY DEF Init, Writing
  <2>2. Unanswered(1)
    BY <1>2, <1>3, <1>5, <1>8, <2>1 DEF Unanswered
  <2> QED
    BY <2>2 DEF Accounted
<1>10. RepliesInOrder
  <2>1. Taken \in 0..Len(stream) /\ 1 \in 1..(Taken + 1)
    BY <1>1, <1>2
  <2>2. IsPrefix(sent, Answers(Cut(stream, Taken)))
    BY <1>1, <1>2, <1>5, <1>8, <2>1, SentIsPrefix
  <2> QED
    BY <2>2 DEF RepliesInOrder, Consumed, Cut, Taken
<1>11. RepliesComplete
  BY DEF Init, RepliesComplete
<1> QED
  BY <1>6, <1>7, <1>9, <1>10, <1>11 DEF IInv

\* The client goes away, falls silent, or the file shrinks.
LEMMA AroundKeeps ==
  ASSUME IInv, PeerClose \/ PeerReset \/ PeerStall \/ Truncate
  PROVE  IInv'
<1>1. /\ UNCHANGED <<tls, stream, wire, pc, parser, pkg, sent>>
      /\ fileLen' <= fileLen /\ fileLen' \in 0..FileSize
      /\ peer' \in {"open", "closed", "reset"} /\ reading' \in BOOLEAN
      /\ peer = "reset" => peer' = "reset"
      /\ fileLen \in 0..FileSize
  <2>1. /\ fileLen \in 0..FileSize /\ peer \in {"open", "closed", "reset"}
        /\ reading \in BOOLEAN /\ FileSize \in Nat
    BY FileSizeAssumption DEF IInv, Shape
  <2>2. CASE PeerClose
    BY <2>1, <2>2 DEF PeerClose
  <2>3. CASE PeerReset
    BY <2>1, <2>3 DEF PeerReset
  <2>4. CASE PeerStall
    <3>1. UNCHANGED <<tls, stream, wire, peer, fileLen, pc, parser, pkg, sent>>
      BY <2>4 DEF PeerStall
    <3>2. reading' \in BOOLEAN
      BY <2>4, Zenon DEF PeerStall
    <3> QED
      BY <2>1, <3>1, <3>2
  <2>5. CASE Truncate
    BY <2>1, <2>5 DEF Truncate, client
  <2> QED
    BY <2>2, <2>3, <2>4, <2>5
<1>2. Taken' = Taken /\ Writing' = Writing /\ Consumed' = Consumed
  BY <1>1 DEF Taken, Writing, Consumed
<1>3. TornByTls => TornByTls'
  BY <1>1, FileSizeAssumption DEF TornByTls
<1>4. Shape'
  BY <1>1, <1>2 DEF IInv, Shape
<1>5. Place'
  BY <1>1, <1>2 DEF IInv, Place
<1>6. Accounted'
  <2>1. Live' => Live
    BY <1>1, <1>3 DEF Live
  <2>2. \A b : Unanswered(b) => Unanswered(b)'
    BY <1>1, <1>2 DEF Unanswered
  <2> QED
    BY <2>1, <2>2 DEF IInv, Accounted
<1>7. RepliesInOrder'
  BY <1>1, <1>2, <1>3 DEF IInv, RepliesInOrder
<1>8. RepliesComplete'
  BY <1>1, <1>2, <1>3 DEF IInv, RepliesComplete
<1> QED
  BY <1>4, <1>5, <1>6, <1>7, <1>8 DEF IInv

\* No step of the server touches these.
LEMMA ServerLeaves ==
  ASSUME UNCHANGED <<client, fileLen>>
  PROVE  /\ UNCHANGED <<tls, stream, peer, reading, fileLen>>
         /\ TornByTls' = TornByTls
  BY DEF client, TornByTls

\* Nothing more was sent or read.
LEMMA SameAnswers ==
  ASSUME IInv, UNCHANGED <<client, wire, fileLen, sent>>
  PROVE  /\ RepliesInOrder' /\ Taken' = Taken /\ Consumed' = Consumed
         /\ (pc = "returned" => RepliesComplete')
<1>1. UNCHANGED <<tls, stream, peer, reading, fileLen>> /\ TornByTls' = TornByTls
  BY ServerLeaves
<1>2. Taken' = Taken /\ Consumed' = Consumed
  BY <1>1 DEF Taken, Consumed
<1>3. RepliesInOrder'
  BY <1>1, <1>2 DEF IInv, RepliesInOrder
<1>4. pc = "returned" => RepliesComplete'
  BY <1>1, <1>2 DEF IInv, RepliesComplete
<1> QED
  BY <1>2, <1>3, <1>4

\* A read that ends the connection comes when nothing is owed.
LEMMA ReadingOwesNothing ==
  ASSUME IInv, pc \in {"handshake", "read"}, peer # "reset", ~TornByTls
  PROVE  sent = Answers(Consumed)
<1>1. PICK b : Unanswered(b)
  BY DEF IInv, Accounted, Live
<1>2. /\ StandsIn(stream, Taken, parser, b) /\ Owing(stream, Taken, sent, b)
  BY <1>1 DEF Unanswered, Writing
<1>3. /\ parser \in Parsers /\ Stuck(parser) /\ parser.state \notin {"Done", "Error"}
      /\ stream \in Texts /\ Taken \in 0..Len(stream) /\ sent \in Replies
  BY DEF IInv, Shape, Place
<1>4. sent = Answers(Cut(stream, Taken))
  BY <1>2, <1>3, NothingOwed
<1> QED
  BY <1>4 DEF Consumed, Cut, Taken

LEMMA HandshakeOrEndKeeps ==
  ASSUME IInv, Handshake \/ ReadEnds
  PROVE  IInv'
<1>1. /\ UNCHANGED <<client, wire, fileLen, parser, pkg, sent>>
      /\ pc \in {"handshake", "read"} /\ pc' \in {"read", "returned"}
  BY DEF Handshake, ReadEnds
<1>2. UNCHANGED <<tls, stream, peer, reading, fileLen>> /\ TornByTls' = TornByTls
  BY <1>1, ServerLeaves
<1>3. RepliesInOrder' /\ Taken' = Taken /\ Consumed' = Consumed
  BY <1>1, SameAnswers
<1>4. Shape'
  BY <1>1, <1>2, <1>3 DEF IInv, Shape, Pcs
<1>5. Place'
  BY <1>1, <1>2 DEF IInv, Place, Writing
<1>6. Accounted'
  <2>1. Live' => Live
    BY <1>1, <1>2 DEF Live
  <2>2. ~Writing /\ ~Writing'
    BY <1>1 DEF Writing
  <2>3. \A b : Unanswered(b) => Unanswered(b)'
    BY <1>1, <1>2, <1>3, <2>2 DEF Unanswered
  <2> QED
    BY <2>1, <2>3 DEF IInv, Accounted
<1>7. RepliesComplete'
  <2>1. peer # "reset" /\ ~TornByTls => sent = Answers(Consumed)
    BY <1>1, ReadingOwesNothing
  <2> QED
    BY <1>1, <1>2, <1>3, <2>1 DEF RepliesComplete
<1> QED
  BY <1>3, <1>4, <1>5, <1>6, <1>7 DEF IInv

\* A read: all that was due before still is, and what the parser has taken is the
\* beginning of what it was already in.
LEMMA ReadKeeps ==
  ASSUME IInv, NEW n \in 1..ReadMax, Read(n)
  PROVE  IInv'
<1> DEFINE c == Taken
           d == Taken + n
           data == SubSeq(wire, 1, n)
<1>1. /\ UNCHANGED <<client, fileLen, pkg, sent>> /\ pc = "read" /\ peer # "reset"
      /\ parser' = Feed(parser, data) /\ wire' = From(wire, n + 1) /\ pc' = After(parser')
      /\ n <= Len(wire) /\ n \in Nat
  BY ReadMaxAssumption DEF Read
<1>2. UNCHANGED <<tls, stream, peer, reading, fileLen>> /\ TornByTls' = TornByTls
  BY <1>1, ServerLeaves
<1>3. /\ stream \in Texts /\ c \in 0..Len(stream) /\ wire = SubSeq(stream, c + 1, Len(stream))
      /\ parser \in Parsers /\ Stuck(parser) /\ parser.state \notin {"Done", "Error"}
      /\ sent \in Replies /\ Len(stream) \in Nat
  BY <1>1 DEF IInv, Shape, Place, Texts
<1>4. /\ d \in c..Len(stream) /\ data = SubSeq(stream, c + 1, d)
      /\ wire' = SubSeq(stream, d + 1, Len(stream))
  <2>1. n \in Nat /\ n <= Len(wire)
    BY <1>1
  <2>2. /\ Taken + n \in Taken..Len(stream)
        /\ SubSeq(wire, 1, n) = SubSeq(stream, Taken + 1, Taken + n)
        /\ From(wire, n + 1) = SubSeq(stream, Taken + n + 1, Len(stream))
    BY <1>3, <2>1, RestOfWire
  <2> QED
    BY <1>1, <2>2
<1>5. d \in 0..Len(stream) /\ Len(wire') = Len(stream) - d
  <2>1. d \in 0..Len(stream)
    BY <1>3, <1>4
  <2> QED
    BY <1>3, <1>4, <2>1, RestIsSuffix
<1>6. Taken' = d
  BY <1>2, <1>3, <1>5 DEF Taken
<1>7. /\ parser' \in Parsers /\ Stuck(parser')
      /\ \A b : StandsIn(stream, c, parser, b) => StandsIn(stream, d, parser', b)
  <2> HIDE DEF c, d, data
  <2>1. ASSUME NEW b, StandsIn(stream, c, parser, b)
        PROVE  /\ Feed(parser, data) \in Parsers /\ Stuck(Feed(parser, data))
               /\ StandsIn(stream, d, Feed(parser, data), b)
    BY <1>3, <1>4, <2>1, FeedStands
  <2>2. Feed(parser, data) \in Parsers /\ Stuck(Feed(parser, data))
    <3>1. data \in Seq(Units)
      <4>1. \A i \in (c + 1)..d : stream[i] \in Units
        BY <1>3, <1>4 DEF Texts
      <4>2. c + 1 \in Int /\ d \in Int
        BY <1>3, <1>4
      <4> QED
        BY <1>4, <4>1, <4>2, SubSeqProperties
    <3>2. [parser EXCEPT !.buffer = parser.buffer \o data] \in Parsers
      <4>1. parser.buffer \in Seq(Units)
        BY <1>3 DEF Parsers
      <4>2. parser.buffer \o data \in Seq(Units)
        BY <3>1, <4>1, ConcatProperties
      <4> QED
        BY <1>3, <4>2 DEF Parsers
    <3> QED
      BY <1>3, <3>2, AdvanceStops DEF Feed, HasRequest, HasError
  <2> QED
    BY <1>1, <2>1, <2>2
<1>8. pc' \in {"process", "reject", "read"}
      /\ (pc' = "process" => parser'.state = "Done")
      /\ (pc' = "reject" => parser'.state = "Error")
      /\ (pc' = "read" => parser'.state \notin {"Done", "Error"})
  BY <1>1 DEF After, HasRequest, HasError
<1> HIDE DEF d, data
<1>9. Shape'
  BY <1>1, <1>2, <1>4, <1>5, <1>6, <1>7, <1>8 DEF IInv, Shape, Pcs
<1>10. Place'
  BY <1>1, <1>2, <1>8 DEF IInv, Place, Writing
<1>11. ~TornByTls => \E b : Unanswered(b)'
  <2> SUFFICES ASSUME ~TornByTls PROVE \E b : Unanswered(b)'
    OBVIOUS
  <2>1. PICK b : Unanswered(b)
    BY <1>1 DEF IInv, Accounted, Live
  <2>2. b \in 1..(c + 1) /\ StandsIn(stream, c, parser, b) /\ Owing(stream, c, sent, b)
    BY <1>1, <2>1 DEF Unanswered, Writing
  <2>3. b \in 1..(d + 1)
    BY <1>3, <1>4, <2>2
  <2> HIDE DEF c
  <2>4. Owing(stream, d, sent, b)
    BY <1>3, <1>4, <2>2, OwingLater
  <2>5. StandsIn(stream, d, parser', b)
    BY <1>7, <2>2
  <2>6. ~Writing'
    BY <1>8 DEF Writing
  <2>7. Unanswered(b)'
    BY <1>1, <1>2, <1>6, <2>3, <2>4, <2>5, <2>6 DEF Unanswered
  <2> QED
    BY <2>7
<1>12. Accounted'
  BY <1>2, <1>11 DEF Accounted, Live
<1>13. RepliesInOrder'
  <2> SUFFICES ASSUME ~TornByTls PROVE IsPrefix(sent', Answers(Consumed'))
    BY <1>2 DEF RepliesInOrder
  <2>1. PICK b : Unanswered(b)'
    BY <1>11
  <2>2. b \in 1..(d + 1) /\ Owing(stream, d, sent, b)
    BY <1>1, <1>2, <1>6, <1>8, <2>1 DEF Unanswered, Writing
  <2>3. IsPrefix(sent, Answers(Cut(stream, d)))
    BY <1>3, <1>5, <2>2, SentIsPrefix
  <2> QED
    BY <1>1, <1>2, <1>6, <2>3 DEF Consumed, Cut, Taken
<1>14. RepliesComplete'
  BY <1>8 DEF RepliesComplete
<1> QED
  BY <1>9, <1>10, <1>12, <1>13, <1>14 DEF IInv

\* get_request(): its answer is what is due first, and the parser goes on behind it.
LEMMA ProcessKeeps ==
  ASSUME IInv, Process
  PROVE  IInv'
<1> DEFINE a == OkAnswer(parser.request)
<1>1. /\ UNCHANGED <<client, wire, fileLen, sent>> /\ pc = "process" /\ pc' = "write"
      /\ parser' = AfterGetRequest(parser)
  BY DEF Process
<1>2. PICK fd \in BOOLEAN :
        pkg' = [answer |-> a, fd |-> fd, off |-> 0, left |-> IF fd THEN fileLen ELSE 0,
                whole |-> TRUE]
  BY DEF Process
<1>3. UNCHANGED <<tls, stream, peer, reading, fileLen>> /\ TornByTls' = TornByTls
  BY <1>1, ServerLeaves
<1>4. RepliesInOrder' /\ Taken' = Taken /\ Consumed' = Consumed
  BY <1>1, SameAnswers
<1>5. /\ stream \in Texts /\ Taken \in 0..Len(stream) /\ parser \in Parsers
      /\ parser.state = "Done" /\ sent \in Replies /\ fileLen \in 0..FileSize
      /\ FileSize \in Nat
  BY <1>1, FileSizeAssumption DEF IInv, Shape, Place
<1>6. a \in AnswerSet
  BY <1>5, OkAnswerIsAnswer DEF Parsers
<1> HIDE DEF a
<1>7. /\ pkg' \in Packages /\ pkg'.answer = a /\ pkg'.off + pkg'.left <= FileSize
  BY <1>2, <1>5, <1>6 DEF Packages
<1>8. parser' \in Parsers /\ Stuck(parser')
  <2>1. [NewParser EXCEPT !.buffer = parser.buffer] \in Parsers
    BY <1>5, NewIsParser DEF Parsers
  <2> QED
    BY <1>1, <2>1, AdvanceStops DEF AfterGetRequest
<1>9. Shape'
  BY <1>1, <1>3, <1>4, <1>7, <1>8 DEF IInv, Shape, Pcs
<1>10. Place'
  BY <1>1, <1>7 DEF Place, Writing
<1>11. Accounted'
  <2> SUFFICES ASSUME ~TornByTls, peer # "reset" PROVE \E b : Unanswered(b)'
    BY <1>1, <1>3 DEF Accounted, Live
  <2>1. PICK b : Unanswered(b)
    BY <1>1 DEF IInv, Accounted, Live
  <2>2. PICK k : Stands(stream, Taken, parser, b, k)
    BY <2>1 DEF Unanswered, StandsIn
  <2>3. b \in 1..(Taken + 1) /\ Owing(stream, Taken, sent, b)
    BY <1>1, <2>1 DEF Unanswered, Writing
  <2>4. OwingAfter(stream, Taken, sent, a, k)
    BY <1>5, <2>2, <2>3, OwingRequest DEF a
  <2>5. StandsIn(stream, Taken, parser', k)
    BY <1>1, <1>5, <2>2, NextStands
  <2>6. k \in 1..(Taken + 1)
    BY <1>5, <2>2, <2>3 DEF Stands, Texts
  <2>7. Unanswered(k)'
    BY <1>1, <1>3, <1>4, <1>7, <2>4, <2>5, <2>6 DEF Unanswered, Writing
  <2> QED
    BY <2>7
<1>12. RepliesComplete'
  BY <1>1 DEF RepliesComplete
<1> QED
  BY <1>4, <1>9, <1>10, <1>11, <1>12 DEF IInv

\* write_response is through: if every byte went out the answer has been given, and if
\* not the client has reset the connection or the file shrank under the TLS loop.
LEMMA RespondedKeeps ==
  ASSUME IInv, Writing, UNCHANGED <<client, wire, fileLen, parser>>,
         NEW package \in Packages, Responded(package),
         package.answer = pkg.answer, package.off + package.left <= FileSize,
         package.whole /\ ~TornByTls => Live,
         ~package.whole => TornByTls \/ peer = "reset"
  PROVE  IInv'
<1> DEFINE a == pkg.answer
<1>1. UNCHANGED <<tls, stream, peer, reading, fileLen>> /\ TornByTls' = TornByTls
  BY ServerLeaves
<1>2. Taken' = Taken /\ Consumed' = Consumed
  BY <1>1 DEF Taken, Consumed
<1>3. /\ stream \in Texts /\ Taken \in 0..Len(stream) /\ parser \in Parsers /\ Stuck(parser)
      /\ sent \in Replies /\ a \in AnswerSet
  BY DEF IInv, Shape, Packages
<1> HIDE DEF a
<1>4. /\ pkg' = [package EXCEPT !.fd = FALSE]
      /\ sent' = IF package.whole THEN Append(sent, a) ELSE sent
      /\ pc' = IF a.request.close THEN "returned" ELSE After(parser)
  BY DEF Responded, a
<1>5. /\ pc' \in {"returned", "process", "reject", "read"}
      /\ (pc' = "process" => parser.state = "Done")
      /\ (pc' = "reject" => parser.state = "Error")
      /\ (pc' = "read" => parser.state \notin {"Done", "Error"})
      /\ (pc' = "returned" <=> a.request.close)
  BY <1>4 DEF After, HasRequest, HasError
<1>6. pkg' \in Packages /\ pkg'.fd = FALSE /\ pkg'.off + pkg'.left <= FileSize
  BY <1>4 DEF Packages
<1>7. sent' \in Replies
  BY <1>3, <1>4, FrontAndLast
<1>8. Shape'
  BY <1>1, <1>2, <1>5, <1>6, <1>7 DEF IInv, Shape, Pcs
<1>9. Place'
  BY <1>5, <1>6 DEF Place, Writing
<1>10. CASE ~package.whole
  <2>1. RepliesInOrder'
    BY <1>1, <1>2, <1>4, <1>10 DEF IInv, RepliesInOrder
  <2>2. RepliesComplete'
    BY <1>1, <1>10 DEF RepliesComplete
  <2>3. Accounted'
    BY <1>1, <1>5, <1>10 DEF Accounted, Live
  <2> QED
    BY <1>8, <1>9, <2>1, <2>2, <2>3 DEF IInv
<1>11. CASE TornByTls
  BY <1>1, <1>8, <1>9, <1>11 DEF IInv, RepliesInOrder, RepliesComplete, Accounted, Live
<1>12. CASE package.whole /\ ~TornByTls
  <2>1. PICK b : Unanswered(b)
    BY <1>12 DEF IInv, Accounted
  <2>2. /\ b \in 1..(Taken + 1) /\ StandsIn(stream, Taken, parser, b)
        /\ OwingAfter(stream, Taken, sent, a, b)
    BY <2>1 DEF Unanswered, a
  <2>3. sent' = Append(sent, a)
    BY <1>4, <1>12
  <2>4. RepliesInOrder'
    <3>1. IsPrefix(Append(sent, a), Answers(Cut(stream, Taken)))
      BY <1>3, <2>2, SentIsPrefixAfter
    <3> QED
      BY <1>1, <1>2, <2>3, <3>1 DEF RepliesInOrder, Consumed, Cut, Taken
  <2>5. RepliesComplete'
    <3> SUFFICES ASSUME pc' = "returned" PROVE sent' = Answers(Consumed')
      BY DEF RepliesComplete
    <3>1. a.request.close
      BY <1>5
    <3>2. Append(sent, a) = Answers(Cut(stream, Taken))
      BY <1>3, <2>2, <3>1, NothingAfterClose
    <3> QED
      BY <1>1, <1>2, <2>3, <3>2 DEF Consumed, Cut, Taken
  <2>6. Accounted'
    <3> SUFFICES ASSUME pc' # "returned" PROVE \E e : Unanswered(e)'
      BY DEF Accounted, Live
    <3>1. ~a.request.close
      BY <1>5
    <3>2. Owing(stream, Taken, Append(sent, a), b)
      BY <1>3, <2>2, <3>1, OwingNext
    <3>3. ~Writing'
      BY <1>5 DEF Writing
    <3>4. Unanswered(b)'
      BY <1>1, <1>2, <2>2, <2>3, <3>2, <3>3 DEF Unanswered
    <3> QED
      BY <3>4
  <2> QED
    BY <1>8, <1>9, <2>4, <2>5, <2>6 DEF IInv
<1> QED
  BY <1>10, <1>11, <1>12

LEMMA WriteKeeps ==
  ASSUME IInv, Write
  PROVE  IInv'
<1> DEFINE written == [pkg EXCEPT !.whole = (peer # "reset")]
<1>1. UNCHANGED <<client, wire, fileLen, parser>> /\ pc = "write" /\ Writing
  BY DEF Write, Writing
<1>2. /\ written \in Packages /\ written.answer = pkg.answer /\ written.off = pkg.off
      /\ written.left = pkg.left /\ written.fd = pkg.fd
      /\ (written.whole <=> peer # "reset")
  BY DEF IInv, Shape, Packages
<1>3. written.off + written.left <= FileSize
  BY <1>2 DEF IInv, Place
<1>4. pkg.fd => pkg' = written /\ pc' = "sendfile" /\ UNCHANGED sent
  BY DEF Write
<1>5. ~pkg.fd => Responded(written)
  BY DEF Write
<1> HIDE DEF written
<1>6. CASE ~pkg.fd
  <2>1. written.whole /\ ~TornByTls => Live
    BY <1>1, <1>2 DEF Live
  <2>2. ~written.whole => TornByTls \/ peer = "reset"
    BY <1>2
  <2> QED
    BY <1>1, <1>2, <1>3, <1>5, <1>6, <2>1, <2>2, RespondedKeeps
<1>7. CASE pkg.fd
  <2>1. pkg' = written /\ pc' = "sendfile" /\ UNCHANGED sent
    BY <1>4, <1>7
  <2>2. UNCHANGED <<tls, stream, peer, reading, fileLen>> /\ TornByTls' = TornByTls
    BY <1>1, ServerLeaves
  <2>3. RepliesInOrder' /\ Taken' = Taken /\ Consumed' = Consumed
    BY <1>1, <2>1, SameAnswers
  <2>4. Shape'
    BY <1>1, <1>2, <2>1, <2>2, <2>3 DEF IInv, Shape, Pcs
  <2>5. Place'
    BY <1>2, <1>3, <2>1, <2>2 DEF Place, Writing
  <2>6. Accounted'
    <3>1. Live' => Live
      BY <1>1, <1>2, <2>1, <2>2 DEF Live
    <3>2. Writing'
      BY <2>1 DEF Writing
    <3>3. \A b : Unanswered(b) => Unanswered(b)'
      BY <1>1, <1>2, <2>1, <2>2, <2>3, <3>2 DEF Unanswered
    <3> QED
      BY <3>1, <3>3 DEF IInv, Accounted
  <2>7. RepliesComplete'
    BY <2>1 DEF RepliesComplete
  <2> QED
    BY <2>3, <2>4, <2>5, <2>6, <2>7 DEF IInv
<1> QED
  BY <1>6, <1>7

\* What is left to send cannot run out while the file keeps its length.
LEMMA AvailableIs ==
  ASSUME IInv
  PROVE  /\ Available <= pkg.left
         /\ Available = 0 /\ pkg.left # 0 => fileLen < FileSize
<1>1. /\ pkg.left \in 0..FileSize /\ pkg.off \in 0..FileSize /\ fileLen \in 0..FileSize
      /\ FileSize \in Nat /\ pkg.off + pkg.left <= FileSize
  BY FileSizeAssumption DEF IInv, Shape, Place, Packages
<1> DEFINE rest == Max({0, fileLen - pkg.off})
<1>2. rest \in Int /\ fileLen - pkg.off <= rest /\ 0 <= rest
  <2>1. 0 \in Int /\ fileLen - pkg.off \in Int
    BY <1>1
  <2>2. rest \in {0, fileLen - pkg.off} /\ 0 <= rest /\ fileLen - pkg.off <= rest
    BY <2>1, GreaterOfTwo
  <2> QED
    BY <2>1, <2>2
<1>3. Available = IF pkg.left <= rest THEN pkg.left ELSE rest
  <2> HIDE DEF rest
  <2>1. pkg.left \in Int
    BY <1>1
  <2>2. Min({pkg.left, rest}) = IF pkg.left <= rest THEN pkg.left ELSE rest
    BY <1>2, <2>1, LesserOfTwo
  <2> QED
    BY <2>2 DEF Available, rest
<1> HIDE DEF rest
<1> QED
  BY <1>1, <1>2, <1>3

LEMMA SendFileKeeps ==
  ASSUME IInv, NEW n \in 1..FileSize, SendFile(n)
  PROVE  IInv'
<1>1. /\ UNCHANGED <<client, wire, fileLen, pc, parser, sent>> /\ pc = "sendfile"
      /\ n <= Available /\ pkg' = [pkg EXCEPT !.off = @ + n, !.left = @ - n]
  BY DEF SendFile
<1>2. UNCHANGED <<tls, stream, peer, reading, fileLen>> /\ TornByTls' = TornByTls
  BY <1>1, ServerLeaves
<1>3. RepliesInOrder' /\ Taken' = Taken /\ Consumed' = Consumed
  BY <1>1, SameAnswers
<1>4. n <= pkg.left
  <2>1. Available <= pkg.left
    BY AvailableIs
  <2>2. Available \in Int
    <3>1. fileLen - pkg.off \in Int /\ pkg.left \in Int /\ 0 \in Int
      BY FileSizeAssumption DEF IInv, Shape, Packages
    <3>2. Max({0, fileLen - pkg.off}) \in Int
      BY <3>1, GreaterOfTwo
    <3>3. Available \in {pkg.left, Max({0, fileLen - pkg.off})}
      BY <3>1, <3>2, LesserOfTwo DEF Available
    <3> QED
      BY <3>1, <3>2, <3>3
  <2> QED
    BY <1>1, <2>1, <2>2, FileSizeAssumption DEF IInv, Shape, Packages
<1>5. /\ pkg' \in Packages /\ pkg'.answer = pkg.answer /\ pkg'.fd = pkg.fd
      /\ pkg'.whole = pkg.whole /\ pkg'.off + pkg'.left <= FileSize
  <2>1. /\ pkg \in Packages /\ pkg.off + pkg.left <= FileSize /\ FileSize \in Nat
    BY FileSizeAssumption DEF IInv, Shape, Place
  <2>2. pkg.off + n \in 0..FileSize /\ pkg.left - n \in 0..FileSize
    BY <1>4, <2>1 DEF Packages
  <2>3. /\ pkg'.off = pkg.off + n /\ pkg'.left = pkg.left - n /\ pkg'.answer = pkg.answer
        /\ pkg'.fd = pkg.fd /\ pkg'.whole = pkg.whole
    BY <1>1, <2>1 DEF Packages
  <2>4. pkg' \in Packages
    BY <1>1, <2>1, <2>2 DEF Packages
  <2>5. (pkg.off + n) + (pkg.left - n) <= FileSize
    BY <2>1 DEF Packages
  <2> QED
    BY <2>3, <2>4, <2>5
<1>6. Shape'
  BY <1>1, <1>2, <1>3, <1>5 DEF IInv, Shape
<1>7. Place'
  BY <1>1, <1>2, <1>5 DEF IInv, Place, Writing
<1>8. Accounted'
  <2>1. Live' => Live
    BY <1>1, <1>2, <1>5 DEF Live
  <2>2. \A b : Unanswered(b) => Unanswered(b)'
    BY <1>1, <1>2, <1>3, <1>5 DEF Unanswered, Writing
  <2> QED
    BY <2>1, <2>2 DEF IInv, Accounted
<1>9. RepliesComplete'
  BY <1>1 DEF RepliesComplete
<1> QED
  BY <1>3, <1>6, <1>7, <1>8, <1>9 DEF IInv

LEMMA SendFileDoneKeeps ==
  ASSUME IInv, SendFileDone
  PROVE  IInv'
<1> DEFINE package == [pkg EXCEPT !.whole = @ /\ pkg.left = 0]
<1>1. /\ UNCHANGED <<client, wire, fileLen, parser>> /\ pc = "sendfile" /\ Writing
      /\ Responded(package)
      /\ pkg.left = 0 \/ peer = "reset" \/ (tls /\ Available = 0)
  BY DEF SendFileDone, SslWriteLoopLeft, SendFileLoopLeft, Writing
<1>2. /\ package \in Packages /\ package.answer = pkg.answer /\ package.off = pkg.off
      /\ package.left = pkg.left /\ (package.whole <=> pkg.whole /\ pkg.left = 0)
  BY DEF IInv, Shape, Packages
<1>3. package.off + package.left <= FileSize
  BY <1>2 DEF IInv, Place
<1> HIDE DEF package
<1>4. package.whole /\ ~TornByTls => Live
  BY <1>1, <1>2 DEF Live
<1>5. ~package.whole => TornByTls \/ peer = "reset"
  <2> SUFFICES ASSUME ~package.whole, peer # "reset" PROVE TornByTls
    OBVIOUS
  <2>1. pkg.whole
    BY <1>1 DEF IInv, Place
  <2>2. pkg.left # 0 /\ tls /\ Available = 0
    BY <1>1, <1>2, <2>1
  <2> QED
    BY <2>2, AvailableIs DEF TornByTls
<1> QED
  BY <1>1, <1>2, <1>3, <1>4, <1>5, RespondedKeeps

\* The last answer of all, unless a limit struck.
LEMMA RejectKeeps ==
  ASSUME IInv, Reject
  PROVE  IInv'
<1> DEFINE a == ErrorAnswer(parser.error)
<1>1. /\ UNCHANGED <<client, wire, fileLen, parser, pkg>> /\ pc = "reject" /\ pc' = "returned"
      /\ sent' = IF peer = "reset" THEN sent ELSE Append(sent, a)
  BY DEF Reject
<1>2. UNCHANGED <<tls, stream, peer, reading, fileLen>> /\ TornByTls' = TornByTls
  BY <1>1, ServerLeaves
<1>3. Taken' = Taken /\ Consumed' = Consumed
  BY <1>1, <1>2 DEF Taken, Consumed
<1>4. /\ stream \in Texts /\ Taken \in 0..Len(stream) /\ parser \in Parsers
      /\ parser.state = "Error" /\ sent \in Replies /\ ~pkg.fd
  BY <1>1 DEF IInv, Shape, Place, Writing
<1>5. /\ a \in AnswerSet /\ Append(sent, a) \in Replies /\ Append(sent, a) # <<>>
      /\ Front(Append(sent, a)) = sent /\ Last(Append(sent, a)) = a
  <2>1. a \in AnswerSet
    BY ErrorAnswerIsAnswer
  <2> HIDE DEF a
  <2> QED
    BY <1>4, <2>1, FrontAndLast
<1>6. Shape'
  BY <1>1, <1>2, <1>3, <1>4, <1>5 DEF IInv, Shape, Pcs
<1>7. Place'
  BY <1>1, <1>4 DEF IInv, Place, Writing
<1>8. Accounted'
  BY <1>1 DEF Accounted, Live
<1>9. CASE peer = "reset"
  <2>1. RepliesInOrder'
    BY <1>1, <1>2, <1>3, <1>9 DEF IInv, RepliesInOrder
  <2>2. RepliesComplete'
    BY <1>2, <1>9 DEF RepliesComplete
  <2> QED
    BY <1>6, <1>7, <1>8, <2>1, <2>2 DEF IInv
<1>10. CASE TornByTls
  BY <1>2, <1>6, <1>7, <1>8, <1>10 DEF IInv, RepliesInOrder, RepliesComplete
<1>11. CASE peer # "reset" /\ ~TornByTls
  <2>1. PICK b : Unanswered(b)
    BY <1>1, <1>11 DEF IInv, Accounted, Live
  <2>2. PICK k : Stands(stream, Taken, parser, b, k)
    BY <2>1 DEF Unanswered, StandsIn
  <2>3. b \in 1..(Taken + 1) /\ Owing(stream, Taken, sent, b)
    BY <1>1, <2>1 DEF Unanswered, Writing
  <2>4. sent' = Append(sent, a)
    BY <1>1, <1>11
  <2>5. Answers(Consumed') = Answers(Cut(stream, Taken))
    BY <1>3 DEF Consumed, Cut, Taken
  <2>6. CASE LongLine(stream, Taken, parser, k)
    <3>1. HasLongLine(stream) /\ a.status = 400
      BY <1>4, <2>2, <2>6, LimitStruck
    <3>2. IsPrefix(sent, Answers(Cut(stream, Taken)))
      BY <1>4, <2>3, SentIsPrefix
    <3> HIDE DEF a
    <3>3. RepliesInOrder'
      BY <1>2, <1>5, <2>4, <2>5, <3>1, <3>2 DEF RepliesInOrder
    <3>4. RepliesComplete'
      BY <1>2, <3>1 DEF RepliesComplete
    <3> QED
      BY <1>6, <1>7, <1>8, <3>3, <3>4 DEF IInv
  <2>7. CASE ~LongLine(stream, Taken, parser, k)
    <3>1. Append(sent, a) = Answers(Cut(stream, Taken))
      BY <1>4, <2>2, <2>3, <2>7, OnlyErrorOwed
    <3>2. IsPrefix(Append(sent, a), Append(sent, a))
      BY DEF IsPrefix
    <3> HIDE DEF a
    <3>3. RepliesInOrder'
      BY <2>4, <2>5, <3>1, <3>2 DEF RepliesInOrder
    <3>4. RepliesComplete'
      BY <2>4, <2>5, <3>1 DEF RepliesComplete
    <3> QED
      BY <1>6, <1>7, <1>8, <3>3, <3>4 DEF IInv
  <2> QED
    BY <2>6, <2>7
<1> QED
  BY <1>9, <1>10, <1>11

LEMMA StepKeeps == IInv /\ [Next]_vars => IInv'
<1> SUFFICES ASSUME IInv, [Next]_vars PROVE IInv'
  OBVIOUS
<1>1. CASE PeerClose \/ PeerReset \/ PeerStall \/ Truncate
  BY <1>1, AroundKeeps
<1>2. CASE Handshake \/ ReadEnds
  BY <1>2, HandshakeOrEndKeeps
<1>3. CASE Process
  BY <1>3, ProcessKeeps
<1>4. CASE Write
  BY <1>4, WriteKeeps
<1>5. CASE SendFileDone
  BY <1>5, SendFileDoneKeeps
<1>6. CASE Reject
  BY <1>6, RejectKeeps
<1>7. CASE \E n \in 1..ReadMax : Read(n)
  BY <1>7, ReadKeeps
<1>8. CASE \E n \in 1..FileSize : SendFile(n)
  BY <1>8, SendFileKeeps
<1>9. CASE UNCHANGED vars
  <2>1. UNCHANGED <<tls, stream, wire, peer, reading, fileLen, pc, parser, pkg, sent>>
    BY <1>9 DEF vars
  <2>2. Taken' = Taken /\ Writing' = Writing /\ Consumed' = Consumed /\ TornByTls' = TornByTls
    BY <2>1 DEF Taken, Writing, Consumed, TornByTls
  <2>3. Shape' /\ Place' /\ Live' = Live
    BY <2>1, <2>2 DEF IInv, Shape, Place, Live
  <2>4. Accounted'
    BY <2>1, <2>2, <2>3 DEF IInv, Accounted, Unanswered
  <2>5. RepliesInOrder' /\ RepliesComplete'
    BY <2>1, <2>2 DEF IInv, RepliesInOrder, RepliesComplete
  <2> QED
    BY <2>3, <2>4, <2>5 DEF IInv
<1> QED
  BY <1>1, <1>2, <1>3, <1>4, <1>5, <1>6, <1>7, <1>8, <1>9
     DEF Next, Server, handle_connection, handle_tls_connection, Loop

(***************************************************************************)
(* The theorems.                                                            *)
(***************************************************************************)
\* Where the parser stands in the stream and what is still owed, in every interleaving
\* of the connection's loop with its client and the file it serves.
THEOREM InvariantHolds == Spec => []IInv
  BY Initially, StepKeeps, PTL DEF Spec

\* The state of handle_connection stays within its types; body_fd is open only while
\* write_response runs.
THEOREM TypeCorrect == Spec => []TypeOK
<1>1. IInv => TypeOK
  <2> SUFFICES ASSUME IInv PROVE TypeOK
    OBVIOUS
  <2>1. IsSuffix(wire, stream)
    BY RestIsSuffix DEF IInv, Shape
  <2>2. /\ parser.state \in {"RequestLine", "Headers", "Body", "Done", "Error"}
        /\ parser.remaining \in 0..MaxBody
    BY DEF IInv, Shape, Parsers
  <2>3. pkg.left \in 0..FileSize /\ pkg.off \in 0..FileSize
    BY DEF IInv, Shape, Packages
  <2>4. pkg.fd => pc \in {"write", "sendfile"}
    BY DEF IInv, Place, Writing
  <2> QED
    BY <2>1, <2>2, <2>3, <2>4 DEF IInv, Shape, Pcs, TypeOK
<1> QED
  BY <1>1, InvariantHolds, PTL

\* However TCP cuts the stream and however many requests a read() brings, the client gets
\* the answers its requests call for, in order and each whole before the next.
THEOREM InOrder == Spec => []RepliesInOrder
<1>1. IInv => RepliesInOrder
  BY DEF IInv
<1> QED
  BY <1>1, InvariantHolds, PTL

\* handle_connection returns only after it has answered every request it has read,
\* pipelined ones included.
THEOREM Complete == Spec => []RepliesComplete
<1>1. IInv => RepliesComplete
  BY DEF IInv
<1> QED
  BY <1>1, InvariantHolds, PTL

\* Before every read() the parser holds no more than the longest line or the largest body:
\* advance() has gone on until the limits had been checked.
THEOREM BuffersBounded == Spec => []BufferBounded
<1>1. IInv => BufferBounded
  <2> SUFFICES ASSUME IInv, pc = "read"
               PROVE  Len(parser.buffer) <= Max({MaxLine, MaxBody})
    BY DEF BufferBounded
  <2>1. parser \in Parsers /\ Stuck(parser) /\ parser.state \notin {"Done", "Error"}
    BY DEF IInv, Shape, Place
  <2> QED
    BY <2>1, StuckIsBounded
<1> QED
  BY <1>1, InvariantHolds, PTL
=============================================================================
