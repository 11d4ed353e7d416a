---------------------------- MODULE ServerProofs ----------------------------
(***************************************************************************)
(* Proofs about Server, for any configuration files, TLS clients and        *)
(* descriptor numbers: what the management thread writes to, what is open   *)
(* when run() returns, and what load_config makes of a file.                *)
(***************************************************************************)
EXTENDS Server, TLAPS, WellFoundedInduction, FiniteSetTheorems, SequenceTheorems

(***************************************************************************)
(* The descriptor table.                                                    *)
(***************************************************************************)
LEMMA LowestIsFree ==
  ASSUME NEW table, Free(table) # {}
  PROVE  Lowest(table) \in Fds /\ table[Lowest(table)] = "free"
<1> DEFINE R == {r \in Nat \X Nat : r[1] < r[2]}
<1>1. IsWellFoundedOn(R, Nat)
  BY NatLessThanWellFounded DEF OpToRel
<1>2. Free(table) \subseteq Nat
  BY FdsAssumption DEF Free
<1>3. PICK n \in Free(table) : \A m \in Free(table) : ~ (<<m, n>> \in R)
  BY <1>1, <1>2, WFMin
<1>4. ASSUME NEW m \in Free(table) PROVE n <= m
  <2>1. m \in Nat /\ n \in Nat /\ ~(<<m, n>> \in R)
    BY <1>2, <1>3
  <2> QED
    BY <2>1
<1>5. Lowest(table) \in Free(table)
  BY <1>3, <1>4 DEF Lowest, Min
<1> QED
  BY <1>5 DEF Free

\* With two free numbers pipe() gets two that differ.
LEMMA TwoFree ==
  ASSUME NEW table, DOMAIN table = Fds, Cardinality(Free(table)) >= 2, NEW r \in Free(table)
  PROVE  Free(Opened(table, r, "pipe_r")) # {}
<1>1. Free(Opened(table, r, "pipe_r")) = Free(table) \ {r}
  BY DEF Free, Opened
<1>2. Free(table) # {r}
  BY FS_Singleton
<1> QED
  BY <1>1, <1>2

LEMMA PipeIsFree ==
  ASSUME NEW table, DOMAIN table = Fds, Cardinality(Free(table)) >= 2
  PROVE  LET r == Lowest(table)
             next == Opened(table, r, "pipe_r")
         IN  /\ r \in Fds /\ table[r] = "free"
             /\ Lowest(next) \in Fds /\ next[Lowest(next)] = "free" /\ Lowest(next) # r
<1> DEFINE r == Lowest(table)
           next == Opened(table, r, "pipe_r")
<1>1. Free(table) # {}
  BY FS_EmptySet
<1>2. r \in Fds /\ table[r] = "free" /\ r \in Free(table)
  BY <1>1, LowestIsFree DEF Free
<1>3. Free(next) # {}
  BY <1>2, TwoFree
<1>4. Lowest(next) \in Fds /\ next[Lowest(next)] = "free"
  BY <1>3, LowestIsFree
<1> HIDE DEF r
<1>5. next[r] = "pipe_r"
  BY <1>2 DEF Opened
<1> HIDE DEF next
<1>6. Lowest(next) # r
  BY <1>4, <1>5
<1> QED
  BY <1>2, <1>4, <1>6 DEF r, next

(***************************************************************************)
(* The inductive invariant.  Before the management thread starts there are   *)
(* no TLS connections and no byte; while run() is in its loops the pipe is   *)
(* open, and no other thread keeps its number; and it leaves the loops only   *)
(* after that thread has written and ended, unless select() failed.          *)
(***************************************************************************)
Early == {"load", "listen", "pipe", "tls"}

BeforeTls ==
  main \in Early =>
    /\ tls_fd = 0 /\ acceptor = "none"
    /\ \A c \in Clients : client[c] = "away" /\ cfd[c] = 0 /\ body_fd[c] = 0

BeforeMgmt == main \in Early \cup {"mgmt"} => mgmt = "none"

PipeKept ==
  main \in {"tls", "mgmt", "run"} =>
    /\ pipe_w \in Fds /\ fds[pipe_w] = "pipe_w"
    /\ \A c \in Clients : cfd[c] # pipe_w /\ body_fd[c] # pipe_w

ByteIsLast == pipe \in Nat /\ (pipe > 0 => mgmt = "exited")

WritesInLoops == ~loopsFailed /\ mgmt \in {"read", "write"} => main \in {"run", "exit"}

Shape ==
  /\ DOMAIN fds = Fds
  /\ client \in [Clients -> {"away", "backlog", "accepted", "sending", "sent", "gone"}]
  /\ DOMAIN cfd = Clients /\ DOMAIN body_fd = Clients

SInv ==
  /\ Shape /\ BeforeTls /\ BeforeMgmt /\ PipeKept /\ ByteIsLast /\ WritesInLoops
  /\ ShutdownByteGoesToPipe

LEMMA InitSInv == Init => SInv
<1> SUFFICES ASSUME Init PROVE SInv
  OBVIOUS
<1> USE DEF Init
<1>1. Shape
  BY DEF Shape
<1>2. BeforeTls /\ BeforeMgmt
  BY DEF BeforeTls, BeforeMgmt
<1>3. PipeKept /\ ByteIsLast /\ WritesInLoops /\ ShutdownByteGoesToPipe
  BY DEF PipeKept, ByteIsLast, WritesInLoops, ShutdownByteGoesToPipe
<1> QED
  BY <1>1, <1>2, <1>3 DEF SInv
(***************************************************************************)
(* Its steps.                                                               *)
(***************************************************************************)
LEMMA TableKept ==
  ASSUME NEW table, NEW n, NEW what
  PROVE  /\ DOMAIN Opened(table, n, what) = DOMAIN table
         /\ DOMAIN Closed(table, n) = DOMAIN table
         /\ \A m \in DOMAIN table : m # n =>
               Opened(table, n, what)[m] = table[m] /\ Closed(table, n)[m] = table[m]
BY DEF Opened, Closed

\* A step of the main thread that leaves the others alone and is in none of the
\* places of which the invariant speaks.
LEMMA MainElsewhere ==
  ASSUME SInv, main # "exit", DOMAIN fds' = DOMAIN fds,
         UNCHANGED <<mgmtVars, client, cfd, body_fd, loopsFailed>>,
         pipe' = pipe, main' \notin Early \cup {"mgmt", "run"},
         main # "run" \/ mgmt = "exited" \/ loopsFailed
  PROVE  SInv'
<1> USE DEF mgmtVars
<1>1. Shape'
  BY DEF SInv, Shape
<1>2. BeforeTls' /\ BeforeMgmt' /\ PipeKept'
  BY DEF BeforeTls, BeforeMgmt, PipeKept, Early
<1>3. ByteIsLast' /\ ShutdownByteGoesToPipe'
  BY DEF SInv, ByteIsLast, ShutdownByteGoesToPipe
<1>4. WritesInLoops'
  <2> SUFFICES ASSUME ~loopsFailed, mgmt \in {"read", "write"} PROVE main' \in {"run", "exit"}
    BY DEF WritesInLoops
  <2>1. main \in {"run", "exit"}
    BY DEF SInv, WritesInLoops
  <2> QED
    BY <2>1
<1> QED
  BY <1>1, <1>2, <1>3, <1>4 DEF SInv

\* The same as long as the management thread has not been started.
LEMMA MainStartsUp ==
  ASSUME SInv, UNCHANGED <<mgmtVars, tlsVars, tls_fd, pipe, loopsFailed>>,
         main \in Early, main' \in Early, DOMAIN fds' = Fds, PipeKept'
  PROVE  SInv'
<1> USE DEF mgmtVars, tlsVars
<1>1. Shape'
  BY DEF SInv, Shape
<1>2. BeforeTls' /\ BeforeMgmt'
  BY DEF SInv, BeforeTls, BeforeMgmt
<1>3. mgmt = "none"
  BY DEF SInv, BeforeMgmt
<1>4. ByteIsLast' /\ ShutdownByteGoesToPipe' /\ WritesInLoops'
  BY <1>3 DEF SInv, ByteIsLast, ShutdownByteGoesToPipe, WritesInLoops
<1> QED
  BY <1>1, <1>2, <1>4 DEF SInv

LEMMA MainKeeps == SInv /\ main # "exit" /\ (Main \/ LoopsReturn \/ LoopsFail) => SInv'
<1> SUFFICES ASSUME SInv, main # "exit", Main \/ LoopsReturn \/ LoopsFail PROVE SInv'
  OBVIOUS
<1>1. CASE NoConfigFile \/ LoadConfig
  <2>1. CASE main' = "listen"
    <3>1. PipeKept' /\ DOMAIN fds' = Fds
      BY <1>1, <2>1 DEF NoConfigFile, LoadConfig, PipeKept, SInv, Shape
    <3> QED
      BY <1>1, <2>1, <3>1, MainStartsUp DEF NoConfigFile, LoadConfig, numbers, Early
  <2>2. CASE main' = "exit"
    BY <1>1, <2>2, MainElsewhere DEF NoConfigFile, LoadConfig, tlsVars, Early
  <2> QED
    BY <1>1, <2>1, <2>2 DEF NoConfigFile, LoadConfig
<1>2. CASE Listen
  <2>1. DOMAIN fds' = Fds
    BY <1>2, TableKept DEF Listen, SInv, Shape
  <2>2. CASE main' = "pipe"
    <3>1. PipeKept'
      BY <2>2 DEF PipeKept
    <3> QED
      BY <1>2, <2>1, <2>2, <3>1, MainStartsUp DEF Listen, Early
  <2>3. CASE main' = "returned"
    BY <1>2, <2>1, <2>3, MainElsewhere DEF Listen, tlsVars, Early, SInv, Shape
  <2> QED
    BY <1>2, <2>2, <2>3 DEF Listen
<1>3. CASE MakePipe
  <2> DEFINE r == Lowest(fds)
             w == Lowest(Opened(fds, r, "pipe_r"))
  <2>1. w \in Fds /\ w # r /\ r \in Fds
    BY <1>3, PipeIsFree DEF MakePipe, SInv, Shape
  <2>2. /\ fds' = Opened(Opened(fds, r, "pipe_r"), w, "pipe_w") /\ pipe_w' = w
        /\ main = "pipe" /\ main' = "tls"
        /\ UNCHANGED <<mgmtVars, tlsVars, tls_fd, pipe, loopsFailed>>
    BY <1>3 DEF MakePipe
  <2> HIDE DEF r, w
  <2>3. DOMAIN fds' = Fds
    BY <2>2, TableKept DEF SInv, Shape
  <2>4. fds'[w] = "pipe_w"
    BY <2>1, <2>2, TableKept DEF Opened, SInv, Shape
  <2>5. \A c \in Clients : cfd'[c] = 0 /\ body_fd'[c] = 0
    BY <2>2 DEF SInv, BeforeTls, Early, tlsVars
  <2>6. PipeKept'
    BY <2>1, <2>2, <2>4, <2>5, FdsAssumption DEF PipeKept
  <2> QED
    BY <2>2, <2>3, <2>6, MainStartsUp DEF Early
<1>4. CASE PipeFails
  BY <1>4, TableKept, MainElsewhere DEF PipeFails, tlsVars, Early
<1>5. CASE StartTls
  <2>1. /\ main = "tls" /\ main' = "mgmt"
        /\ UNCHANGED <<pipe_w, pipe, mgmtVars, client, cfd, body_fd, loopsFailed>>
    BY <1>5 DEF StartTls
  <2>2. DOMAIN fds' = Fds /\ (fds[pipe_w] = "pipe_w" /\ pipe_w \in Fds => fds'[pipe_w] = "pipe_w")
    <3>1. CASE fds' = fds
      BY <3>1 DEF SInv, Shape
    <3>2. CASE Free(fds) # {} /\ fds' = Opened(fds, Lowest(fds), "tls")
      BY <3>2, LowestIsFree, TableKept DEF SInv, Shape
    <3> QED
      BY <1>5, <3>1, <3>2 DEF StartTls
  <2>3. Shape'
    BY <2>1, <2>2 DEF SInv, Shape
  <2>4. PipeKept'
    BY <2>1, <2>2 DEF SInv, PipeKept
  <2>5. BeforeTls' /\ BeforeMgmt' /\ ByteIsLast' /\ WritesInLoops' /\ ShutdownByteGoesToPipe'
    BY <2>1 DEF SInv, BeforeTls, BeforeMgmt, ByteIsLast, WritesInLoops, ShutdownByteGoesToPipe,
                Early, mgmtVars
  <2> QED
    BY <2>3, <2>4, <2>5 DEF SInv
<1>6. CASE StartMgmt
  <2>1. /\ main = "mgmt" /\ main' = "run" /\ mgmt' = "read"
        /\ UNCHANGED <<fds, pipe_w, pipe, misdirected, client, cfd, body_fd, loopsFailed>>
    BY <1>6 DEF StartMgmt, numbers, tlsVars
  <2>2. mgmt = "none"
    BY <2>1 DEF SInv, BeforeMgmt
  <2>3. Shape' /\ PipeKept'
    BY <2>1 DEF SInv, Shape, PipeKept
  <2>4. BeforeTls' /\ BeforeMgmt' /\ ByteIsLast' /\ WritesInLoops' /\ ShutdownByteGoesToPipe'
    BY <2>1, <2>2 DEF SInv, BeforeTls, BeforeMgmt, ByteIsLast, WritesInLoops,
                      ShutdownByteGoesToPipe, Early
  <2> QED
    BY <2>3, <2>4 DEF SInv
<1>7. CASE CloseServer
  BY <1>7, TableKept, MainElsewhere DEF CloseServer, tlsVars, Early
<1>8. CASE CloseTls
  BY <1>8, TableKept, MainElsewhere DEF CloseTls, tlsVars, Early
<1>9. CASE JoinTls
  BY <1>9, MainElsewhere DEF JoinTls, tlsVars, Early
<1>10. CASE ClosePipeRead
  BY <1>10, TableKept, MainElsewhere DEF ClosePipeRead, tlsVars, Early
<1>11. CASE ClosePipeWrite
  BY <1>11, TableKept, MainElsewhere DEF ClosePipeWrite, tlsVars, Early
<1>12. CASE JoinMgmt
  BY <1>12, MainElsewhere DEF JoinMgmt, tlsVars, Early
<1>13. CASE Exit
  BY <1>13, MainElsewhere DEF Exit, tlsVars, Early
<1>14. CASE LoopsReturn
  <2>1. /\ main = "run" /\ main' = "close" /\ pipe' = pipe - 1 /\ mgmt = "exited"
        /\ UNCHANGED <<fds, mgmt, misdirected, client, cfd, body_fd, loopsFailed>>
    BY <1>14 DEF LoopsReturn, SInv, ByteIsLast, mgmtVars, tlsVars
  <2>2. Shape' /\ BeforeTls' /\ BeforeMgmt' /\ PipeKept'
    BY <2>1 DEF SInv, Shape, BeforeTls, BeforeMgmt, PipeKept, Early
  <2>3. pipe' \in Nat
    BY <1>14 DEF LoopsReturn, SInv, ByteIsLast
  <2>4. ByteIsLast' /\ WritesInLoops' /\ ShutdownByteGoesToPipe'
    BY <2>1, <2>3 DEF SInv, ByteIsLast, WritesInLoops, ShutdownByteGoesToPipe
  <2> QED
    BY <2>2, <2>4 DEF SInv
<1>15. CASE LoopsFail
  <2>1. /\ main' = "close" /\ loopsFailed'
        /\ UNCHANGED <<fds, pipe, mgmt, misdirected, client, cfd, body_fd>>
    BY <1>15 DEF LoopsFail, mgmtVars, tlsVars
  <2>2. Shape' /\ BeforeTls' /\ BeforeMgmt' /\ PipeKept'
    BY <2>1 DEF SInv, Shape, BeforeTls, BeforeMgmt, PipeKept, Early
  <2>3. ByteIsLast' /\ WritesInLoops' /\ ShutdownByteGoesToPipe'
    BY <2>1 DEF SInv, ByteIsLast, WritesInLoops, ShutdownByteGoesToPipe
  <2> QED
    BY <2>2, <2>3 DEF SInv
<1> QED
  BY <1>1, <1>2, <1>3, <1>4, <1>5, <1>6, <1>7, <1>8, <1>9, <1>10, <1>11, <1>12, <1>13, <1>14,
     <1>15 DEF Main

LEMMA MgmtKeeps == SInv /\ main # "exit" /\ Mgmt => SInv'
<1> SUFFICES ASSUME SInv, main # "exit", Mgmt PROVE SInv'
  OBVIOUS
<1>1. mgmt # "none" /\ mgmt' # "none" /\ main \notin Early \cup {"mgmt"}
  BY DEF Mgmt, MgmtShutdown, MgmtEof, MgmtWrite, SInv, BeforeMgmt
<1>2. /\ UNCHANGED <<fds, numbers, client, cfd, body_fd, loopsFailed>>
      /\ main' \in {main, "exit"}
  BY DEF Mgmt, MgmtShutdown, MgmtEof, MgmtWrite, tlsVars
<1>3. Shape' /\ BeforeTls' /\ BeforeMgmt'
  BY <1>1, <1>2 DEF SInv, Shape, BeforeTls, BeforeMgmt, Early
<1>4. PipeKept'
  BY <1>2 DEF SInv, PipeKept, numbers
<1>5. CASE MgmtShutdown \/ MgmtEof
  <2>1. mgmt = "read" /\ UNCHANGED <<pipe, misdirected, main>> /\ mgmt' \in {"write", "exited"}
    BY <1>5 DEF MgmtShutdown, MgmtEof
  <2>2. ByteIsLast' /\ WritesInLoops' /\ ShutdownByteGoesToPipe'
    BY <1>2, <2>1 DEF SInv, ByteIsLast, WritesInLoops, ShutdownByteGoesToPipe
  <2> QED
    BY <1>3, <1>4, <2>2 DEF SInv
<1>6. CASE MgmtWrite
  <2>1. mgmt = "write" /\ mgmt' = "exited"
    BY <1>6 DEF MgmtWrite
  <2>2. pipe' \in Nat
    BY <1>6 DEF MgmtWrite, SInv, ByteIsLast
  <2>3. ByteIsLast' /\ WritesInLoops'
    BY <2>1, <2>2 DEF ByteIsLast, WritesInLoops
  <2>4. ShutdownByteGoesToPipe'
    <3> SUFFICES ASSUME ~loopsFailed PROVE misdirected' = FALSE
      BY <1>2 DEF ShutdownByteGoesToPipe
    <3>1. main = "run"
      BY <2>1 DEF SInv, WritesInLoops
    <3>2. fds[pipe_w] = "pipe_w"
      BY <3>1 DEF SInv, PipeKept
    <3> QED
      BY <1>6, <3>2 DEF MgmtWrite
  <2> QED
    BY <1>3, <1>4, <2>3, <2>4 DEF SInv
<1> QED
  BY <1>5, <1>6 DEF Mgmt

\* TLS does not touch the main thread, the management thread and the pipe.
Apart == UNCHANGED <<main, mgmtVars, numbers, pipe, loopsFailed>>

LEMMA TlsKeeps ==
  ASSUME SInv, Apart, Shape', BeforeTls', PipeKept'
  PROVE  SInv'
<1>1. BeforeMgmt' /\ ByteIsLast' /\ WritesInLoops' /\ ShutdownByteGoesToPipe'
  BY DEF SInv, Apart, mgmtVars, BeforeMgmt, ByteIsLast, WritesInLoops, ShutdownByteGoesToPipe
<1> QED
  BY <1>1 DEF SInv

\* A number that a connection gets was free, so it is not that of the pipe.
LEMMA OpensAnother ==
  ASSUME SInv, Free(fds) # {}, NEW what, fds' = Opened(fds, Lowest(fds), what), Apart
  PROVE  /\ DOMAIN fds' = Fds
         /\ main \in {"tls", "mgmt", "run"} => Lowest(fds) # pipe_w /\ fds'[pipe_w] = "pipe_w"
<1>1. Lowest(fds) \in Fds /\ fds[Lowest(fds)] = "free"
  BY LowestIsFree
<1>2. DOMAIN fds = Fds
  BY DEF SInv, Shape
<1>3. DOMAIN fds' = Fds
  BY <1>2, TableKept
<1>4. ASSUME main \in {"tls", "mgmt", "run"} PROVE Lowest(fds) # pipe_w /\ fds'[pipe_w] = "pipe_w"
  <2>1. pipe_w \in Fds /\ fds[pipe_w] = "pipe_w"
    BY <1>4 DEF SInv, PipeKept
  <2>2. Lowest(fds) # pipe_w
    BY <1>1, <2>1
  <2> QED
    BY <1>2, <2>1, <2>2, TableKept
<1> QED
  BY <1>3, <1>4

LEMMA ConnectionKeeps ==
  ASSUME SInv, NEW c \in Clients, AcceptTls(c) \/ Connection(c)
  PROVE  SInv'
<1>1. Apart /\ client[c] # "away"
  BY DEF AcceptTls, Connection, OpenBody, CloseBody, CloseConnection, Apart, numbers
<1>2. main \notin Early
  BY <1>1 DEF SInv, BeforeTls
<1>3. BeforeTls'
  BY <1>1, <1>2 DEF BeforeTls, Apart
<1>4. CASE AcceptTls(c)
  <2>1. /\ Free(fds) # {} /\ fds' = Opened(fds, Lowest(fds), "client")
        /\ client' = [client EXCEPT ![c] = "accepted"]
        /\ cfd' = [cfd EXCEPT ![c] = Lowest(fds)] /\ body_fd' = body_fd
    BY <1>4 DEF AcceptTls
  <2>2. Shape' /\ PipeKept'
    BY <1>1, <2>1, OpensAnother DEF SInv, Shape, PipeKept, Apart, numbers
  <2> QED
    BY <1>1, <1>3, <2>2, TlsKeeps
<1>5. CASE OpenBody(c)
  <2>1. /\ Free(fds) # {} /\ fds' = Opened(fds, Lowest(fds), "body")
        /\ client' = [client EXCEPT ![c] = "sending"]
        /\ body_fd' = [body_fd EXCEPT ![c] = Lowest(fds)] /\ cfd' = cfd
    BY <1>5 DEF OpenBody
  <2>2. Shape' /\ PipeKept'
    BY <1>1, <2>1, OpensAnother DEF SInv, Shape, PipeKept, Apart, numbers
  <2> QED
    BY <1>1, <1>3, <2>2, TlsKeeps
<1>6. CASE CloseBody(c)
  <2>1. /\ fds' = Closed(fds, body_fd[c]) /\ client' = [client EXCEPT ![c] = "sent"]
        /\ body_fd' = [body_fd EXCEPT ![c] = 0] /\ cfd' = cfd
    BY <1>6 DEF CloseBody
  <2>2. Shape'
    BY <2>1, TableKept DEF SInv, Shape
  <2>3. PipeKept'
    <3> SUFFICES ASSUME main \in {"tls", "mgmt", "run"}
                 PROVE  /\ pipe_w \in Fds /\ fds'[pipe_w] = "pipe_w"
                        /\ \A d \in Clients : cfd'[d] # pipe_w /\ body_fd'[d] # pipe_w
      BY <1>1 DEF PipeKept, Apart, numbers
    <3>1. /\ pipe_w \in Fds /\ fds[pipe_w] = "pipe_w"
          /\ \A d \in Clients : cfd[d] # pipe_w /\ body_fd[d] # pipe_w
      BY DEF SInv, PipeKept
    <3>2. fds'[pipe_w] = "pipe_w"
      BY <2>1, <3>1, TableKept DEF SInv, Shape
    <3>3. \A d \in Clients : body_fd'[d] \in {body_fd[d], 0}
      BY <2>1 DEF SInv, Shape
    <3> QED
      BY <2>1, <3>1, <3>2, <3>3, FdsAssumption
  <2> QED
    BY <1>1, <1>3, <2>2, <2>3, TlsKeeps
<1>7. CASE CloseConnection(c)
  <2>1. /\ fds' = Closed(fds, cfd[c]) /\ client' = [client EXCEPT ![c] = "gone"]
        /\ cfd' = [cfd EXCEPT ![c] = 0] /\ body_fd' = body_fd
    BY <1>7 DEF CloseConnection
  <2>2. Shape'
    BY <2>1, TableKept DEF SInv, Shape
  <2>3. PipeKept'
    <3> SUFFICES ASSUME main \in {"tls", "mgmt", "run"}
                 PROVE  /\ pipe_w \in Fds /\ fds'[pipe_w] = "pipe_w"
                        /\ \A d \in Clients : cfd'[d] # pipe_w /\ body_fd'[d] # pipe_w
      BY <1>1 DEF PipeKept, Apart, numbers
    <3>1. /\ pipe_w \in Fds /\ fds[pipe_w] = "pipe_w"
          /\ \A d \in Clients : cfd[d] # pipe_w /\ body_fd[d] # pipe_w
      BY DEF SInv, PipeKept
    <3>2. fds'[pipe_w] = "pipe_w"
      BY <2>1, <3>1, TableKept DEF SInv, Shape
    <3>3. \A d \in Clients : cfd'[d] \in {cfd[d], 0}
      BY <2>1 DEF SInv, Shape
    <3> QED
      BY <2>1, <3>1, <3>2, <3>3, FdsAssumption
  <2> QED
    BY <1>1, <1>3, <2>2, <2>3, TlsKeeps
<1> QED
  BY <1>4, <1>5, <1>6, <1>7 DEF Connection

LEMMA AcceptorKeeps ==
  ASSUME SInv, AcceptCall \/ AcceptFails \/ \E c \in Clients : Connect(c)
  PROVE  SInv'
<1>1. Apart /\ UNCHANGED <<fds, cfd, body_fd>>
  BY DEF AcceptCall, AcceptFails, Connect, Apart
<1>2. Shape' /\ PipeKept'
  BY <1>1 DEF SInv, Shape, PipeKept, Apart, numbers, AcceptCall, AcceptFails, Connect
<1>3. main \notin Early
  BY DEF SInv, BeforeTls, AcceptCall, AcceptFails, Connect, Listening
<1>4. BeforeTls'
  BY <1>1, <1>3 DEF BeforeTls, Apart
<1> QED
  BY <1>1, <1>2, <1>4, TlsKeeps

LEMMA NextSInv == SInv /\ [Next]_vars => SInv'
<1> SUFFICES ASSUME SInv, [Next]_vars PROVE SInv'
  OBVIOUS
<1>1. CASE UNCHANGED vars
  <2>1. Apart /\ UNCHANGED <<fds, tlsVars>>
    BY <1>1 DEF vars, Apart
  <2>2. Shape' /\ BeforeTls' /\ PipeKept'
    BY <2>1 DEF SInv, Shape, BeforeTls, PipeKept, Apart, numbers, tlsVars
  <2> QED
    BY <2>1, <2>2, TlsKeeps
<1>2. CASE Next
  BY <1>2, MainKeeps, MgmtKeeps, AcceptorKeeps, ConnectionKeeps DEF Next, Acceptor, Woken
<1> QED
  BY <1>1, <1>2

\* Although run() closes the shutdown pipe before it joins the management thread and
\* detached connections reuse numbers, the byte of the shutdown command never goes
\* to a file or a client, unless select() failed: run() leaves its loops only after
\* that thread has written.
THEOREM ShutdownByteHolds == Spec => []ShutdownByteGoesToPipe
<1>1. SInv => ShutdownByteGoesToPipe
  BY DEF SInv
<1> QED
  BY InitSInv, NextSInv, <1>1, PTL DEF Spec

(***************************************************************************)
(* The descriptor table.  Each number in use has one owner: run() by one of  *)
(* its four variables, which say more than is open once main has gone past    *)
(* the close(), or the thread of one connection, by cfd or body_fd.           *)
(***************************************************************************)
Kinds == {"free", "listen", "pipe_r", "pipe_w", "tls", "client", "body"}
Numbers == Fds \cup {0}

\* Where main is once it has closed these descriptors.
WriteClosed == {"join_mgmt", "returned"}
ReadClosed == WriteClosed \cup {"close_w"}
TlsJoined == ReadClosed \cup {"close_r"}
TlsClosed == TlsJoined \cup {"join_tls"}

\* TypeOK but for config.
Types ==
  /\ closeWakes \in BOOLEAN /\ fds \in [Fds -> Kinds]
  /\ server_fd \in Numbers /\ tls_fd \in Numbers /\ pipe_r \in Numbers /\ pipe_w \in Numbers
  /\ pipe \in {0, 1} /\ accepting_connections \in BOOLEAN
  /\ main \in Early \cup TlsClosed \cup {"mgmt", "run", "close", "close_tls", "exit"}
  /\ mgmt \in {"none", "read", "write", "exited"}
  /\ acceptor \in {"none", "call", "blocked", "ended"}
  /\ client \in [Clients -> {"away", "backlog", "accepted", "sending", "sent", "gone"}]
  /\ cfd \in [Clients -> Numbers] /\ body_fd \in [Clients -> Numbers]
  /\ loopsFailed \in BOOLEAN /\ misdirected \in BOOLEAN

\* run() and main() themselves.
MainsNumbers ==
  /\ main \in {"load", "listen", "close_tls"} \cup TlsClosed => server_fd = 0
  /\ main \in {"load", "listen", "pipe"} => pipe_r = 0 /\ pipe_w = 0

MainsTable ==
  main # "exit" =>
    \A n \in Fds :
      /\ fds[n] = "listen" <=> n = server_fd
      /\ fds[n] = "tls" <=> n = tls_fd /\ main \notin TlsClosed
      /\ fds[n] = "pipe_r" <=> n = pipe_r /\ main \notin ReadClosed
      /\ fds[n] = "pipe_w" <=> n = pipe_w /\ main \notin WriteClosed

\* The threads of connections: the numbers are those of their places, and differ.
PlaceOf(c) ==
  /\ cfd[c] = 0 <=> client[c] \in {"away", "backlog", "gone"}
  /\ body_fd[c] = 0 <=> client[c] # "sending"

OneOwner(number) ==
  \A c, d \in Clients : number[c] = number[d] /\ number[c] # 0 => c = d

ClientsTable ==
  \A n \in Fds :
    /\ fds[n] = "client" <=> \E c \in Clients : cfd[c] = n
    /\ fds[n] = "body" <=> \E c \in Clients : body_fd[c] = n

\* Threads that were joined are over, or were never started.
Joined ==
  /\ main \in TlsJoined => acceptor \in {"none", "ended"}
  /\ main = "returned" => mgmt \in {"none", "exited"}

RInv ==
  /\ SInv /\ Types /\ MainsNumbers /\ MainsTable
  /\ ClientsTable /\ OneOwner(cfd) /\ OneOwner(body_fd) /\ \A c \in Clients : PlaceOf(c)
  /\ Joined

LEMMA InitRInv == Init => RInv
<1> SUFFICES ASSUME Init PROVE RInv
  OBVIOUS
<1>1. SInv
  BY InitSInv
<1> USE DEF Init
<1>2. Types /\ MainsNumbers /\ Joined
  BY DEF Types, Kinds, Numbers, Early, MainsNumbers, Joined, TlsJoined, TlsClosed, ReadClosed,
         WriteClosed
<1>3. MainsTable /\ ClientsTable
  BY FdsAssumption DEF MainsTable, ClientsTable
<1>4. OneOwner(cfd) /\ OneOwner(body_fd) /\ \A c \in Clients : PlaceOf(c)
  BY DEF OneOwner, PlaceOf
<1> QED
  BY <1>1, <1>2, <1>3, <1>4 DEF RInv

\* What open() and close() do to the table.
LEMMA OpenedTable ==
  ASSUME NEW table \in [Fds -> Kinds], NEW n \in Fds, NEW what \in Kinds
  PROVE  /\ Opened(table, n, what) \in [Fds -> Kinds]
         /\ \A m \in Fds : Opened(table, n, what)[m] = IF m = n THEN what ELSE table[m]
BY DEF Opened

LEMMA ClosedTable ==
  ASSUME NEW table \in [Fds -> Kinds], NEW n \in Numbers
  PROVE  /\ Closed(table, n) \in [Fds -> Kinds]
         /\ \A m \in Fds : Closed(table, n)[m] = IF m = n THEN "free" ELSE table[m]
BY FdsAssumption DEF Closed, Numbers, Kinds

\* A step that neither gives a number to a connection nor takes one from it.
LEMMA ClientsApart ==
  ASSUME RInv, UNCHANGED <<cfd, body_fd>>,
         \A n \in Fds : fds'[n] = fds[n] \/ {fds[n], fds'[n]} \cap {"client", "body"} = {},
         \A c \in Clients :
            client'[c] = client[c] \/ {client[c], client'[c]} \subseteq {"away", "backlog"}
  PROVE  ClientsTable' /\ OneOwner(cfd)' /\ OneOwner(body_fd)' /\ (\A c \in Clients : PlaceOf(c))'
<1>1. ClientsTable'
  <2> SUFFICES ASSUME NEW n \in Fds
               PROVE  /\ fds'[n] = "client" <=> \E c \in Clients : cfd[c] = n
                      /\ fds'[n] = "body" <=> \E c \in Clients : body_fd[c] = n
    BY DEF ClientsTable
  <2>1. /\ fds[n] = "client" <=> \E c \in Clients : cfd[c] = n
        /\ fds[n] = "body" <=> \E c \in Clients : body_fd[c] = n
    BY DEF RInv, ClientsTable
  <2>2. fds'[n] = fds[n] \/ {fds[n], fds'[n]} \cap {"client", "body"} = {}
    OBVIOUS
  <2> QED
    BY <2>1, <2>2
<1>2. OneOwner(cfd)' /\ OneOwner(body_fd)'
  BY DEF RInv, OneOwner
<1>3. ASSUME NEW c \in Clients PROVE PlaceOf(c)'
  <2>1. /\ PlaceOf(c)
        /\ client'[c] = client[c] \/ {client[c], client'[c]} \subseteq {"away", "backlog"}
    BY DEF RInv
  <2> QED
    BY <2>1 DEF PlaceOf
<1> QED
  BY <1>1, <1>2, <1>3

(***************************************************************************)
(* The main thread.  A step that leaves connections alone has only run()'s   *)
(* own numbers to account for.                                              *)
(***************************************************************************)
LEMMA MainOwns ==
  ASSUME RInv, SInv', UNCHANGED <<client, cfd, body_fd>>,
         \A n \in Fds : fds'[n] = fds[n] \/ {fds[n], fds'[n]} \cap {"client", "body"} = {},
         Types', MainsNumbers', MainsTable', Joined'
  PROVE  RInv'
<1>1. ClientsTable' /\ OneOwner(cfd)' /\ OneOwner(body_fd)' /\ (\A c \in Clients : PlaceOf(c))'
  BY ClientsApart
<1> QED
  BY <1>1 DEF RInv

LEMMA StartUpOwns ==
  RInv /\ SInv' /\ main # "exit"
    /\ \/ NoConfigFile \/ LoadConfig \/ Listen
       \/ MakePipe \/ PipeFails \/ StartTls \/ StartMgmt
    => RInv'
<1> SUFFICES ASSUME RInv, SInv', main # "exit",
                    \/ NoConfigFile \/ LoadConfig \/ Listen
                    \/ MakePipe \/ PipeFails \/ StartTls \/ StartMgmt
             PROVE  RInv'
  OBVIOUS
<1> USE DEF Early, TlsClosed, TlsJoined, ReadClosed, WriteClosed
<1>0. /\ Types /\ MainsNumbers /\ MainsTable /\ fds \in [Fds -> Kinds]
      /\ server_fd \in Numbers /\ tls_fd \in Numbers /\ pipe_r \in Numbers /\ pipe_w \in Numbers
      /\ pipe \in {0, 1} /\ loopsFailed \in BOOLEAN
      /\ main \in Early => tls_fd = 0 /\ acceptor = "none"
      /\ main \in Early \cup {"mgmt"} => mgmt = "none"
  BY DEF RInv, SInv, BeforeTls, BeforeMgmt, Types
<1>10. main \in Early => acceptor \in {"none", "ended"} /\ mgmt \in {"none", "exited"}
  BY <1>0
<1>1. CASE NoConfigFile \/ LoadConfig
  <2>1. /\ main = "load" /\ main' \in {"listen", "exit"}
        /\ UNCHANGED <<system, mgmtVars, client, cfd, body_fd>>
        /\ UNCHANGED <<fds, server_fd, tls_fd, pipe_r, pipe_w, pipe, acceptor, loopsFailed>>
    BY <1>1 DEF NoConfigFile, LoadConfig, numbers, tlsVars
  <2>2. MainsNumbers' /\ MainsTable'
    BY <1>0, <2>1 DEF MainsNumbers, MainsTable
  <2>types. Types' /\ Joined'
    BY <1>10, <1>0, <2>1, <2>2 DEF Types, Joined, Numbers, system, mgmtVars
  <2> QED
    BY <2>1, <2>2, <2>types, MainOwns
<1>2. CASE Listen
  <2>1. /\ main = "listen" /\ main' \in {"pipe", "returned"}
        /\ UNCHANGED <<system, mgmtVars, client, cfd, body_fd>>
        /\ UNCHANGED <<tls_fd, pipe_r, pipe_w, pipe, acceptor, loopsFailed>>
    BY <1>2 DEF Listen, tlsVars
  <2>2. CASE main' = "pipe"
    <3> DEFINE n == Lowest(fds)
    <3>1. Free(fds) # {} /\ server_fd' = n /\ fds' = Opened(fds, n, "listen")
      BY <1>2, <2>2 DEF Listen
    <3>2. n \in Fds /\ fds[n] = "free"
      BY <3>1, LowestIsFree
    <3> HIDE DEF n
    <3>3. /\ fds' \in [Fds -> Kinds]
          /\ \A m \in Fds : fds'[m] = IF m = n THEN "listen" ELSE fds[m]
      BY <1>0, <3>1, <3>2, OpenedTable DEF Kinds
    <3>4. MainsNumbers' /\ MainsTable'
      BY <1>0, <2>1, <2>2, <3>1, <3>2, <3>3, FdsAssumption DEF MainsNumbers, MainsTable
    <3>5. server_fd' \in Numbers
      BY <3>1, <3>2 DEF Numbers
    <3>6. \A m \in Fds : fds'[m] = fds[m] \/ {fds[m], fds'[m]} \cap {"client", "body"} = {}
      BY <3>2, <3>3
    <3>types. Types' /\ Joined'
      BY <1>10, <1>0, <2>1, <2>2, <3>3, <3>4, <3>5, <3>6 DEF Types, Joined, Numbers, system, mgmtVars
    <3> QED
      BY <2>1, <2>2, <3>3, <3>4, <3>5, <3>6, <3>types, MainOwns
  <2>3. CASE main' = "returned"
    <3>1. UNCHANGED <<fds, server_fd>>
      BY <1>2, <2>3 DEF Listen
    <3>2. MainsNumbers' /\ MainsTable'
      BY <1>0, <2>1, <2>3, <3>1, FdsAssumption DEF MainsNumbers, MainsTable
    <3>types. Types' /\ Joined'
      BY <1>10, <1>0, <2>1, <2>3, <3>1, <3>2 DEF Types, Joined, Numbers, system, mgmtVars
    <3> QED
      BY <2>1, <2>3, <3>1, <3>2, <3>types, MainOwns
  <2> QED
    BY <2>1, <2>2, <2>3
<1>3. CASE MakePipe
  <2> DEFINE r == Lowest(fds)
             w == Lowest(Opened(fds, r, "pipe_r"))
  <2>1. /\ fds' = Opened(Opened(fds, r, "pipe_r"), w, "pipe_w") /\ pipe_w' = w /\ pipe_r' = r
        /\ main = "pipe" /\ main' = "tls" /\ Cardinality(Free(fds)) >= 2
        /\ UNCHANGED <<system, mgmtVars, client, cfd, body_fd>>
        /\ UNCHANGED <<server_fd, tls_fd, pipe, acceptor, loopsFailed>>
    BY <1>3 DEF MakePipe, tlsVars
  <2>2. w \in Fds /\ w # r /\ r \in Fds /\ fds[r] = "free" /\ Opened(fds, r, "pipe_r")[w] = "free"
    BY <1>0, <2>1, PipeIsFree
  <2> HIDE DEF r, w
  <2>3. /\ Opened(fds, r, "pipe_r") \in [Fds -> Kinds]
        /\ \A m \in Fds : Opened(fds, r, "pipe_r")[m] = IF m = r THEN "pipe_r" ELSE fds[m]
    BY <1>0, <2>2, OpenedTable DEF Kinds
  <2>4. /\ fds' \in [Fds -> Kinds]
        /\ \A m \in Fds : fds'[m] = IF m = w THEN "pipe_w" ELSE Opened(fds, r, "pipe_r")[m]
    BY <2>1, <2>2, <2>3, OpenedTable DEF Kinds
  <2>5. \A m \in Fds : fds'[m] = IF m = w THEN "pipe_w" ELSE IF m = r THEN "pipe_r" ELSE fds[m]
    BY <2>3, <2>4
  <2>6. fds[w] = "free"
    BY <2>2, <2>3
  <2>7. MainsNumbers' /\ MainsTable'
    BY <1>0, <2>1, <2>2, <2>5, <2>6, FdsAssumption DEF MainsNumbers, MainsTable
  <2>8. pipe_r' \in Numbers /\ pipe_w' \in Numbers
    BY <2>1, <2>2 DEF Numbers
  <2>9. \A m \in Fds : fds'[m] = fds[m] \/ {fds[m], fds'[m]} \cap {"client", "body"} = {}
    BY <2>2, <2>5, <2>6
  <2>types. Types' /\ Joined'
    BY <1>10, <1>0, <2>1, <2>4, <2>7, <2>8, <2>9 DEF Types, Joined, Numbers, system, mgmtVars
  <2> QED
    BY <2>1, <2>4, <2>7, <2>8, <2>9, <2>types, MainOwns
<1>4. CASE PipeFails
  <2>1. /\ main = "pipe" /\ main' = "returned" /\ fds' = Closed(fds, server_fd) /\ server_fd' = 0
        /\ UNCHANGED <<system, mgmtVars, client, cfd, body_fd>>
        /\ UNCHANGED <<tls_fd, pipe_r, pipe_w, pipe, acceptor, loopsFailed>>
    BY <1>4 DEF PipeFails, tlsVars
  <2>2. /\ fds' \in [Fds -> Kinds]
        /\ \A m \in Fds : fds'[m] = IF m = server_fd THEN "free" ELSE fds[m]
    BY <1>0, <2>1, ClosedTable
  <2>3. MainsNumbers' /\ MainsTable'
    BY <1>0, <2>1, <2>2, FdsAssumption DEF MainsNumbers, MainsTable
  <2>4. \A m \in Fds : fds'[m] = fds[m] \/ {fds[m], fds'[m]} \cap {"client", "body"} = {}
    BY <1>0, <2>1, <2>2 DEF MainsTable
  <2>types. Types' /\ Joined'
    BY <1>10, <1>0, <2>1, <2>2, <2>3, <2>4 DEF Types, Joined, Numbers, system, mgmtVars
  <2> QED
    BY <2>1, <2>2, <2>3, <2>4, <2>types, MainOwns
<1>5. CASE StartTls
  <2>1. /\ main = "tls" /\ main' = "mgmt"
        /\ UNCHANGED <<system, mgmtVars, client, cfd, body_fd>>
        /\ UNCHANGED <<server_fd, pipe_r, pipe_w, pipe, loopsFailed>>
    BY <1>5 DEF StartTls
  <2>2. CASE UNCHANGED <<tls_fd, fds, acceptor>>
    <3>1. MainsNumbers' /\ MainsTable'
      BY <1>0, <2>1, <2>2, FdsAssumption DEF MainsNumbers, MainsTable
    <3>types. Types' /\ Joined'
      BY <1>10, <1>0, <2>1, <2>2, <3>1 DEF Types, Joined, Numbers, system, mgmtVars
    <3> QED
      BY <2>1, <2>2, <3>1, <3>types, MainOwns
  <2>3. CASE ~UNCHANGED <<tls_fd, fds, acceptor>>
    <3> DEFINE n == Lowest(fds)
    <3>1. Free(fds) # {} /\ tls_fd' = n /\ fds' = Opened(fds, n, "tls") /\ acceptor' = "call"
      BY <1>5, <2>3 DEF StartTls
    <3>2. n \in Fds /\ fds[n] = "free"
      BY <3>1, LowestIsFree
    <3> HIDE DEF n
    <3>3. /\ fds' \in [Fds -> Kinds]
          /\ \A m \in Fds : fds'[m] = IF m = n THEN "tls" ELSE fds[m]
      BY <1>0, <3>1, <3>2, OpenedTable DEF Kinds
    <3>4. MainsNumbers' /\ MainsTable'
      BY <1>0, <2>1, <3>1, <3>2, <3>3, FdsAssumption DEF MainsNumbers, MainsTable
    <3>5. tls_fd' \in Numbers
      BY <3>1, <3>2 DEF Numbers
    <3>6. \A m \in Fds : fds'[m] = fds[m] \/ {fds[m], fds'[m]} \cap {"client", "body"} = {}
      BY <3>2, <3>3
    <3>types. Types' /\ Joined'
      BY <1>10, <1>0, <2>1, <3>1, <3>3, <3>4, <3>5, <3>6 DEF Types, Joined, Numbers, system, mgmtVars
    <3> QED
      BY <2>1, <3>1, <3>3, <3>4, <3>5, <3>6, <3>types, MainOwns
  <2> QED
    BY <2>2, <2>3
<1>6. CASE StartMgmt
  <2>1. /\ main = "mgmt" /\ main' = "run" /\ mgmt' = "read"
        /\ UNCHANGED <<system, fds, server_fd, tls_fd, pipe_r, pipe_w, pipe, accepting_connections,
                       misdirected, acceptor, client, cfd, body_fd, loopsFailed>>
    BY <1>6 DEF StartMgmt, numbers, tlsVars
  <2>2. Types' /\ MainsNumbers' /\ MainsTable' /\ Joined'
    BY <1>0, <2>1, FdsAssumption DEF Types, MainsNumbers, MainsTable, Joined, system
  <2>3. ClientsTable' /\ OneOwner(cfd)' /\ OneOwner(body_fd)' /\ (\A c \in Clients : PlaceOf(c))'
    BY <2>1, ClientsApart
  <2> QED
    BY <2>2, <2>3 DEF RInv
<1> QED
  BY <1>1, <1>2, <1>3, <1>4, <1>5, <1>6

LEMMA EndOwns ==
  RInv /\ SInv' /\ main # "exit"
    /\ \/ LoopsReturn \/ LoopsFail \/ CloseServer \/ CloseTls \/ JoinTls
       \/ ClosePipeRead \/ ClosePipeWrite \/ JoinMgmt \/ Exit
    => RInv'
<1> SUFFICES ASSUME RInv, SInv', main # "exit",
                    \/ LoopsReturn \/ LoopsFail \/ CloseServer \/ CloseTls \/ JoinTls
                    \/ ClosePipeRead \/ ClosePipeWrite \/ JoinMgmt \/ Exit
             PROVE  RInv'
  OBVIOUS
<1> USE DEF Early, TlsClosed, TlsJoined, ReadClosed, WriteClosed
<1>0. /\ Types /\ MainsNumbers /\ MainsTable /\ Joined /\ fds \in [Fds -> Kinds]
      /\ server_fd \in Numbers /\ tls_fd \in Numbers /\ pipe_r \in Numbers /\ pipe_w \in Numbers
  BY DEF RInv, Types
\* The ones that close a descriptor, or none.
<1>1. ASSUME NEW n \in Numbers, fds' = Closed(fds, n),
             main' \in TlsClosed \cup {"close_tls"}, server_fd' \in Numbers,
             UNCHANGED <<system, mgmtVars, client, cfd, body_fd>>,
             UNCHANGED <<tls_fd, pipe_r, pipe_w, pipe, acceptor, loopsFailed>>,
             n # 0 => fds[n] \notin {"client", "body"},
             main' \in TlsJoined => main \in TlsJoined \/ acceptor \in {"none", "ended"},
             main' = "returned" => mgmt = "exited",
             MainsNumbers',
             (\A m \in Fds : fds'[m] = IF m = n THEN "free" ELSE fds[m]) => MainsTable'
      PROVE  RInv'
  <2>1. /\ fds' \in [Fds -> Kinds]
        /\ \A m \in Fds : fds'[m] = IF m = n THEN "free" ELSE fds[m]
    BY <1>0, <1>1, ClosedTable
  <2>2. MainsTable'
    BY <1>1, <2>1
  <2>3. \A m \in Fds : fds'[m] = fds[m] \/ {fds[m], fds'[m]} \cap {"client", "body"} = {}
    BY <1>1, <2>1, FdsAssumption
  <2>4. Types'
    BY <1>0, <1>1, <2>1 DEF Types, system, mgmtVars
  <2>5. Joined'
    BY <1>0, <1>1 DEF Joined, mgmtVars
  <2> QED
    BY <1>1, <2>2, <2>3, <2>4, <2>5, MainOwns
<1>2. CASE CloseServer
  <2>1. /\ main = "close" /\ main' = "close_tls" /\ fds' = Closed(fds, server_fd) /\ server_fd' = 0
        /\ UNCHANGED <<system, mgmtVars, client, cfd, body_fd>>
        /\ UNCHANGED <<tls_fd, pipe_r, pipe_w, pipe, acceptor, loopsFailed>>
    BY <1>2 DEF CloseServer, tlsVars
  <2>2. server_fd # 0 => fds[server_fd] \notin {"client", "body"}
    BY <1>0, <2>1 DEF MainsTable, Numbers
  <2>3. (\A m \in Fds : fds'[m] = IF m = server_fd THEN "free" ELSE fds[m]) => MainsTable'
    BY <1>0, <2>1, FdsAssumption DEF MainsTable
  <2>4. MainsNumbers' /\ server_fd' \in Numbers
    BY <2>1 DEF MainsNumbers, Numbers
  <2> QED
    BY <1>0, <1>1, <2>1, <2>2, <2>3, <2>4
<1>3. CASE CloseTls
  <2>1. /\ main = "close_tls" /\ main' = "join_tls" /\ fds' = Closed(fds, tls_fd)
        /\ UNCHANGED <<system, mgmtVars, client, cfd, body_fd>>
        /\ UNCHANGED <<server_fd, tls_fd, pipe_r, pipe_w, pipe, acceptor, loopsFailed>>
    BY <1>3 DEF CloseTls, tlsVars, numbers
  <2>2. tls_fd # 0 => fds[tls_fd] \notin {"client", "body"}
    BY <1>0, <2>1 DEF MainsTable, Numbers
  <2>3. (\A m \in Fds : fds'[m] = IF m = tls_fd THEN "free" ELSE fds[m]) => MainsTable'
    BY <1>0, <2>1 DEF MainsTable
  <2>4. MainsNumbers'
    BY <1>0, <2>1 DEF MainsNumbers
  <2> QED
    BY <1>0, <1>1, <2>1, <2>2, <2>3, <2>4
<1>4. CASE JoinTls
  <2>1. /\ main = "join_tls" /\ main' = "close_r" /\ fds' = Closed(fds, 0)
        /\ acceptor \in {"none", "ended"}
        /\ UNCHANGED <<system, mgmtVars, client, cfd, body_fd>>
        /\ UNCHANGED <<server_fd, tls_fd, pipe_r, pipe_w, pipe, acceptor, loopsFailed>>
    BY <1>4 DEF JoinTls, tlsVars, numbers, Closed
  <2>2. (\A m \in Fds : fds'[m] = IF m = 0 THEN "free" ELSE fds[m]) => MainsTable'
    BY <1>0, <2>1, FdsAssumption DEF MainsTable
  <2>3. MainsNumbers' /\ 0 \in Numbers
    BY <1>0, <2>1 DEF MainsNumbers, Numbers
  <2> QED
    BY <1>0, <1>1, <2>1, <2>2, <2>3
<1>5. CASE ClosePipeRead
  <2>1. /\ main = "close_r" /\ main' = "close_w" /\ fds' = Closed(fds, pipe_r)
        /\ UNCHANGED <<system, mgmtVars, client, cfd, body_fd>>
        /\ UNCHANGED <<server_fd, tls_fd, pipe_r, pipe_w, pipe, acceptor, loopsFailed>>
    BY <1>5 DEF ClosePipeRead, tlsVars, numbers
  <2>2. pipe_r # 0 => fds[pipe_r] \notin {"client", "body"}
    BY <1>0, <2>1 DEF MainsTable, Numbers
  <2>3. (\A m \in Fds : fds'[m] = IF m = pipe_r THEN "free" ELSE fds[m]) => MainsTable'
    BY <1>0, <2>1 DEF MainsTable
  <2>4. MainsNumbers'
    BY <1>0, <2>1 DEF MainsNumbers
  <2> QED
    BY <1>0, <1>1, <2>1, <2>2, <2>3, <2>4
<1>6. CASE ClosePipeWrite
  <2>1. /\ main = "close_w" /\ main' = "join_mgmt" /\ fds' = Closed(fds, pipe_w)
        /\ UNCHANGED <<system, mgmtVars, client, cfd, body_fd>>
        /\ UNCHANGED <<server_fd, tls_fd, pipe_r, pipe_w, pipe, acceptor, loopsFailed>>
    BY <1>6 DEF ClosePipeWrite, tlsVars, numbers
  <2>2. pipe_w # 0 => fds[pipe_w] \notin {"client", "body"}
    BY <1>0, <2>1 DEF MainsTable, Numbers
  <2>3. (\A m \in Fds : fds'[m] = IF m = pipe_w THEN "free" ELSE fds[m]) => MainsTable'
    BY <1>0, <2>1 DEF MainsTable
  <2>4. MainsNumbers'
    BY <1>0, <2>1 DEF MainsNumbers
  <2> QED
    BY <1>0, <1>1, <2>1, <2>2, <2>3, <2>4
<1>7. CASE JoinMgmt
  <2>1. /\ main = "join_mgmt" /\ main' = "returned" /\ fds' = Closed(fds, 0) /\ mgmt = "exited"
        /\ UNCHANGED <<system, mgmtVars, client, cfd, body_fd>>
        /\ UNCHANGED <<server_fd, tls_fd, pipe_r, pipe_w, pipe, acceptor, loopsFailed>>
    BY <1>7 DEF JoinMgmt, tlsVars, numbers, Closed
  <2>2. (\A m \in Fds : fds'[m] = IF m = 0 THEN "free" ELSE fds[m]) => MainsTable'
    BY <1>0, <2>1, FdsAssumption DEF MainsTable
  <2>3. MainsNumbers' /\ 0 \in Numbers
    BY <1>0, <2>1 DEF MainsNumbers, Numbers
  <2> QED
    BY <1>0, <1>1, <2>1, <2>2, <2>3
\* The ones that leave the table alone.
<1>8. CASE Exit \/ LoopsReturn \/ LoopsFail
  <2>1. /\ main' \in {"exit", "close"} /\ main \notin TlsJoined \ {"returned"}
        /\ main = "returned" => main' = "exit"
        /\ main # "returned" => main = "run" /\ main' = "close"
        /\ UNCHANGED <<system, mgmtVars, client, cfd, body_fd>>
        /\ UNCHANGED <<fds, server_fd, tls_fd, pipe_r, pipe_w, acceptor>>
    BY <1>8 DEF Exit, LoopsReturn, LoopsFail, tlsVars, numbers
  <2>2. pipe' \in {0, 1} /\ loopsFailed' \in BOOLEAN
    <3>1. pipe \in {0, 1} /\ loopsFailed \in BOOLEAN
      BY <1>0 DEF Types
    <3>2. CASE LoopsReturn
      BY <3>1, <3>2 DEF LoopsReturn
    <3>3. CASE Exit \/ LoopsFail
      BY <3>1, <3>3 DEF Exit, LoopsFail
    <3> QED
      BY <1>8, <3>2, <3>3
  <2>3. MainsNumbers' /\ MainsTable' /\ Joined'
    BY <1>0, <2>1 DEF MainsNumbers, MainsTable, Joined
  <2>4. Types'
    BY <1>0, <2>1, <2>2 DEF Types, system, mgmtVars
  <2> QED
    BY <2>1, <2>3, <2>4, MainOwns
<1> QED
  BY <1>2, <1>3, <1>4, <1>5, <1>6, <1>7, <1>8

LEMMA MgmtOwns == RInv /\ SInv' /\ main # "exit" /\ Mgmt => RInv'
<1> SUFFICES ASSUME RInv, SInv', main # "exit", Mgmt PROVE RInv'
  OBVIOUS
<1>0. Types /\ MainsNumbers /\ MainsTable /\ Joined
  BY DEF RInv
<1>1. /\ main' \in {main, "exit"} /\ mgmt \in {"read", "write"} /\ mgmt' \in {"write", "exited"}
      /\ UNCHANGED <<system, client, cfd, body_fd>>
      /\ UNCHANGED <<fds, server_fd, tls_fd, pipe_r, pipe_w, acceptor, loopsFailed>>
  BY DEF Mgmt, MgmtShutdown, MgmtEof, MgmtWrite, numbers, tlsVars
<1>2. pipe' \in {0, 1}
  <2>1. mgmt # "exited" => pipe = 0
    BY <1>0 DEF RInv, SInv, ByteIsLast, Types
  <2> QED
    BY <1>1, <2>1 DEF Mgmt, MgmtShutdown, MgmtEof, MgmtWrite
<1>3. accepting_connections' \in BOOLEAN /\ misdirected' \in BOOLEAN
  BY <1>0 DEF Mgmt, MgmtShutdown, MgmtEof, MgmtWrite, Types
<1>4. Types'
  BY <1>0, <1>1, <1>2, <1>3 DEF Types, system
<1>5. MainsNumbers' /\ MainsTable' /\ Joined'
  BY <1>0, <1>1 DEF MainsNumbers, MainsTable, Joined, TlsClosed, TlsJoined, ReadClosed, WriteClosed
<1> QED
  BY <1>1, <1>4, <1>5, MainOwns

(***************************************************************************)
(* TLS connections.                                                         *)
(***************************************************************************)
LEMMA OwnerGained ==
  ASSUME NEW number \in [Clients -> Numbers], OneOwner(number),
         NEW c \in Clients, number[c] = 0, NEW n \in Fds, \A d \in Clients : number[d] # n,
         NEW after, after = [number EXCEPT ![c] = n]
  PROVE  /\ after \in [Clients -> Numbers] /\ OneOwner(after)
         /\ \A m \in Fds :
              (\E d \in Clients : after[d] = m) <=> m = n \/ \E d \in Clients : number[d] = m
<1>1. after \in [Clients -> Numbers] /\ \A d \in Clients : after[d] = IF d = c THEN n ELSE number[d]
  BY DEF Numbers
<1>2. OneOwner(after)
  BY <1>1 DEF OneOwner
<1>3. \A m \in Fds : (\E d \in Clients : after[d] = m) <=> m = n \/ \E d \in Clients : number[d] = m
  BY <1>1, FdsAssumption
<1> QED
  BY <1>1, <1>2, <1>3

LEMMA OwnerLost ==
  ASSUME NEW number \in [Clients -> Numbers], OneOwner(number), NEW c \in Clients, number[c] # 0,
         NEW after, after = [number EXCEPT ![c] = 0]
  PROVE  /\ after \in [Clients -> Numbers] /\ OneOwner(after)
         /\ \A m \in Fds :
              (\E d \in Clients : after[d] = m)
                <=> m # number[c] /\ \E d \in Clients : number[d] = m
<1>1. after \in [Clients -> Numbers] /\ \A d \in Clients : after[d] = IF d = c THEN 0 ELSE number[d]
  BY DEF Numbers
<1>2. OneOwner(after)
  BY <1>1 DEF OneOwner
<1>3. \A m \in Fds : (\E d \in Clients : after[d] = m)
                       <=> m # number[c] /\ \E d \in Clients : number[d] = m
  BY <1>1, FdsAssumption DEF OneOwner
<1> QED
  BY <1>1, <1>2, <1>3

\* What connections do to the table does not concern run().
LEMMA TlsOwns ==
  ASSUME RInv, SInv', Apart, UNCHANGED system,
         acceptor' = acceptor \/ acceptor \in {"call", "blocked"},
         acceptor' \in {"none", "call", "blocked", "ended"},
         \A n \in Fds : fds'[n] = fds[n] \/ {fds[n], fds'[n]} \subseteq {"free", "client", "body"},
         fds' \in [Fds -> Kinds],
         client' \in [Clients -> {"away", "backlog", "accepted", "sending", "sent", "gone"}],
         cfd' \in [Clients -> Numbers], body_fd' \in [Clients -> Numbers],
         ClientsTable', OneOwner(cfd)', OneOwner(body_fd)', (\A c \in Clients : PlaceOf(c))'
  PROVE  RInv'
<1> USE DEF Apart, numbers, mgmtVars
<1>1. Types'
  BY DEF RInv, Types, system
<1>2. MainsNumbers'
  BY DEF RInv, MainsNumbers
<1>3. MainsTable'
  BY DEF RInv, MainsTable
<1>4. Joined'
  BY DEF RInv, Joined
<1> QED
  BY <1>1, <1>2, <1>3, <1>4 DEF RInv

LEMMA ConnectionOwns ==
  ASSUME RInv, SInv', NEW c \in Clients, AcceptTls(c) \/ Connection(c)
  PROVE  RInv'
<1>0. /\ Types /\ ClientsTable /\ OneOwner(cfd) /\ OneOwner(body_fd) /\ PlaceOf(c)
      /\ fds \in [Fds -> Kinds] /\ cfd \in [Clients -> Numbers] /\ body_fd \in [Clients -> Numbers]
      /\ client \in [Clients -> {"away", "backlog", "accepted", "sending", "sent", "gone"}]
      /\ cfd[c] \in Numbers /\ body_fd[c] \in Numbers
  BY DEF RInv, Types
<1>1. Apart /\ UNCHANGED system
  BY DEF AcceptTls, Connection, OpenBody, CloseBody, CloseConnection, Apart, numbers
<1>2. CASE AcceptTls(c)
  <2> DEFINE n == Lowest(fds)
  <2>1. /\ Free(fds) # {} /\ fds' = Opened(fds, n, "client") /\ client[c] = "backlog"
        /\ client' = [client EXCEPT ![c] = "accepted"]
        /\ cfd' = [cfd EXCEPT ![c] = n] /\ body_fd' = body_fd
        /\ acceptor = "blocked" /\ acceptor' = "call"
    BY <1>2 DEF AcceptTls
  <2>2. n \in Fds /\ fds[n] = "free"
    BY <2>1, LowestIsFree
  <2> HIDE DEF n
  <2>3. /\ fds' \in [Fds -> Kinds]
        /\ \A m \in Fds : fds'[m] = IF m = n THEN "client" ELSE fds[m]
    BY <1>0, <2>1, <2>2, OpenedTable DEF Kinds
  <2>4. cfd[c] = 0 /\ \A d \in Clients : cfd[d] # n
    BY <1>0, <2>1, <2>2 DEF PlaceOf, ClientsTable
  <2>5. /\ cfd' \in [Clients -> Numbers] /\ OneOwner(cfd')
        /\ \A m \in Fds : (\E d \in Clients : cfd'[d] = m)
                            <=> m = n \/ \E d \in Clients : cfd[d] = m
    <3>1. /\ cfd \in [Clients -> Numbers] /\ OneOwner(cfd)
          /\ cfd' = [cfd EXCEPT ![c] = n]
      BY <1>0, <2>1
    <3> QED
      BY <2>2, <2>4, <3>1, OwnerGained DEF OneOwner
  <2>6. ClientsTable'
    BY <1>0, <2>1, <2>2, <2>3, <2>5 DEF ClientsTable
  <2>7. (\A d \in Clients : PlaceOf(d))'
    BY <1>0, <2>1, <2>2, FdsAssumption DEF RInv, PlaceOf
  <2>8. client' \in [Clients -> {"away", "backlog", "accepted", "sending", "sent", "gone"}]
    BY <1>0, <2>1
  <2>9. \A m \in Fds : fds'[m] = fds[m] \/ {fds[m], fds'[m]} \subseteq {"free", "client", "body"}
    BY <2>2, <2>3
  <2> QED
    BY <1>0, <1>1, <2>1, <2>3, <2>5, <2>6, <2>7, <2>8, <2>9, TlsOwns
<1>3. CASE OpenBody(c)
  <2> DEFINE n == Lowest(fds)
  <2>1. /\ Free(fds) # {} /\ fds' = Opened(fds, n, "body") /\ client[c] = "accepted"
        /\ client' = [client EXCEPT ![c] = "sending"]
        /\ body_fd' = [body_fd EXCEPT ![c] = n] /\ cfd' = cfd /\ acceptor' = acceptor
    BY <1>3 DEF OpenBody
  <2>2. n \in Fds /\ fds[n] = "free"
    BY <2>1, LowestIsFree
  <2> HIDE DEF n
  <2>3. /\ fds' \in [Fds -> Kinds]
        /\ \A m \in Fds : fds'[m] = IF m = n THEN "body" ELSE fds[m]
    BY <1>0, <2>1, <2>2, OpenedTable DEF Kinds
  <2>4. body_fd[c] = 0 /\ \A d \in Clients : body_fd[d] # n
    BY <1>0, <2>1, <2>2 DEF PlaceOf, ClientsTable
  <2>5. /\ body_fd' \in [Clients -> Numbers] /\ OneOwner(body_fd')
        /\ \A m \in Fds : (\E d \in Clients : body_fd'[d] = m)
                            <=> m = n \/ \E d \in Clients : body_fd[d] = m
    <3>1. /\ body_fd \in [Clients -> Numbers] /\ OneOwner(body_fd)
          /\ body_fd' = [body_fd EXCEPT ![c] = n]
      BY <1>0, <2>1
    <3> QED
      BY <2>2, <2>4, <3>1, OwnerGained DEF OneOwner
  <2>6. ClientsTable' /\ OneOwner(cfd')
    BY <1>0, <2>1, <2>2, <2>3, <2>5 DEF ClientsTable
  <2>7. (\A d \in Clients : PlaceOf(d))'
    BY <1>0, <2>1, <2>2, FdsAssumption DEF RInv, PlaceOf
  <2>8. client' \in [Clients -> {"away", "backlog", "accepted", "sending", "sent", "gone"}]
    BY <1>0, <2>1
  <2>9. \A m \in Fds : fds'[m] = fds[m] \/ {fds[m], fds'[m]} \subseteq {"free", "client", "body"}
    BY <2>2, <2>3
  <2>10. acceptor' \in {"none", "call", "blocked", "ended"}
    BY <1>0, <2>1 DEF Types
  <2> QED
    BY <1>0, <1>1, <2>1, <2>3, <2>5, <2>6, <2>7, <2>8, <2>9, <2>10, TlsOwns
<1>4. CASE CloseBody(c)
  <2>1. /\ fds' = Closed(fds, body_fd[c]) /\ client[c] = "sending"
        /\ client' = [client EXCEPT ![c] = "sent"]
        /\ body_fd' = [body_fd EXCEPT ![c] = 0] /\ cfd' = cfd /\ acceptor' = acceptor
    BY <1>4 DEF CloseBody
  <2>2. body_fd[c] # 0 /\ body_fd[c] \in Fds /\ fds[body_fd[c]] = "body"
    BY <1>0, <2>1 DEF PlaceOf, ClientsTable, Numbers
  <2>3. /\ fds' \in [Fds -> Kinds]
        /\ \A m \in Fds : fds'[m] = IF m = body_fd[c] THEN "free" ELSE fds[m]
    BY <1>0, <2>1, ClosedTable
  <2>5. /\ body_fd' \in [Clients -> Numbers] /\ OneOwner(body_fd')
        /\ \A m \in Fds : (\E d \in Clients : body_fd'[d] = m)
                            <=> m # body_fd[c] /\ \E d \in Clients : body_fd[d] = m
    <3>1. /\ body_fd \in [Clients -> Numbers] /\ OneOwner(body_fd)
          /\ body_fd' = [body_fd EXCEPT ![c] = 0]
      BY <1>0, <2>1
    <3> QED
      BY <2>2, <3>1, OwnerLost DEF OneOwner
  <2>6. ClientsTable' /\ OneOwner(cfd')
    BY <1>0, <2>1, <2>2, <2>3, <2>5 DEF ClientsTable
  <2>7. (\A d \in Clients : PlaceOf(d))'
    BY <1>0, <2>1, <2>2 DEF RInv, PlaceOf
  <2>8. client' \in [Clients -> {"away", "backlog", "accepted", "sending", "sent", "gone"}]
    BY <1>0, <2>1
  <2>9. \A m \in Fds : fds'[m] = fds[m] \/ {fds[m], fds'[m]} \subseteq {"free", "client", "body"}
    BY <2>2, <2>3
  <2>10. acceptor' \in {"none", "call", "blocked", "ended"}
    BY <1>0, <2>1 DEF Types
  <2> QED
    BY <1>0, <1>1, <2>1, <2>3, <2>5, <2>6, <2>7, <2>8, <2>9, <2>10, TlsOwns
<1>5. CASE CloseConnection(c)
  <2>1. /\ fds' = Closed(fds, cfd[c]) /\ client[c] \in {"accepted", "sent"}
        /\ client' = [client EXCEPT ![c] = "gone"]
        /\ cfd' = [cfd EXCEPT ![c] = 0] /\ body_fd' = body_fd /\ acceptor' = acceptor
    BY <1>5 DEF CloseConnection
  <2>2. cfd[c] # 0 /\ cfd[c] \in Fds /\ fds[cfd[c]] = "client"
    BY <1>0, <2>1 DEF PlaceOf, ClientsTable, Numbers
  <2>3. /\ fds' \in [Fds -> Kinds]
        /\ \A m \in Fds : fds'[m] = IF m = cfd[c] THEN "free" ELSE fds[m]
    BY <1>0, <2>1, ClosedTable
  <2>5. /\ cfd' \in [Clients -> Numbers] /\ OneOwner(cfd')
        /\ \A m \in Fds : (\E d \in Clients : cfd'[d] = m)
                            <=> m # cfd[c] /\ \E d \in Clients : cfd[d] = m
    <3>1. /\ cfd \in [Clients -> Numbers] /\ OneOwner(cfd)
          /\ cfd' = [cfd EXCEPT ![c] = 0]
      BY <1>0, <2>1
    <3> QED
      BY <2>2, <3>1, OwnerLost DEF OneOwner
  <2>6. ClientsTable' /\ OneOwner(body_fd')
    BY <1>0, <2>1, <2>2, <2>3, <2>5 DEF ClientsTable
  <2>7. (\A d \in Clients : PlaceOf(d))'
    BY <1>0, <2>1, <2>2 DEF RInv, PlaceOf
  <2>8. client' \in [Clients -> {"away", "backlog", "accepted", "sending", "sent", "gone"}]
    BY <1>0, <2>1
  <2>9. \A m \in Fds : fds'[m] = fds[m] \/ {fds[m], fds'[m]} \subseteq {"free", "client", "body"}
    BY <2>2, <2>3
  <2>10. acceptor' \in {"none", "call", "blocked", "ended"}
    BY <1>0, <2>1 DEF Types
  <2> QED
    BY <1>0, <1>1, <2>1, <2>3, <2>5, <2>6, <2>7, <2>8, <2>9, <2>10, TlsOwns
<1> QED
  BY <1>2, <1>3, <1>4, <1>5 DEF Connection

LEMMA AcceptorOwns ==
  ASSUME RInv, SInv', AcceptCall \/ AcceptFails \/ \E c \in Clients : Connect(c)
  PROVE  RInv'
<1>0. /\ Types /\ fds \in [Fds -> Kinds] /\ cfd \in [Clients -> Numbers]
      /\ body_fd \in [Clients -> Numbers]
      /\ client \in [Clients -> {"away", "backlog", "accepted", "sending", "sent", "gone"}]
  BY DEF RInv, Types
<1>1. Apart /\ UNCHANGED <<system, fds, cfd, body_fd>>
  BY DEF AcceptCall, AcceptFails, Connect, Apart
<1>2. /\ acceptor' = acceptor \/ acceptor \in {"call", "blocked"}
      /\ acceptor' \in {"none", "call", "blocked", "ended"}
  BY <1>0 DEF AcceptCall, AcceptFails, Connect, Types
<1>3. /\ client' \in [Clients -> {"away", "backlog", "accepted", "sending", "sent", "gone"}]
      /\ \A c \in Clients :
           client'[c] = client[c] \/ {client[c], client'[c]} \subseteq {"away", "backlog"}
  <2>1. CASE AcceptCall \/ AcceptFails
    BY <1>0, <2>1 DEF AcceptCall, AcceptFails
  <2>2. ASSUME NEW c \in Clients, Connect(c) PROVE <1>3!:
    BY <1>0, <2>2 DEF Connect
  <2> QED
    BY <2>1, <2>2
<1>4. ClientsTable' /\ OneOwner(cfd)' /\ OneOwner(body_fd)' /\ (\A c \in Clients : PlaceOf(c))'
  BY <1>1, <1>3, ClientsApart
<1> QED
  BY <1>0, <1>1, <1>2, <1>3, <1>4, TlsOwns

LEMMA NextRInv == RInv /\ [Next]_vars => RInv'
<1> SUFFICES ASSUME RInv, [Next]_vars PROVE RInv'
  OBVIOUS
<1>1. SInv'
  BY NextSInv DEF RInv
<1>2. CASE UNCHANGED vars
  <2> USE <1>2 DEF vars, system, numbers, mgmtVars, tlsVars
  <2>1. Types' /\ MainsNumbers' /\ MainsTable' /\ Joined'
    BY DEF RInv, Types, MainsNumbers, MainsTable, Joined
  <2> QED
    BY <1>1, <2>1, MainOwns
<1>3. CASE Next
  BY <1>1, <1>3, StartUpOwns, EndOwns, MgmtOwns, AcceptorOwns, ConnectionOwns
     DEF Next, Main, Acceptor, Woken
<1> QED
  BY <1>2, <1>3

(***************************************************************************)
(* load_config: induction over the lines of a file.                         *)
(***************************************************************************)
\* A set with 0, and with the successor of each of its numbers below N, has all
\* numbers up to N.
LEMMA UpTo ==
  ASSUME NEW N \in Nat, NEW T, 0 \in T, \A n \in 1..N : n - 1 \in T => n \in T
  PROVE  \A n \in 0..N : n \in T
<1>1. SUFFICES ASSUME NEW n \in 0..N, n \notin T PROVE FALSE
  OBVIOUS
<1> DEFINE S == {m \in 0..N : m \notin T}
           R == {r \in Nat \X Nat : r[1] < r[2]}
<1>2. IsWellFoundedOn(R, Nat)
  BY NatLessThanWellFounded DEF OpToRel
<1>3. S \subseteq Nat /\ S # {}
  BY <1>1
<1>4. PICK m \in S : \A k \in S : ~ (<<k, m>> \in R)
  BY <1>2, <1>3, WFMin
<1>5. m \in 1..N /\ m - 1 \in Nat /\ m - 1 \in 0..N
  BY <1>4
<1>6. m - 1 \in T
  <2>1. <<m - 1, m>> \in R
    BY <1>5
  <2>2. m - 1 \notin S
    <3> HIDE DEF S, R
    <3> QED
      BY <1>4, <2>1
  <2> QED
    BY <1>5, <2>2
<1> QED
  BY <1>4, <1>5, <1>6

\* The greatest of some numbers.
LEMMA LastIs ==
  ASSUME NEW P, P \subseteq Int, NEW m \in P, \A j \in P : j <= m
  PROVE  LastOf(P) = m
<1>1. \A i \in P : (\A j \in P : j <= i) => i = m
  <2>1. ASSUME NEW i \in P, \A j \in P : j <= i PROVE i = m
    <3>1. i <= m /\ m <= i /\ i \in Int /\ m \in Int
      BY <2>1
    <3> QED
      BY <3>1
  <2> QED
    BY <2>1
<1> QED
  BY <1>1 DEF LastOf

LEMMA LastExists ==
  ASSUME NEW N \in Nat, NEW P, P \subseteq 1..N, P # {}
  PROVE  LastOf(P) \in P /\ LastOf(P) \in 1..N
<1>1. \E m \in P : \A j \in P : j <= m
  <2> DEFINE Good(n) == (\E m \in P : n <= m) => \E m \in P : \A j \in P : j <= m
             U == {n \in 0..N : Good(N - n)}
  <2>1. 0 \in U
    <3>1. ASSUME NEW m \in P, N - 0 <= m PROVE \A j \in P : j <= m
      BY <3>1
    <3> QED
      BY <3>1
  <2>2. ASSUME NEW n \in 1..N, n - 1 \in U PROVE n \in U
    <3>1. Good(N - (n - 1))
      BY <2>2
    <3>2. ASSUME NEW m \in P, N - n <= m PROVE \E i \in P : \A j \in P : j <= i
      <4>1. CASE \E i \in P : N - (n - 1) <= i
        BY <3>1, <4>1
      <4>2. CASE ~ \E i \in P : N - (n - 1) <= i
        <5>1. ASSUME NEW j \in P PROVE j <= m
          <6>1. ~(N - (n - 1) <= j) /\ j \in Int /\ m \in Int
            BY <4>2
          <6> QED
            BY <3>2, <6>1
        <5> QED
          BY <5>1
      <4> QED
        BY <4>1, <4>2
    <3>3. n \in 0..N
      OBVIOUS
    <3> QED
      BY <3>2, <3>3
  <2>3. N \in U
    <3>1. \A n \in 0..N : n \in U
      <4> HIDE DEF U
      <4> QED
        BY <2>1, <2>2, UpTo
    <3> QED
      BY <3>1
  <2>4. Good(0)
    <3>1. N - N = 0
      OBVIOUS
    <3> QED
      BY <2>3, <3>1
  <2>5. \E m \in P : 0 <= m
    <3>1. PICK m \in P : TRUE
      OBVIOUS
    <3> QED
      BY <3>1
  <2> HIDE DEF U
  <2> QED
    BY <2>4, <2>5
<1>2. PICK m \in P : \A j \in P : j <= m
  BY <1>1
<1>3. LastOf(P) = m
  <2>1. P \subseteq Int
    OBVIOUS
  <2> QED
    BY <1>2, <2>1, LastIs
<1> QED
  BY <1>2, <1>3

(***************************************************************************)
(* One more line at the end of a file.                                      *)
(***************************************************************************)
LEMMA Longer ==
  ASSUME NEW F \in Seq(Lines), NEW l \in Lines
  PROVE  /\ Append(F, l) \in Seq(Lines) /\ Len(F) \in Nat
         /\ Len(Append(F, l)) = Len(F) + 1 /\ Append(F, l)[Len(F) + 1] = l
         /\ \A i \in 1..Len(F) : Append(F, l)[i] = F[i]
         /\ DOMAIN F = 1..Len(F) /\ DOMAIN Append(F, l) = 1..(Len(F) + 1)
<1>1. Append(F, l) \in Seq(Lines) /\ Len(F) \in Nat /\ Len(Append(F, l)) = Len(F) + 1
  OBVIOUS
<1>2. DOMAIN F = 1..Len(F) /\ DOMAIN Append(F, l) = 1..(Len(F) + 1)
  BY <1>1
<1> QED
  BY <1>1, <1>2

LEMMA InsideSame ==
  ASSUME NEW F \in Seq(Lines), NEW l, NEW i \in 1..(Len(F) + 1)
  PROVE  Inside(Append(F, l), i) <=> Inside(F, i)
<1>1. Len(F) \in Nat /\ \A k \in 1..Len(F) : Append(F, l)[k] = F[k]
  OBVIOUS
<1>2. \A k \in 1..(i - 1) : Key(Append(F, l), k) = Key(F, k)
  <2>1. ASSUME NEW k \in 1..(i - 1) PROVE k \in 1..Len(F)
    BY <1>1
  <2> QED
    BY <1>1, <2>1 DEF Key
<1>3. \A j \in 1..(i - 1) : \A k \in (j + 1)..(i - 1) : k \in 1..(i - 1)
  OBVIOUS
<1> QED
  BY <1>2, <1>3 DEF Inside

LEMMA InsideNext ==
  ASSUME NEW F \in Seq(Lines), NEW l \in Lines
  PROVE  Inside(Append(F, l), Len(F) + 2) <=>
           \/ l.key = "<VirtualHost"
           \/ Inside(F, Len(F) + 1) /\ l.key # "</VirtualHost>"
<1> DEFINE N == Len(F)
           g == Append(F, l)
<1>1. /\ N \in Nat /\ N + 2 - 1 = N + 1 /\ N + 1 - 1 = N
      /\ Key(g, N + 1) = l.key /\ \A k \in 1..N : Key(g, k) = Key(F, k)
  BY Longer DEF Key
<1> HIDE DEF N, g
<1>2. Inside(g, N + 2) <=>
        \E j \in 1..(N + 1) : /\ Key(g, j) = "<VirtualHost"
                              /\ \A k \in (j + 1)..(N + 1) : Key(g, k) # "</VirtualHost>"
  BY <1>1 DEF Inside
<1>3. Inside(F, N + 1) <=>
        \E j \in 1..N : /\ Key(F, j) = "<VirtualHost"
                        /\ \A k \in (j + 1)..N : Key(F, k) # "</VirtualHost>"
  BY <1>1 DEF Inside
<1>4. ASSUME l.key = "<VirtualHost" PROVE Inside(g, N + 2)
  <2>1. N + 1 \in 1..(N + 1) /\ (N + 1 + 1)..(N + 1) = {}
    BY <1>1
  <2> QED
    BY <1>1, <1>2, <1>4, <2>1
<1>5. ASSUME Inside(F, N + 1), l.key # "</VirtualHost>" PROVE Inside(g, N + 2)
  <2>1. PICK j \in 1..N : /\ Key(F, j) = "<VirtualHost"
                          /\ \A k \in (j + 1)..N : Key(F, k) # "</VirtualHost>"
    BY <1>3, <1>5
  <2>2. j \in 1..(N + 1) /\ Key(g, j) = "<VirtualHost"
    BY <1>1, <2>1
  <2>3. ASSUME NEW k \in (j + 1)..(N + 1) PROVE Key(g, k) # "</VirtualHost>"
    <3>1. k = N + 1 \/ (k \in (j + 1)..N /\ k \in 1..N)
      BY <1>1
    <3> QED
      BY <1>1, <1>5, <2>1, <3>1
  <2> QED
    BY <1>2, <2>2, <2>3
<1>6. ASSUME Inside(g, N + 2), l.key # "<VirtualHost"
      PROVE  Inside(F, N + 1) /\ l.key # "</VirtualHost>"
  <2>1. PICK j \in 1..(N + 1) : /\ Key(g, j) = "<VirtualHost"
                                /\ \A k \in (j + 1)..(N + 1) : Key(g, k) # "</VirtualHost>"
    BY <1>2, <1>6
  <2>2. j # N + 1
    BY <1>1, <1>6, <2>1
  <2>3. j \in 1..N /\ N + 1 \in (j + 1)..(N + 1)
    BY <1>1, <2>2
  <2>4. ASSUME NEW k \in (j + 1)..N PROVE Key(F, k) # "</VirtualHost>"
    <3>1. k \in (j + 1)..(N + 1) /\ k \in 1..N
      BY <1>1
    <3> QED
      BY <1>1, <2>1, <3>1
  <2> QED
    BY <1>1, <1>3, <2>1, <2>3, <2>4
<1> QED
  BY <1>4, <1>5, <1>6 DEF N, g

LEMMA OutsideNumbers ==
  ASSUME NEW F \in Seq(Lines), NEW K
  PROVE  Outside(F, K) \subseteq 1..Len(F) /\ Outside(F, K) \subseteq Int
         /\ IsFiniteSet(Outside(F, K))
<1>1. Len(F) \in Nat /\ DOMAIN F = 1..Len(F)
  OBVIOUS
<1>2. Outside(F, K) \subseteq 1..Len(F)
  BY <1>1 DEF Outside
<1>3. IsFiniteSet(1..Len(F))
  <2>1. 1 \in Int /\ Len(F) \in Int
    BY <1>1
  <2> QED
    BY <2>1, FS_Interval
<1> QED
  BY <1>1, <1>2, <1>3, FS_Subset

LEMMA OutsideNext ==
  ASSUME NEW F \in Seq(Lines), NEW l \in Lines, NEW K
  PROVE  Outside(Append(F, l), K) =
           Outside(F, K) \cup (IF l.key \in K /\ ~Inside(F, Len(F) + 1) THEN {Len(F) + 1} ELSE {})
<1> DEFINE N == Len(F)
           g == Append(F, l)
<1>1. /\ N \in Nat /\ Key(g, N + 1) = l.key /\ \A k \in 1..N : Key(g, k) = Key(F, k)
      /\ DOMAIN F = 1..N /\ DOMAIN g = 1..(N + 1)
  BY Longer DEF Key
<1>2. \A i \in 1..(N + 1) : Inside(g, i) <=> Inside(F, i)
  BY InsideSame
<1> HIDE DEF N, g
<1>3. ASSUME NEW i \in 1..(N + 1)
      PROVE  i \in Outside(g, K) <=>
               i \in Outside(F, K) \/ (i = N + 1 /\ l.key \in K /\ ~Inside(F, N + 1))
  <2>1. CASE i = N + 1
    <3>1. i \notin 1..N
      BY <1>1, <2>1
    <3> QED
      BY <1>1, <1>2, <2>1, <3>1 DEF Outside
  <2>2. CASE i # N + 1
    <3>1. i \in 1..N
      BY <1>1, <2>2
    <3> QED
      BY <1>1, <1>2, <2>2, <3>1 DEF Outside
  <2> QED
    BY <2>1, <2>2
<1>4. Outside(F, K) \subseteq 1..(N + 1) /\ Outside(g, K) \subseteq 1..(N + 1)
      /\ N + 1 \in 1..(N + 1)
  BY <1>1 DEF Outside
<1>5. Outside(g, K) = Outside(F, K) \cup (IF l.key \in K /\ ~Inside(F, N + 1) THEN {N + 1} ELSE {})
  BY <1>3, <1>4
<1> QED
  BY <1>5 DEF N, g

\* The value that the last of the lines with a key gives.
LEMMA LastNext ==
  ASSUME NEW F \in Seq(Lines), NEW l \in Lines, NEW K
  PROVE  LET old == Outside(F, K)
             new == Outside(Append(F, l), K)
         IN  IF l.key \in K /\ ~Inside(F, Len(F) + 1)
             THEN new # {} /\ Append(F, l)[LastOf(new)] = l
             ELSE new = old /\ (old # {} => Append(F, l)[LastOf(new)] = F[LastOf(old)])
<1> DEFINE old == Outside(F, K)
           new == Outside(Append(F, l), K)
<1>1. Len(F) \in Nat /\ old \subseteq 1..Len(F)
  BY OutsideNumbers
<1>2. Append(F, l)[Len(F) + 1] = l /\ \A i \in 1..Len(F) : Append(F, l)[i] = F[i]
  BY Longer
<1>3. new = old \cup (IF l.key \in K /\ ~Inside(F, Len(F) + 1) THEN {Len(F) + 1} ELSE {})
  BY OutsideNext
<1> HIDE DEF old, new
<1>4. CASE l.key \in K /\ ~Inside(F, Len(F) + 1)
  <2>1. new \subseteq Int /\ Len(F) + 1 \in new /\ \A j \in new : j <= Len(F) + 1
    <3>1. new = old \cup {Len(F) + 1}
      BY <1>3, <1>4
    <3>2. \A j \in 1..Len(F) : j \in Int /\ j <= Len(F) + 1
      BY <1>1
    <3>3. \A j \in old : j \in Int /\ j <= Len(F) + 1
      BY <1>1, <3>2
    <3>4. Len(F) + 1 \in Int /\ Len(F) + 1 <= Len(F) + 1
      BY <1>1
    <3> QED
      BY <3>1, <3>3, <3>4
  <2>2. LastOf(new) = Len(F) + 1
    BY <2>1, LastIs
  <2> QED
    BY <1>2, <1>4, <2>1, <2>2 DEF new
<1>5. CASE ~(l.key \in K /\ ~Inside(F, Len(F) + 1))
  <2>1. new = old
    BY <1>3, <1>5
  <2>2. old # {} => LastOf(old) \in 1..Len(F)
    BY <1>1, LastExists
  <2> QED
    BY <1>2, <1>5, <2>1, <2>2 DEF old, new
<1> QED
  BY <1>4, <1>5

LEMMA SettingNext ==
  ASSUME NEW F \in Seq(Lines), NEW l \in Lines, NEW key
  PROVE  SettingOf(Append(F, l), key) =
           IF l.key = key /\ ~Inside(F, Len(F) + 1) THEN l.value ELSE SettingOf(F, key)
<1> DEFINE old == Outside(F, {key})
           new == Outside(Append(F, l), {key})
<1>1. IF l.key = key /\ ~Inside(F, Len(F) + 1)
      THEN new # {} /\ Append(F, l)[LastOf(new)] = l
      ELSE new = old /\ (old # {} => Append(F, l)[LastOf(new)] = F[LastOf(old)])
  BY LastNext
<1> QED
  BY <1>1 DEF SettingOf

LEMMA ModeNext ==
  ASSUME NEW F \in Seq(Lines), NEW l \in Lines
  PROVE  ModeOf(Append(F, l)) =
           IF l.key \in {"nThreads", "nSelectLoops"} /\ ~Inside(F, Len(F) + 1)
           THEN IF l.key = "nSelectLoops" THEN "Select" ELSE "Threads"
           ELSE ModeOf(F)
<1> DEFINE old == Outside(F, {"nThreads", "nSelectLoops"})
           new == Outside(Append(F, l), {"nThreads", "nSelectLoops"})
<1>1. IF l.key \in {"nThreads", "nSelectLoops"} /\ ~Inside(F, Len(F) + 1)
      THEN new # {} /\ Append(F, l)[LastOf(new)] = l
      ELSE new = old /\ (old # {} => Append(F, l)[LastOf(new)] = F[LastOf(old)])
  BY LastNext
<1> QED
  BY <1>1 DEF ModeOf, Key

(***************************************************************************)
(* Virtual hosts.                                                           *)
(***************************************************************************)
Blocks(file) == Outside(file, {"<VirtualHost"})

\* Block(n) of AsWritten.
BlockOf(file, n) == CHOOSE i \in Blocks(file) : Cardinality({j \in Blocks(file) : j <= i}) = n

IsBlock(file, n, i) == i \in Blocks(file) /\ Cardinality({j \in Blocks(file) : j <= i}) = n

\* No block was closed behind line i.
Open(file, i) == \A k \in (i + 1)..Len(file) : Key(file, k) # "</VirtualHost>"

LEMMA BlocksInOrder ==
  ASSUME NEW F \in Seq(Lines), NEW m \in Nat, NEW n \in Nat, NEW i, NEW k,
         IsBlock(F, m, i), IsBlock(F, n, k)
  PROVE  (m = n <=> i = k) /\ (m < n => i < k)
<1> DEFINE B == Blocks(F)
           Up(x) == {j \in B : j <= x}
<1>1. B \subseteq Int /\ IsFiniteSet(B)
  BY OutsideNumbers DEF Blocks
<1>2. i \in B /\ k \in B /\ Cardinality(Up(i)) = m /\ Cardinality(Up(k)) = n
  BY DEF IsBlock
<1> HIDE DEF B
<1>3. ASSUME NEW x \in B, NEW y \in B, x < y PROVE Cardinality(Up(x)) < Cardinality(Up(y))
  <2>1. IsFiniteSet(Up(x)) /\ IsFiniteSet(Up(y))
    <3>1. Up(x) \subseteq B /\ Up(y) \subseteq B
      OBVIOUS
    <3> QED
      BY <1>1, <3>1, FS_Subset
  <2>2. Up(x) \subseteq Up(y) /\ y \in Up(y) /\ y \notin Up(x)
    <3>1. \A j \in B : j \in Int
      BY <1>1
    <3>2. \A j \in B : j <= x => j <= y
      BY <1>3, <3>1
    <3> QED
      BY <1>3, <3>1, <3>2
  <2>3. Cardinality(Up(x) \cup {y}) = Cardinality(Up(x)) + 1
    BY <2>1, <2>2, FS_AddElement
  <2>4. Cardinality(Up(x) \cup {y}) <= Cardinality(Up(y))
    BY <2>1, <2>2, FS_Subset
  <2>5. Cardinality(Up(x)) \in Nat /\ Cardinality(Up(y)) \in Nat
    BY <2>1, FS_CardinalityType
  <2> HIDE DEF Up
  <2> QED
    BY <2>3, <2>4, <2>5
<1>4. i \in Int /\ k \in Int
  BY <1>1, <1>2
<1>5. (i < k => m < n) /\ (k < i => n < m)
  <2> HIDE DEF Up
  <2> QED
    BY <1>2, <1>3
<1>6. i = k => m = n
  BY <1>2
<1> QED
  BY <1>4, <1>5, <1>6

LEMMA BlockOfIs ==
  ASSUME NEW F \in Seq(Lines), NEW n \in Nat, NEW i, IsBlock(F, n, i)
  PROVE  BlockOf(F, n) = i
<1>1. \A k : IsBlock(F, n, k) => k = i
  BY BlocksInOrder
<1>2. BlockOf(F, n) \in Blocks(F) /\ Cardinality({j \in Blocks(F) : j <= BlockOf(F, n)}) = n
  BY DEF BlockOf, IsBlock
<1> QED
  BY <1>1, <1>2 DEF IsBlock

\* A block that has begun outside of blocks and was not closed is the last.
LEMMA OpenIsLast ==
  ASSUME NEW F \in Seq(Lines), NEW i \in Blocks(F), Open(F, i)
  PROVE  Inside(F, Len(F) + 1) /\ \A k \in Blocks(F) : k <= i
<1>1. /\ Len(F) \in Nat /\ i \in 1..Len(F) /\ Key(F, i) = "<VirtualHost"
      /\ Len(F) + 1 - 1 = Len(F)
  BY OutsideNumbers DEF Blocks, Outside
<1>2. Inside(F, Len(F) + 1)
  BY <1>1 DEF Inside, Open
<1>3. ASSUME NEW k \in Blocks(F), ~(k <= i) PROVE FALSE
  <2>1. k \in 1..Len(F) /\ ~Inside(F, k)
    BY OutsideNumbers DEF Blocks, Outside
  <2>2. i \in 1..(k - 1)
    BY <1>1, <1>3, <2>1
  <2>3. ASSUME NEW j \in (i + 1)..(k - 1) PROVE Key(F, j) # "</VirtualHost>"
    <3>1. j \in (i + 1)..Len(F)
      BY <1>1, <2>1
    <3> QED
      BY <3>1 DEF Open
  <2> QED
    BY <1>1, <2>1, <2>2, <2>3 DEF Inside
<1> QED
  BY <1>2, <1>3

\* The blocks stay the blocks they were.
LEMMA BlockStays ==
  ASSUME NEW F \in Seq(Lines), NEW l \in Lines, NEW n \in Nat, NEW i, IsBlock(F, n, i)
  PROVE  IsBlock(Append(F, l), n, i) /\ BlockOf(Append(F, l), n) = i /\ i \in 1..Len(F)
<1> DEFINE B == Blocks(F)
           C == Blocks(Append(F, l))
<1>1. B \subseteq 1..Len(F) /\ Len(F) \in Nat
  BY OutsideNumbers DEF Blocks
<1>2. C = B \cup (IF l.key \in {"<VirtualHost"} /\ ~Inside(F, Len(F) + 1) THEN {Len(F) + 1} ELSE {})
  BY OutsideNext DEF Blocks
<1>3. i \in B
  BY DEF IsBlock
<1> HIDE DEF B, C
<1>4. {j \in C : j <= i} = {j \in B : j <= i} /\ i \in C /\ i \in 1..Len(F)
  <2>1. i \in 1..Len(F) /\ ~(Len(F) + 1 <= i)
    BY <1>1, <1>3
  <2>2. \A j \in C : j \in B \/ j = Len(F) + 1
    BY <1>2
  <2>3. B \subseteq C
    BY <1>2
  <2> QED
    BY <1>3, <2>1, <2>2, <2>3
<1>5. IsBlock(Append(F, l), n, i)
  BY <1>4 DEF IsBlock, B, C
<1> QED
  BY <1>4, <1>5, BlockOfIs, Longer

LEMMA BlockAdded ==
  ASSUME NEW F \in Seq(Lines), NEW l \in Lines
  PROVE  /\ Cardinality(Blocks(F)) \in Nat
         /\ IF l.key = "<VirtualHost" /\ ~Inside(F, Len(F) + 1)
            THEN /\ Cardinality(Blocks(Append(F, l))) = Cardinality(Blocks(F)) + 1
                 /\ IsBlock(Append(F, l), Cardinality(Blocks(F)) + 1, Len(F) + 1)
            ELSE Blocks(Append(F, l)) = Blocks(F)
<1> DEFINE B == Blocks(F)
           C == Blocks(Append(F, l))
           N == Len(F)
<1>1. B \subseteq 1..N /\ N \in Nat /\ IsFiniteSet(B)
  BY OutsideNumbers DEF Blocks
<1>2. C = B \cup (IF l.key \in {"<VirtualHost"} /\ ~Inside(F, N + 1) THEN {N + 1} ELSE {})
  BY OutsideNext DEF Blocks
<1> HIDE DEF B, C, N
<1>3. Cardinality(B) \in Nat
  BY <1>1, FS_CardinalityType
<1>4. CASE l.key = "<VirtualHost" /\ ~Inside(F, N + 1)
  <2>1. C = B \cup {N + 1} /\ N + 1 \notin B
    BY <1>1, <1>2, <1>4
  <2>2. Cardinality(C) = Cardinality(B) + 1
    BY <1>1, <2>1, FS_AddElement
  <2>3. {j \in C : j <= N + 1} = C
    <3>1. \A j \in 1..N : j <= N + 1
      BY <1>1
    <3>2. \A j \in C : j <= N + 1
      BY <1>1, <2>1, <3>1
    <3> QED
      BY <3>2
  <2> QED
    BY <1>3, <1>4, <2>1, <2>2, <2>3 DEF IsBlock, B, C, N
<1>5. CASE ~(l.key = "<VirtualHost" /\ ~Inside(F, N + 1))
  BY <1>2, <1>3, <1>5 DEF B, C, N
<1> QED
  BY <1>4, <1>5

LEMMA OpenNext ==
  ASSUME NEW F \in Seq(Lines), NEW l \in Lines, NEW i \in 1..(Len(F) + 1)
  PROVE  Open(Append(F, l), i) <=>
           i = Len(F) + 1 \/ (Open(F, i) /\ l.key # "</VirtualHost>")
<1> DEFINE N == Len(F)
           g == Append(F, l)
<1>1. /\ N \in Nat /\ Len(g) = N + 1 /\ Key(g, N + 1) = l.key
      /\ \A k \in 1..N : Key(g, k) = Key(F, k)
  BY Longer DEF Key
<1>2. Open(F, i) <=> \A k \in (i + 1)..N : Key(F, k) # "</VirtualHost>"
  BY DEF Open
<1>3. Open(g, i) <=> \A k \in (i + 1)..(N + 1) : Key(g, k) # "</VirtualHost>"
  BY <1>1 DEF Open
<1> HIDE DEF N, g
<1>4. CASE i = N + 1
  <2>1. (i + 1)..(N + 1) = {}
    BY <1>1, <1>4
  <2> QED
    BY <1>3, <1>4, <2>1 DEF N, g
<1>5. CASE i # N + 1
  <2>1. i \in 1..N /\ (i + 1)..(N + 1) = ((i + 1)..N) \cup {N + 1}
    BY <1>1, <1>5 DEF N
  <2>2. (i + 1)..N \subseteq 1..N
    BY <1>1, <2>1
  <2>3. \A k \in (i + 1)..N : Key(g, k) = Key(F, k)
    BY <1>1, <2>2
  <2> QED
    BY <1>1, <1>2, <1>3, <1>5, <2>1, <2>3 DEF N, g
<1> QED
  BY <1>4, <1>5

LEMMA HostTextNext ==
  ASSUME NEW F \in Seq(Lines), NEW l \in Lines, NEW i \in 1..Len(F), NEW key
  PROVE  HostTextOf(Append(F, l), i, key) =
           IF l.key = key /\ l.key # "</VirtualHost>" /\ Open(F, i)
           THEN l.value ELSE HostTextOf(F, i, key)
<1> DEFINE N == Len(F)
           g == Append(F, l)
           Gives(f, j) == /\ Key(f, j) = key
                          /\ \A k \in (i + 1)..j : Key(f, k) # "</VirtualHost>"
           old == {j \in (i + 1)..N : Gives(F, j)}
           new == {j \in (i + 1)..(N + 1) : Gives(g, j)}
<1>1. /\ N \in Nat /\ Len(g) = N + 1 /\ Key(g, N + 1) = l.key /\ g[N + 1] = l
      /\ \A k \in 1..N : Key(g, k) = Key(F, k) /\ g[k] = F[k]
  BY Longer DEF Key
<1>2. /\ HostTextOf(F, i, key) = IF old = {} THEN NewHost[key] ELSE F[LastOf(old)].value
      /\ HostTextOf(g, i, key) = IF new = {} THEN NewHost[key] ELSE g[LastOf(new)].value
  BY <1>1 DEF HostTextOf
<1>3. Open(g, i) <=> Open(F, i) /\ l.key # "</VirtualHost>"
  <2>1. i \in 1..(Len(F) + 1) /\ i # Len(F) + 1
    BY <1>1
  <2> QED
    BY <2>1, OpenNext
<1>4. Gives(g, N + 1) <=> l.key = key /\ l.key # "</VirtualHost>" /\ Open(F, i)
  BY <1>1, <1>3 DEF Open
<1>5. ASSUME NEW j \in (i + 1)..N PROVE Gives(g, j) <=> Gives(F, j)
  <2>1. j \in 1..N /\ (i + 1)..j \subseteq 1..N
    BY <1>1
  <2>2. \A k \in (i + 1)..j : Key(g, k) = Key(F, k)
    BY <1>1, <2>1
  <2> HIDE DEF N, g
  <2> QED
    BY <1>1, <2>1, <2>2
<1>6. i \in Int /\ i <= N /\ (i + 1)..(N + 1) = ((i + 1)..N) \cup {N + 1}
  BY <1>1
<1> HIDE DEF N, g, Gives
<1>7. new = old \cup (IF Gives(g, N + 1) THEN {N + 1} ELSE {})
  BY <1>5, <1>6
<1>8. old \subseteq 1..N
  BY <1>6, <1>1
<1> HIDE DEF old, new
<1>9. CASE Gives(g, N + 1)
  <2>1. new = old \cup {N + 1}
    BY <1>7, <1>9
  <2>2. \A j \in 1..N : j \in Int /\ j <= N + 1
    BY <1>1
  <2>3. new \subseteq Int /\ N + 1 \in new /\ \A j \in new : j <= N + 1
    BY <1>1, <1>8, <2>1, <2>2
  <2>4. LastOf(new) = N + 1
    BY <2>3, LastIs
  <2> QED
    BY <1>1, <1>2, <1>4, <1>9, <2>3, <2>4 DEF g
<1>10. CASE ~Gives(g, N + 1)
  <2>1. new = old
    BY <1>7, <1>10
  <2>2. old # {} => LastOf(old) \in 1..N
    BY <1>1, <1>8, LastExists
  <2> QED
    BY <1>1, <1>2, <1>4, <1>10, <2>1, <2>2 DEF g
<1> QED
  BY <1>9, <1>10

\* A block that has just begun gives nothing.
LEMMA HostTextNew ==
  ASSUME NEW F \in Seq(Lines), NEW l \in Lines, NEW key
  PROVE  HostTextOf(Append(F, l), Len(F) + 1, key) = NewHost[key]
<1>1. Len(F) \in Nat /\ Len(Append(F, l)) = Len(F) + 1
  BY Longer
<1>2. (Len(F) + 1 + 1)..Len(Append(F, l)) = {}
  BY <1>1
<1> QED
  BY <1>2 DEF HostTextOf

(***************************************************************************)
(* The lines one after the other.                                           *)
(***************************************************************************)
Settings == Integer \cup Text

Accs == [ok : BOOLEAN, in_virtual_host : BOOLEAN, mode : {"Threads", "Select"},
         setting : [Settings -> Nat], virtual_hosts : Seq([HostText -> Nat])]

\* The integers outside of blocks are positive.
Positive(file) == \A i \in Outside(file, Integer) : file[i].value # 0

\* What is in acc of the settings of a file.
SettingsRead(acc, file) ==
  acc.mode = ModeOf(file) /\ \A key \in Settings : acc.setting[key] = SettingOf(file, key)

\* And of its virtual hosts.
HostsRead(acc, file) ==
  /\ Len(acc.virtual_hosts) = Cardinality(Blocks(file))
  /\ \A n \in 1..Len(acc.virtual_hosts) :
       /\ IsBlock(file, n, BlockOf(file, n))
       /\ \A key \in HostText :
            acc.virtual_hosts[n][key] = HostTextOf(file, BlockOf(file, n), key)

\* in_virtual_host refers to the last of them.
BlockRead(acc, file) ==
  /\ acc.in_virtual_host <=> Inside(file, Len(file) + 1)
  /\ acc.in_virtual_host => /\ acc.virtual_hosts # <<>>
                            /\ Open(file, BlockOf(file, Len(acc.virtual_hosts)))

ReadSoFar(acc, file) ==
  /\ acc \in Accs
  /\ acc.ok <=> Positive(file)
  /\ acc.ok => SettingsRead(acc, file) /\ HostsRead(acc, file) /\ BlockRead(acc, file)

LEMMA StartRead == ReadSoFar(Start, <<>>)
<1>1. <<>> \in Seq(Lines) /\ Len(<<>>) = 0
  OBVIOUS
<1>2. \A K : Outside(<<>>, K) = {}
  <2> TAKE K
  <2>1. Outside(<<>>, K) \subseteq 1..0
    BY <1>1, OutsideNumbers
  <2> QED
    BY <2>1
<1>3. ~Inside(<<>>, 1)
  BY DEF Inside
<1>4. Start \in Accs
  <2>1. Default \in [Settings -> Nat]
    BY DEF Default, Settings, Integer, Text
  <2> QED
    BY <2>1 DEF Start, Accs
<1>5. Positive(<<>>)
  BY <1>2 DEF Positive
<1>6. SettingsRead(Start, <<>>)
  BY <1>2 DEF SettingsRead, Start, ModeOf, SettingOf
<1>7. HostsRead(Start, <<>>)
  <2>1. Cardinality(Blocks(<<>>)) = 0
    BY <1>2, FS_EmptySet DEF Blocks
  <2> QED
    BY <2>1 DEF HostsRead, Start
<1>8. BlockRead(Start, <<>>)
  BY <1>1, <1>3 DEF BlockRead, Start
<1> QED
  BY <1>4, <1>5, <1>6, <1>7, <1>8 DEF ReadSoFar, Start

LEMMA LineTyped ==
  ASSUME NEW acc \in Accs, NEW l \in Lines
  PROVE  Line(acc, l) \in Accs
<1>0. l.key \in STRING /\ l.value \in Nat /\ acc.virtual_hosts \in Seq([HostText -> Nat])
  BY DEF Lines, Accs
<1>1. HostLine(acc, l) \in Accs
  <2>1. CASE l.key = "</VirtualHost>"
    BY <2>1 DEF HostLine, Accs, HostText
  <2>2. CASE l.key # "</VirtualHost>" /\ l.key \in HostText
    <3> DEFINE v == acc.virtual_hosts
               w == [v EXCEPT ![Len(v)][l.key] = l.value]
    <3>1. w \in Seq([HostText -> Nat])
      <4> DEFINE H == [HostText -> Nat]
      <4>1. v \in [1..Len(v) -> H] /\ Len(v) \in Nat
        BY <1>0
      <4>2. w = [v EXCEPT ![Len(v)] = [v[Len(v)] EXCEPT ![l.key] = l.value]]
        OBVIOUS
      <4>3. ASSUME Len(v) \in 1..Len(v) PROVE [v[Len(v)] EXCEPT ![l.key] = l.value] \in H
        <5>1. v[Len(v)] \in H
          BY <4>1, <4>3
        <5> HIDE DEF v
        <5> QED
          BY <1>0, <2>2, <5>1
      <4> HIDE DEF v, w, H
      <4>4. w \in [1..Len(v) -> H]
        BY <4>1, <4>2, <4>3
      <4>5. w \in Seq(H)
        BY <4>1, <4>4
      <4> QED
        BY <4>5 DEF H
    <3>2. HostLine(acc, l) = [acc EXCEPT !.virtual_hosts = w]
      BY <2>2 DEF HostLine
    <3> HIDE DEF w
    <3> QED
      BY <3>1, <3>2 DEF Accs
  <2>3. CASE l.key # "</VirtualHost>" /\ l.key \notin HostText
    BY <2>3 DEF HostLine
  <2> QED
    BY <2>1, <2>2, <2>3
<1>2. MainLine(acc, l) \in Accs
  <2>1. CASE l.key = "<VirtualHost"
    <3>1. NewHost \in [HostText -> Nat]
      BY DEF NewHost, HostText
    <3>2. Append(acc.virtual_hosts, NewHost) \in Seq([HostText -> Nat])
      BY <1>0, <3>1
    <3>3. MainLine(acc, l) = [acc EXCEPT !.virtual_hosts = Append(acc.virtual_hosts, NewHost),
                                         !.in_virtual_host = TRUE]
      BY <2>1 DEF MainLine, Integer, Text
    <3> QED
      BY <3>2, <3>3 DEF Accs
  <2>2. CASE l.key \in Integer /\ l.value = 0
    BY <2>2 DEF MainLine, Accs, Integer, Text
  <2>3. CASE l.key \in Integer /\ l.value # 0
    <3> DEFINE m == CASE l.key = "nThreads" -> "Threads"
                      [] l.key = "nSelectLoops" -> "Select"
                      [] OTHER -> acc.mode
    <3>1. m \in {"Threads", "Select"}
      BY DEF Accs
    <3>2. [acc.setting EXCEPT ![l.key] = l.value] \in [Settings -> Nat]
      BY <1>0 DEF Accs
    <3>3. MainLine(acc, l) = [acc EXCEPT !.setting[l.key] = l.value, !.mode = m]
      BY <2>3 DEF MainLine, Integer, Text
    <3> HIDE DEF m
    <3> QED
      BY <3>1, <3>2, <3>3 DEF Accs
  <2>4. CASE l.key \in Text
    <3>1. [acc.setting EXCEPT ![l.key] = l.value] \in [Settings -> Nat]
      BY <1>0 DEF Accs
    <3>2. MainLine(acc, l) = [acc EXCEPT !.setting[l.key] = l.value]
      BY <2>4 DEF MainLine, Integer, Text
    <3> QED
      BY <3>1, <3>2 DEF Accs
  <2>5. CASE l.key # "<VirtualHost" /\ l.key \notin Integer /\ l.key \notin Text
    BY <2>5 DEF MainLine
  <2> QED
    BY <2>1, <2>2, <2>3, <2>4, <2>5
<1> QED
  BY <1>1, <1>2 DEF Line, Accs

\* The fields that a line changes.
LEMMA HostLineFields ==
  ASSUME NEW acc \in Accs, acc.in_virtual_host, NEW l \in Lines
  PROVE  LET r == HostLine(acc, l)
         IN  /\ r.ok = acc.ok /\ r.mode = acc.mode /\ r.setting = acc.setting
             /\ r.in_virtual_host = (l.key # "</VirtualHost>")
             /\ l.key \notin HostText => r.virtual_hosts = acc.virtual_hosts
             /\ l.key \in HostText =>
                  r.virtual_hosts =
                    [acc.virtual_hosts EXCEPT ![Len(acc.virtual_hosts)][l.key] = l.value]
<1>1. CASE l.key = "</VirtualHost>"
  BY <1>1 DEF HostLine, Accs, HostText
<1>2. CASE l.key # "</VirtualHost>" /\ l.key \in HostText
  <2> DEFINE w == [acc.virtual_hosts EXCEPT ![Len(acc.virtual_hosts)][l.key] = l.value]
  <2>1. HostLine(acc, l) = [acc EXCEPT !.virtual_hosts = w]
    BY <1>2 DEF HostLine
  <2> HIDE DEF w
  <2>2. acc.in_virtual_host = TRUE
    BY DEF Accs
  <2>3. /\ HostLine(acc, l).ok = acc.ok /\ HostLine(acc, l).mode = acc.mode
        /\ HostLine(acc, l).setting = acc.setting /\ HostLine(acc, l).virtual_hosts = w
        /\ HostLine(acc, l).in_virtual_host = TRUE
    BY <2>1, <2>2 DEF Accs
  <2> QED
    BY <1>2, <2>3 DEF w
<1>3. CASE l.key # "</VirtualHost>" /\ l.key \notin HostText
  <2>1. HostLine(acc, l) = acc /\ acc.in_virtual_host = TRUE
    BY <1>3 DEF HostLine, Accs
  <2> QED
    BY <1>3, <2>1
<1> QED
  BY <1>1, <1>2, <1>3

LEMMA MainLineFields ==
  ASSUME NEW acc \in Accs, acc.ok, ~acc.in_virtual_host, NEW l \in Lines
  PROVE  LET r == MainLine(acc, l)
         IN  /\ r.ok = ~(l.key \in Integer /\ l.value = 0)
             /\ r.in_virtual_host = (l.key = "<VirtualHost")
             /\ l.key = "<VirtualHost" => r.virtual_hosts = Append(acc.virtual_hosts, NewHost)
             /\ l.key # "<VirtualHost" => r.virtual_hosts = acc.virtual_hosts
             /\ r.ok => /\ r.mode = IF l.key = "nThreads" THEN "Threads"
                                    ELSE IF l.key = "nSelectLoops" THEN "Select" ELSE acc.mode
                        /\ l.key \in Settings =>
                             r.setting = [acc.setting EXCEPT ![l.key] = l.value]
                        /\ l.key \notin Settings => r.setting = acc.setting
<1>0. acc.ok = TRUE /\ acc.in_virtual_host = FALSE
  BY DEF Accs
<1>1. CASE l.key = "<VirtualHost"
  <2>1. MainLine(acc, l) = [acc EXCEPT !.virtual_hosts = Append(acc.virtual_hosts, NewHost),
                                       !.in_virtual_host = TRUE]
    BY <1>1 DEF MainLine, Integer, Text
  <2> QED
    BY <1>0, <1>1, <2>1 DEF Accs, Integer, Text, Settings
<1>2. CASE l.key \in Integer /\ l.value = 0
  <2>1. MainLine(acc, l) = [acc EXCEPT !.ok = FALSE]
    BY <1>2 DEF MainLine, Integer, Text
  <2> QED
    BY <1>0, <1>2, <2>1 DEF Accs, Integer, Text, Settings
<1>3. CASE l.key \in Integer /\ l.value # 0
  <2> DEFINE m == CASE l.key = "nThreads" -> "Threads"
                    [] l.key = "nSelectLoops" -> "Select"
                    [] OTHER -> acc.mode
  <2>1. MainLine(acc, l) = [acc EXCEPT !.setting[l.key] = l.value, !.mode = m]
    BY <1>3 DEF MainLine, Integer, Text
  <2>2. m = IF l.key = "nThreads" THEN "Threads"
            ELSE IF l.key = "nSelectLoops" THEN "Select" ELSE acc.mode
    OBVIOUS
  <2>3. l.key # "<VirtualHost" /\ l.key \in Settings
    BY <1>3 DEF Integer, Settings
  <2> HIDE DEF m
  <2> QED
    BY <1>0, <1>3, <2>1, <2>2, <2>3 DEF Accs
<1>4. CASE l.key \in Text
  <2>1. MainLine(acc, l) = [acc EXCEPT !.setting[l.key] = l.value]
    BY <1>4 DEF MainLine, Integer, Text
  <2>2. /\ l.key \notin Integer /\ l.key # "<VirtualHost" /\ l.key \in Settings
        /\ l.key \notin {"nThreads", "nSelectLoops"}
    BY <1>4 DEF Integer, Text, Settings
  <2> QED
    BY <1>0, <2>1, <2>2 DEF Accs
<1>5. CASE l.key # "<VirtualHost" /\ l.key \notin Integer /\ l.key \notin Text
  <2>1. MainLine(acc, l) = acc
    BY <1>5 DEF MainLine
  <2>2. l.key \notin Settings /\ l.key \notin {"nThreads", "nSelectLoops"}
    BY <1>5 DEF Settings, Integer
  <2> QED
    BY <1>0, <1>5, <2>1, <2>2
<1> QED
  BY <1>1, <1>2, <1>3, <1>4, <1>5

LEMMA PositiveNext ==
  ASSUME NEW F \in Seq(Lines), NEW l \in Lines
  PROVE  Positive(Append(F, l)) <=>
           /\ Positive(F)
           /\ ~(l.key \in Integer /\ ~Inside(F, Len(F) + 1) /\ l.value = 0)
<1> DEFINE N == Len(F)
           g == Append(F, l)
           old == Outside(F, Integer)
<1>1. g[N + 1] = l /\ \A i \in 1..N : g[i] = F[i]
  BY Longer
<1>2. old \subseteq 1..N
  BY OutsideNumbers
<1>3. Outside(g, Integer) =
        old \cup (IF l.key \in Integer /\ ~Inside(F, N + 1) THEN {N + 1} ELSE {})
  BY OutsideNext
<1>4. Positive(F) <=> \A i \in old : F[i].value # 0
  BY DEF Positive
<1> HIDE DEF N, g, old
<1>5. \A i \in old : g[i] = F[i]
  BY <1>1, <1>2
<1>6. CASE l.key \in Integer /\ ~Inside(F, N + 1)
  <2>1. Outside(g, Integer) = old \cup {N + 1}
    BY <1>3, <1>6
  <2> QED
    BY <1>1, <1>4, <1>5, <1>6, <2>1 DEF Positive, N, g
<1>7. CASE ~(l.key \in Integer /\ ~Inside(F, N + 1))
  <2>1. Outside(g, Integer) = old
    BY <1>3, <1>7
  <2> QED
    BY <1>4, <1>5, <1>7, <2>1 DEF Positive, N, g
<1> QED
  BY <1>6, <1>7

\* What one more line changes in the blocks there are.
LEMMA HostsStay ==
  ASSUME NEW acc \in Accs, NEW F \in Seq(Lines), HostsRead(acc, F), NEW l \in Lines,
         NEW n \in 1..Len(acc.virtual_hosts), NEW i, i = BlockOf(F, n)
  PROVE  /\ i \in 1..Len(F) /\ IsBlock(Append(F, l), n, i) /\ BlockOf(Append(F, l), n) = i
         /\ \A key \in HostText :
              HostTextOf(Append(F, l), i, key) =
                IF l.key = key /\ Open(F, i) THEN l.value ELSE acc.virtual_hosts[n][key]
         /\ Open(F, i) => Inside(F, Len(F) + 1) /\ n = Len(acc.virtual_hosts)
<1> DEFINE H == Len(acc.virtual_hosts)
<1>1. H \in Nat /\ n \in Nat /\ n <= H /\ H \in 1..H
  BY DEF Accs
<1>2. /\ IsBlock(F, n, i) /\ IsBlock(F, H, BlockOf(F, H))
      /\ \A key \in HostText : acc.virtual_hosts[n][key] = HostTextOf(F, i, key)
  BY <1>1 DEF HostsRead
<1>3. i \in 1..Len(F) /\ IsBlock(Append(F, l), n, i) /\ BlockOf(Append(F, l), n) = i
  BY <1>1, <1>2, BlockStays
<1>4. ASSUME NEW key \in HostText
      PROVE  HostTextOf(Append(F, l), i, key) =
               IF l.key = key /\ Open(F, i) THEN l.value ELSE acc.virtual_hosts[n][key]
  <2>1. key # "</VirtualHost>"
    BY DEF HostText
  <2> QED
    BY <1>2, <1>3, <2>1, HostTextNext
<1>5. ASSUME Open(F, i) PROVE Inside(F, Len(F) + 1) /\ n = H
  <2>1. i \in Blocks(F) /\ BlockOf(F, H) \in Blocks(F)
    BY <1>2 DEF IsBlock
  <2>2. Inside(F, Len(F) + 1) /\ BlockOf(F, H) <= i
    BY <1>5, <2>1, OpenIsLast
  <2>3. n < H => i < BlockOf(F, H)
    BY <1>1, <1>2, BlocksInOrder
  <2>4. i \in Int /\ BlockOf(F, H) \in Int
    BY <2>1, OutsideNumbers DEF Blocks
  <2> QED
    BY <1>1, <2>2, <2>3, <2>4
<1> QED
  BY <1>3, <1>4, <1>5

LEMMA HostLineRead ==
  ASSUME NEW acc \in Accs, NEW F \in Seq(Lines), NEW l \in Lines, acc.ok, acc.in_virtual_host,
         SettingsRead(acc, F), HostsRead(acc, F), BlockRead(acc, F),
         NEW r, r = HostLine(acc, l), NEW g, g = Append(F, l)
  PROVE  SettingsRead(r, g) /\ HostsRead(r, g) /\ BlockRead(r, g)
<1> DEFINE v == acc.virtual_hosts
           H == Len(v)
<1>1. /\ r.ok = acc.ok /\ r.mode = acc.mode /\ r.setting = acc.setting
      /\ r.in_virtual_host = (l.key # "</VirtualHost>")
      /\ l.key \notin HostText => r.virtual_hosts = v
      /\ l.key \in HostText => r.virtual_hosts = [v EXCEPT ![H][l.key] = l.value]
  BY HostLineFields
<1>2. Inside(F, Len(F) + 1) /\ v # <<>> /\ Open(F, BlockOf(F, H))
  BY DEF BlockRead
<1>3. H \in Nat /\ H \in 1..H /\ v \in Seq([HostText -> Nat])
  BY <1>2 DEF Accs
<1>4. SettingsRead(r, g)
  BY <1>1, <1>2, SettingNext, ModeNext DEF SettingsRead
<1>5. Blocks(g) = Blocks(F)
  BY <1>2, BlockAdded
<1>6. Len(r.virtual_hosts) = H /\ \A n \in 1..H : \A key \in HostText :
        r.virtual_hosts[n][key] = IF l.key = key /\ n = H THEN l.value ELSE v[n][key]
  <2>1. CASE l.key \in HostText
    <3> DEFINE last == [v[H] EXCEPT ![l.key] = l.value]
    <3>1. r.virtual_hosts = [v EXCEPT ![H] = last]
      BY <1>1, <2>1
    <3>2. v[H] \in [HostText -> Nat]
      BY <1>3
    <3>3. \A key \in HostText : last[key] = IF l.key = key THEN l.value ELSE v[H][key]
      <4> HIDE DEF v, H
      <4> QED
        BY <3>2
    <3>4. DOMAIN v = 1..H
      BY <1>3
    <3> HIDE DEF v, H, last
    <3>5. /\ Len(r.virtual_hosts) = H
          /\ \A n \in 1..H : r.virtual_hosts[n] = IF n = H THEN last ELSE v[n]
      BY <1>3, <3>1, <3>4 DEF H
    <3> QED
      BY <3>3, <3>5
  <2>2. CASE l.key \notin HostText
    BY <1>1, <2>2
  <2> QED
    BY <2>1, <2>2
<1> HIDE DEF v, H
<1>7. HostsRead(r, g)
  <2>1. H = Cardinality(Blocks(g))
    BY <1>5 DEF HostsRead, H, v
  <2>2. ASSUME NEW n \in 1..H
        PROVE  /\ IsBlock(g, n, BlockOf(g, n))
               /\ \A key \in HostText :
                    r.virtual_hosts[n][key] = HostTextOf(g, BlockOf(g, n), key)
    <3> DEFINE i == BlockOf(F, n)
    <3>1. /\ IsBlock(g, n, i) /\ BlockOf(g, n) = i
          /\ \A key \in HostText :
               HostTextOf(g, i, key) = IF l.key = key /\ Open(F, i) THEN l.value ELSE v[n][key]
          /\ Open(F, i) => n = H
      BY HostsStay DEF H, v
    <3>2. Open(F, i) <=> n = H
      BY <1>2, <3>1
    <3> HIDE DEF i
    <3> QED
      BY <1>6, <3>1, <3>2
  <2> QED
    BY <1>6, <2>1, <2>2 DEF HostsRead
<1>8. BlockRead(r, g)
  <2> DEFINE i == BlockOf(F, H)
  <2>1. i \in 1..Len(F) /\ BlockOf(g, H) = i
    BY <1>3, HostsStay DEF H, v
  <2>2. Open(g, i) <=> l.key # "</VirtualHost>"
    <3>1. i \in 1..(Len(F) + 1) /\ i # Len(F) + 1
      BY <2>1, Longer
    <3> QED
      BY <1>2, <3>1, OpenNext
  <2>3. Inside(g, Len(g) + 1) <=> l.key # "</VirtualHost>"
    <3>1. Len(g) + 1 = Len(F) + 2
      BY Longer
    <3> QED
      BY <1>2, <3>1, InsideNext
  <2>4. r.virtual_hosts # <<>>
    BY <1>3, <1>6
  <2> QED
    BY <1>1, <1>6, <2>1, <2>2, <2>3, <2>4 DEF BlockRead
<1> QED
  BY <1>4, <1>7, <1>8

LEMMA MainLineRead ==
  ASSUME NEW acc \in Accs, NEW F \in Seq(Lines), NEW l \in Lines, acc.ok, ~acc.in_virtual_host,
         SettingsRead(acc, F), HostsRead(acc, F), BlockRead(acc, F),
         NEW r, r = MainLine(acc, l), r.ok, NEW g, g = Append(F, l)
  PROVE  SettingsRead(r, g) /\ HostsRead(r, g) /\ BlockRead(r, g)
<1> DEFINE v == acc.virtual_hosts
           H == Len(v)
           N == Len(F)
<1>1. /\ r.in_virtual_host = (l.key = "<VirtualHost")
      /\ l.key = "<VirtualHost" => r.virtual_hosts = Append(v, NewHost)
      /\ l.key # "<VirtualHost" => r.virtual_hosts = v
      /\ r.mode = IF l.key = "nThreads" THEN "Threads"
                  ELSE IF l.key = "nSelectLoops" THEN "Select" ELSE acc.mode
      /\ l.key \in Settings => r.setting = [acc.setting EXCEPT ![l.key] = l.value]
      /\ l.key \notin Settings => r.setting = acc.setting
  BY MainLineFields
<1>2. ~Inside(F, N + 1)
  BY DEF BlockRead
<1>3. /\ H \in Nat /\ v \in Seq([HostText -> Nat]) /\ acc.setting \in [Settings -> Nat]
      /\ N \in Nat /\ Len(g) = N + 1
  BY Longer DEF Accs
<1>4. SettingsRead(r, g)
  <2>1. r.mode = ModeOf(g)
    BY <1>1, <1>2, ModeNext DEF SettingsRead
  <2>2. ASSUME NEW key \in Settings PROVE r.setting[key] = SettingOf(g, key)
    <3>1. SettingOf(g, key) = IF l.key = key THEN l.value ELSE acc.setting[key]
      BY <1>2, SettingNext DEF SettingsRead
    <3> QED
      BY <1>1, <1>3, <3>1
  <2> QED
    BY <2>1, <2>2 DEF SettingsRead
<1>5. H = Cardinality(Blocks(F))
  BY DEF HostsRead
<1>6. IF l.key = "<VirtualHost"
      THEN Cardinality(Blocks(g)) = H + 1 /\ IsBlock(g, H + 1, N + 1)
      ELSE Blocks(g) = Blocks(F)
  BY <1>2, <1>5, BlockAdded
<1>7. ASSUME NEW n \in 1..H
      PROVE  /\ IsBlock(g, n, BlockOf(g, n))
             /\ \A key \in HostText : v[n][key] = HostTextOf(g, BlockOf(g, n), key)
  <2> DEFINE i == BlockOf(F, n)
  <2>1. /\ IsBlock(g, n, i) /\ BlockOf(g, n) = i
        /\ \A key \in HostText :
             HostTextOf(g, i, key) = IF l.key = key /\ Open(F, i) THEN l.value ELSE v[n][key]
        /\ Open(F, i) => Inside(F, N + 1)
    BY HostsStay
  <2> HIDE DEF i, v, N
  <2> QED
    BY <1>2, <2>1
<1>8. ASSUME l.key = "<VirtualHost"
      PROVE  BlockOf(g, H + 1) = N + 1 /\ IsBlock(g, H + 1, BlockOf(g, H + 1))
  <2>1. g \in Seq(Lines) /\ H + 1 \in Nat
    BY <1>3, Longer
  <2> QED
    BY <1>6, <1>8, <2>1, BlockOfIs
<1> HIDE DEF v, H, N
<1>9. CASE l.key = "<VirtualHost"
  <2>1. /\ Len(r.virtual_hosts) = H + 1 /\ r.virtual_hosts[H + 1] = NewHost
        /\ \A n \in 1..H : r.virtual_hosts[n] = v[n]
    <3> DEFINE T == [HostText -> Nat]
    <3>1. NewHost \in T
      BY DEF NewHost, HostText
    <3>2. v \in Seq(T)
      BY <1>3
    <3> HIDE DEF T
    <3>3. /\ Len(Append(v, NewHost)) = Len(v) + 1 /\ Append(v, NewHost)[Len(v) + 1] = NewHost
          /\ \A n \in 1..Len(v) : Append(v, NewHost)[n] = v[n]
      BY <3>1, <3>2, AppendProperties
    <3> QED
      BY <1>1, <1>9, <3>3 DEF H
  <2>2. \A key \in HostText : HostTextOf(g, N + 1, key) = NewHost[key]
    BY HostTextNew DEF N
  <2>3. HostsRead(r, g)
    <3>1. ASSUME NEW n \in 1..(H + 1)
          PROVE  /\ IsBlock(g, n, BlockOf(g, n))
                 /\ \A key \in HostText :
                      r.virtual_hosts[n][key] = HostTextOf(g, BlockOf(g, n), key)
      <4>1. n = H + 1 \/ n \in 1..H
        BY <1>3
      <4> QED
        BY <1>6, <1>7, <1>8, <1>9, <2>1, <2>2, <4>1
    <3> QED
      BY <1>6, <1>9, <2>1, <3>1 DEF HostsRead
  <2>4. BlockRead(r, g)
    <3>1. Open(g, N + 1)
      <4>1. N + 1 \in 1..(Len(F) + 1)
        BY <1>3 DEF N
      <4> QED
        BY <4>1, OpenNext DEF N
    <3>2. Inside(g, Len(g) + 1)
      <4>1. Len(g) + 1 = Len(F) + 2
        BY <1>3 DEF N
      <4> QED
        BY <1>9, <4>1, InsideNext
    <3>3. r.virtual_hosts # <<>>
      BY <1>3, <2>1
    <3> QED
      BY <1>1, <1>8, <1>9, <2>1, <3>1, <3>2, <3>3 DEF BlockRead
  <2> QED
    BY <1>4, <2>3, <2>4
<1>10. CASE l.key # "<VirtualHost"
  <2>1. r.virtual_hosts = v /\ ~r.in_virtual_host
    BY <1>1, <1>10
  <2>2. HostsRead(r, g)
    BY <1>5, <1>6, <1>7, <1>10, <2>1 DEF HostsRead, H
  <2>3. ~Inside(g, Len(g) + 1)
    <3>1. Len(g) + 1 = Len(F) + 2
      BY <1>3 DEF N
    <3> QED
      BY <1>2, <1>10, <3>1, InsideNext DEF N
  <2>4. BlockRead(r, g)
    BY <2>1, <2>3 DEF BlockRead
  <2> QED
    BY <1>4, <2>2, <2>4
<1> QED
  BY <1>9, <1>10

LEMMA LineRead ==
  ASSUME NEW acc, NEW F \in Seq(Lines), ReadSoFar(acc, F), NEW l \in Lines
  PROVE  ReadSoFar(Line(acc, l), Append(F, l))
<1> DEFINE r == Line(acc, l)
           g == Append(F, l)
<1>1. /\ acc \in Accs
      /\ acc.ok <=> Positive(F)
      /\ acc.ok => SettingsRead(acc, F) /\ HostsRead(acc, F) /\ BlockRead(acc, F)
  BY DEF ReadSoFar
<1>2. r \in Accs
  BY <1>1, LineTyped
<1>3. Positive(g) <=>
        Positive(F) /\ ~(l.key \in Integer /\ ~Inside(F, Len(F) + 1) /\ l.value = 0)
  BY PositiveNext
<1>4. CASE ~acc.ok
  <2>1. r = acc
    BY <1>4 DEF Line
  <2> QED
    BY <1>1, <1>3, <1>4, <2>1 DEF ReadSoFar
<1>5. CASE acc.ok /\ acc.in_virtual_host
  <2>1. r = HostLine(acc, l)
    BY <1>5 DEF Line
  <2>2. r.ok = acc.ok
    BY <1>1, <1>5, <2>1, HostLineFields
  <2>3. Inside(F, Len(F) + 1)
    BY <1>1, <1>5 DEF BlockRead
  <2> HIDE DEF r, g
  <2>4. SettingsRead(r, g) /\ HostsRead(r, g) /\ BlockRead(r, g)
    BY <1>1, <1>5, <2>1, HostLineRead DEF g
  <2> QED
    BY <1>1, <1>2, <1>3, <1>5, <2>2, <2>3, <2>4 DEF ReadSoFar, r, g
<1>6. CASE acc.ok /\ ~acc.in_virtual_host
  <2>1. r = MainLine(acc, l)
    BY <1>6 DEF Line
  <2>2. r.ok = ~(l.key \in Integer /\ l.value = 0)
    <3> HIDE DEF r, g
    <3>1. MainLine(acc, l).ok = ~(l.key \in Integer /\ l.value = 0)
      BY <1>1, <1>6, MainLineFields
    <3> QED
      BY <2>1, <3>1
  <2>3. ~Inside(F, Len(F) + 1)
    BY <1>1, <1>6 DEF BlockRead
  <2> HIDE DEF r, g
  <2>4. r.ok => SettingsRead(r, g) /\ HostsRead(r, g) /\ BlockRead(r, g)
    BY <1>1, <1>6, <2>1, MainLineRead DEF g
  <2>5. r.ok <=> Positive(g)
    BY <1>1, <1>3, <1>6, <2>2, <2>3
  <2> QED
    BY <1>2, <2>4, <2>5 DEF ReadSoFar, r, g
<1> QED
  BY <1>4, <1>5, <1>6

\* The recursion of the loop has a solution, and only one.
LEMMA LoopIs ==
  ASSUME NEW file \in Seq(Lines)
  PROVE  /\ After(file)[0] = Start
         /\ \A n \in 1..Len(file) : After(file)[n] = Line(After(file)[n - 1], file[n])
<1> DEFINE N == Len(file)
           Step(f, n) == IF n = 0 THEN Start ELSE Line(f[n - 1], file[n])
           Solves(f, m) == f = [n \in 0..m |-> Step(f, n)]
           T == {m \in 0..N : \E f : Solves(f, m)}
<1>1. N \in Nat
  OBVIOUS
<1>2. 0 \in T
  <2> DEFINE f == [n \in 0..0 |-> Start]
  <2>1. f = [n \in 0..0 |-> Step(f, n)]
    OBVIOUS
  <2>2. Solves(f, 0)
    BY <2>1
  <2> HIDE DEF Solves, f
  <2> QED
    BY <1>1, <2>2
<1>3. ASSUME NEW m \in 1..N, m - 1 \in T PROVE m \in T
  <2>1. PICK f : Solves(f, m - 1)
    BY <1>3
  <2> DEFINE h == [n \in 0..m |-> IF n = m THEN Line(f[m - 1], file[m]) ELSE f[n]]
  <2>2. ASSUME NEW n \in 0..m PROVE h[n] = Step(h, n)
    <3>1. CASE n = m
      <4>1. n # 0 /\ n - 1 \in 0..m /\ n - 1 # m
        BY <3>1
      <4>2. h[n - 1] = f[n - 1] /\ h[n] = Line(f[m - 1], file[m])
        BY <3>1, <4>1
      <4> HIDE DEF h
      <4> QED
        BY <3>1, <4>1, <4>2
    <3>2. CASE n # m
      <4>1. n \in 0..(m - 1) /\ h[n] = f[n]
        BY <3>2
      <4>2. f[n] = Step(f, n)
        <5>1. f = [k \in 0..(m - 1) |-> Step(f, k)]
          BY <2>1
        <5> HIDE DEF Step
        <5> QED
          BY <4>1, <5>1
      <4>3. n # 0 => h[n - 1] = f[n - 1]
        <5>1. n # 0 => n - 1 \in 0..m /\ n - 1 # m
          BY <4>1
        <5> QED
          BY <5>1
      <4> HIDE DEF h
      <4> QED
        BY <4>1, <4>2, <4>3
    <3> QED
      BY <3>1, <3>2
  <2>3. Solves(h, m)
    <3>1. h = [n \in 0..m |-> h[n]]
      OBVIOUS
    <3> HIDE DEF h, Step
    <3> QED
      BY <2>2, <3>1
  <2>4. m \in 0..N
    BY <1>1
  <2> HIDE DEF Solves, h
  <2> QED
    BY <2>3, <2>4
<1>4. N \in T
  <2>1. \A n \in 0..N : n \in T
    <3> HIDE DEF T, N
    <3> QED
      BY <1>1, <1>2, <1>3, UpTo
  <2> QED
    BY <1>1, <2>1
<1>5. PICK f : Solves(f, N)
  BY <1>4
<1>6. After(file) = CHOOSE q : Solves(q, N)
  BY DEF After
<1>7. Solves(After(file), N)
  <2> HIDE DEF Solves
  <2> QED
    BY <1>5, <1>6
<1> DEFINE a == After(file)
<1>8. a = [n \in 0..N |-> Step(a, n)]
  BY <1>7
<1> HIDE DEF a
<1>9. \A n \in 0..N : a[n] = Step(a, n)
  <2> HIDE DEF Step
  <2> QED
    BY <1>8
<1>10. 0 \in 0..N /\ \A n \in 1..N : n \in 0..N /\ n # 0
  BY <1>1
<1>11. a[0] = Start /\ \A n \in 1..N : a[n] = Line(a[n - 1], file[n])
  <2> HIDE DEF N
  <2> QED
    BY <1>9, <1>10
<1> QED
  BY <1>11 DEF a

LEMMA LoopReads ==
  ASSUME NEW file \in Seq(Lines)
  PROVE  ReadSoFar(After(file)[Len(file)], file)
<1> DEFINE N == Len(file)
           Part(n) == SubSeq(file, 1, n)
           T == {n \in 0..N : ReadSoFar(After(file)[n], Part(n))}
<1>1. N \in Nat
  OBVIOUS
<1>2. 0 \in T
  <2>1. Part(0) = <<>>
    OBVIOUS
  <2>2. After(file)[0] = Start /\ 0 \in 0..N
    BY <1>1, LoopIs
  <2> HIDE DEF N, Part
  <2>3. ReadSoFar(After(file)[0], Part(0))
    BY <2>1, <2>2, StartRead
  <2> QED
    BY <2>2, <2>3
<1>3. ASSUME NEW n \in 1..N, n - 1 \in T PROVE n \in T
  <2>1. file[n] \in Lines /\ n - 1 \in 0..N /\ n \in 0..N
    BY <1>1
  <2>2. Part(n - 1) \in Seq(Lines) /\ Part(n) = Append(Part(n - 1), file[n])
    <3>1. /\ Part(n - 1) \in Seq(Lines) /\ Part(n) \in Seq(Lines)
          /\ Len(Part(n - 1)) = n - 1 /\ Len(Part(n)) = n
          /\ \A i \in 1..(n - 1) : Part(n - 1)[i] = file[i]
          /\ \A i \in 1..n : Part(n)[i] = file[i]
      BY <1>1, <2>1
    <3> DEFINE q == Append(Part(n - 1), file[n])
    <3>2. /\ q \in Seq(Lines) /\ Len(q) = n /\ q[n] = file[n]
          /\ \A i \in 1..(n - 1) : q[i] = file[i]
      <4> HIDE DEF Part
      <4>1. n - 1 \in Nat /\ n - 1 + 1 = n
        BY <1>1
      <4>2. /\ q \in Seq(Lines) /\ Len(q) = n - 1 + 1 /\ q[n - 1 + 1] = file[n]
            /\ \A i \in 1..(n - 1) : q[i] = Part(n - 1)[i]
        BY <2>1, <3>1, AppendProperties
      <4> QED
        BY <3>1, <4>1, <4>2
    <3> HIDE DEF Part, q
    <3>3. \A i \in 1..n : q[i] = Part(n)[i]
      <4>1. \A i \in 1..n : i = n \/ i \in 1..(n - 1)
        BY <1>1
      <4> QED
        BY <3>1, <3>2, <4>1
    <3>4. Part(n) = q
      BY <3>1, <3>2, <3>3, SeqEqual
    <3> QED
      BY <3>1, <3>4 DEF q
  <2>3. ReadSoFar(Line(After(file)[n - 1], file[n]), Part(n))
    BY <1>3, <2>1, <2>2, LineRead
  <2> QED
    BY <2>1, <2>3, LoopIs
<1>4. N \in T
  <2>1. \A n \in 0..N : n \in T
    <3> HIDE DEF T, N
    <3> QED
      BY <1>1, <1>2, <1>3, UpTo
  <2> QED
    BY <1>1, <2>1
<1>5. Part(N) = file
  OBVIOUS
<1> QED
  BY <1>4, <1>5

\* load_config makes of any file what its lines say.
LEMMA LoadIsRight ==
  ASSUME NEW file \in Seq(Lines), NEW c, c = load_config(file)
  PROVE  /\ c \in Accs
         /\ c.ok <=> Acceptable(file)
         /\ c.ok => AsWritten(file, c)
<1> DEFINE end == After(file)[Len(file)]
<1>1. /\ end \in Accs
      /\ end.ok <=> Positive(file)
      /\ end.ok => SettingsRead(end, file) /\ HostsRead(end, file) /\ BlockRead(end, file)
  BY LoopReads DEF ReadSoFar
<1>2. c = [end EXCEPT !.ok = end.ok /\ ~end.in_virtual_host]
  BY DEF load_config
<1> HIDE DEF end
<1>3. /\ c.ok <=> end.ok /\ ~end.in_virtual_host
      /\ c.mode = end.mode /\ c.setting = end.setting /\ c.virtual_hosts = end.virtual_hosts
      /\ c \in Accs
  <2>1. (end.ok /\ ~end.in_virtual_host) \in BOOLEAN
    OBVIOUS
  <2> DEFINE b == end.ok /\ ~end.in_virtual_host
  <2>2. b \in BOOLEAN /\ c = [end EXCEPT !.ok = b]
    BY <1>2, <2>1
  <2> HIDE DEF b
  <2>3. /\ c.ok = b /\ c.mode = end.mode /\ c.setting = end.setting
        /\ c.virtual_hosts = end.virtual_hosts /\ c \in Accs
    BY <1>1, <2>2 DEF Accs
  <2> QED
    BY <2>3 DEF b
<1>4. Acceptable(file) <=> Positive(file) /\ ~Inside(file, Len(file) + 1)
  <2>1. Len(file) + 1 \in 1..(Len(file) + 1)
    OBVIOUS
  <2>2. Inside(Append(file, [key |-> "end", value |-> 0]), Len(file) + 1)
          <=> Inside(file, Len(file) + 1)
    BY <2>1, InsideSame
  <2> QED
    BY <2>2 DEF Acceptable, Positive
<1>5. c.ok <=> Acceptable(file)
  BY <1>1, <1>3, <1>4 DEF BlockRead
<1>6. ASSUME c.ok PROVE AsWritten(file, c)
  <2>1. SettingsRead(end, file) /\ HostsRead(end, file)
    BY <1>1, <1>3, <1>6
  <2>2. /\ c.mode = ModeOf(file) /\ \A key \in Settings : c.setting[key] = SettingOf(file, key)
        /\ Len(c.virtual_hosts) = Cardinality(Blocks(file))
        /\ \A n \in 1..Len(c.virtual_hosts) : \A key \in HostText :
             c.virtual_hosts[n][key] = HostTextOf(file, BlockOf(file, n), key)
    BY <1>3, <2>1 DEF SettingsRead, HostsRead
  <2>3. DOMAIN c.virtual_hosts = 1..Len(c.virtual_hosts)
    BY <1>3 DEF Accs
  <2>4. AsWritten(file, c) <=>
          /\ c.mode = ModeOf(file)
          /\ \A key \in Integer \cup Text : c.setting[key] = SettingOf(file, key)
          /\ Len(c.virtual_hosts) = Cardinality(Blocks(file))
          /\ \A n \in DOMAIN c.virtual_hosts, key \in HostText :
               c.virtual_hosts[n][key] = HostTextOf(file, BlockOf(file, n), key)
    BY Zenon DEF AsWritten, BlockOf, Blocks
  <2> QED
    BY <2>2, <2>3, <2>4 DEF Settings
<1> QED
  BY <1>3, <1>5, <1>6

\* Every configuration file, of any number of lines with any keys and numbers, is
\* accepted exactly if it should be and then means what its lines say.
THEOREM LoadedRight == Spec => []LoadedAsWritten
<1>1. LoadedAsWritten
  <2> SUFFICES ASSUME NEW file \in Files
               PROVE  LET c == load_config(file)
                      IN  c.ok = Acceptable(file) /\ (c.ok => AsWritten(file, c))
    BY DEF LoadedAsWritten
  <2> DEFINE c == load_config(file)
  <2>1. file \in Seq(Lines)
    BY FilesAssumption
  <2>2. /\ c \in Accs
        /\ c.ok <=> Acceptable(file)
        /\ c.ok => AsWritten(file, c)
    BY <2>1, LoadIsRight
  <2>3. c.ok \in BOOLEAN /\ Acceptable(file) \in BOOLEAN
    BY <2>2 DEF Accs, Acceptable
  <2> HIDE DEF c
  <2>4. c.ok = Acceptable(file)
    BY <2>2, <2>3
  <2> QED
    BY <2>2, <2>4 DEF c
<1> QED
  BY <1>1, PTL

LEMMA OutcomeTyped ==
  ASSUME NEW file \in Files
  PROVE  Outcome(load_config(file))
           \in [ok : BOOLEAN, mode : {"Threads", "Select"}, tls : BOOLEAN]
<1> DEFINE c == load_config(file)
<1>1. c \in Accs
  BY FilesAssumption, LoadIsRight
<1>2. UsesTls(c.setting) \in BOOLEAN
  BY DEF UsesTls
<1> HIDE DEF c
<1> QED
  BY <1>1, <1>2 DEF Outcome, Accs, c

(***************************************************************************)
(* What the invariant gives.                                                *)
(***************************************************************************)
\* Every variable of run() and of its threads is well typed, config included, which is
\* what load_config made of a file; one byte at most is in the shutdown pipe.
THEOREM TypeCorrect == Spec => []TypeOK
<1> DEFINE Configured == config \in [ok : BOOLEAN, mode : {"Threads", "Select"}, tls : BOOLEAN]
<1>1. Init => Configured
  BY OutcomeTyped DEF Init
<1>2. Configured /\ RInv /\ [Next]_vars => Configured'
  <2> SUFFICES ASSUME [Next]_vars PROVE UNCHANGED config
    OBVIOUS
  <2> QED
    BY DEF Next, vars, system, Main, NoConfigFile, LoadConfig, Listen, MakePipe, PipeFails, StartTls,
           StartMgmt, CloseServer, CloseTls, JoinTls, ClosePipeRead, ClosePipeWrite, JoinMgmt, Exit,
           LoopsReturn, LoopsFail, Mgmt, MgmtShutdown, MgmtEof, MgmtWrite, Acceptor, Woken,
           AcceptCall, AcceptFails, AcceptTls, Connect, Connection, OpenBody, CloseBody,
           CloseConnection
<1>3. Configured /\ RInv => TypeOK
  BY DEF RInv, Types, TypeOK, Kinds, Numbers, Early, TlsClosed, TlsJoined, ReadClosed, WriteClosed
<1> HIDE DEF Configured
<1> QED
  BY InitRInv, NextRInv, <1>1, <1>2, <1>3, PTL DEF Spec

\* On whichever path run() comes to its return, also where start-up has failed halfway,
\* each descriptor it opened was closed once, none of those that its detached TLS
\* connections use was closed in its place, and the threads it can join are over.
THEOREM ReturnsClean == Spec => []ReturnedClean
<1>1. RInv => ReturnedClean
  <2> SUFFICES ASSUME RInv, main = "returned"
               PROVE  /\ {n \in Fds : fds[n] # "free"}
                           = ({cfd[c] : c \in Clients} \cup {body_fd[c] : c \in Clients}) \ {0}
                      /\ mgmt \in {"none", "exited"} /\ acceptor \in {"none", "ended"}
    BY DEF ReturnedClean
  <2> USE DEF TlsClosed, TlsJoined, ReadClosed, WriteClosed
  <2>1. \A n \in Fds : fds[n] \in {"free", "client", "body"}
    <3>1. server_fd = 0 /\ \A n \in Fds : fds[n] \in Kinds /\ n # 0
      BY FdsAssumption DEF RInv, Types, MainsNumbers
    <3> QED
      BY <3>1 DEF RInv, MainsTable, Kinds
  <2>2. \A n \in Fds : fds[n] # "free" <=> \E c \in Clients : cfd[c] = n \/ body_fd[c] = n
    BY <2>1 DEF RInv, ClientsTable
  <2>3. \A c \in Clients : cfd[c] \in Fds \cup {0} /\ body_fd[c] \in Fds \cup {0}
    BY DEF RInv, Types, Numbers
  <2>4. 0 \notin Fds
    BY FdsAssumption
  <2> QED
    BY <2>2, <2>3, <2>4 DEF RInv, Joined
<1> QED
  BY InitRInv, NextRInv, <1>1, PTL DEF Spec
=============================================================================
