-------------------------- MODULE EventLoopProofs --------------------------
(***************************************************************************)
(* Proofs about EventLoop, for any connections, any number of event loops   *)
(* and any size of the wake buffer, on both kinds of pollers.               *)
(***************************************************************************)
EXTENDS EventLoop, FiniteSetTheorems, TLAPS

\* The management thread has not written before it exits; accept() follows a select()
\* that saw a connection; client_fd is set between accept() and the push.
AcceptorInv ==
  /\ mgmtPc # "exited" => pipe = 0
  /\ accPc = "accept" => backlog # <<>>
  /\ accPc = "push" <=> accConn # NoConn

\* A worker has bytes to act on exactly while it takes; the others never start.
WorkersInv ==
  /\ \A w \in Workers \ loops : wpc[w] = "poll"
  /\ \A w \in Workers : wpc[w] = "take" <=> tokens[w] > 0

\* Without a wake pipe nobody was started.
StartedInv == loops = {} => accPc = "exited" /\ wakePipe = 0

\* A pending connection has no second place either.
BacklogInv ==
  /\ \A i, j \in DOMAIN backlog : backlog[i] = backlog[j] => i = j
  /\ \A i \in DOMAIN backlog :
       /\ backlog[i] # accConn /\ backlog[i] \notin closed
       /\ \A j \in DOMAIN queue : queue[j] # backlog[i]
       /\ \A w \in Workers : backlog[i] \notin conns[w]

Stopping(w) == wpc[w] \in {"read_shutdown", "exited"}

\* Bytes in an edge-triggered wake pipe are known to a worker: it has the edge before
\* it, or it is reading and stops only at EAGAIN.
Alert ==
  edgeTriggered /\ wakePipe > 0 /\ (\A w \in loops : ~Stopping(w)) =>
    \E w \in loops : wakeEdge[w] \/ wpc[w] \in {"drain", "take"}

\* The inductive invariant.
IInv ==
  /\ TypeOK /\ AcceptorInv /\ WorkersInv /\ StartedInv /\ BacklogInv /\ Alert
  /\ ConnectionOwnedOnce /\ WakeBytesMatchQueue

USE NoConnAssumption, WorkersAssumption, WakeBatchAssumption

LEMMA TailFacts ==
  ASSUME NEW S, NEW q \in Seq(S), q # <<>>
  PROVE  /\ Head(q) \in S /\ Head(q) = q[1]
         /\ Tail(q) \in Seq(S) /\ Len(q) \in Nat /\ Len(q) > 0 /\ Len(Tail(q)) = Len(q) - 1
         /\ DOMAIN q = 1..Len(q) /\ DOMAIN Tail(q) = 1..Len(Tail(q))
         /\ \A i \in 1..Len(Tail(q)) : i + 1 \in 1..Len(q) /\ Tail(q)[i] = q[i + 1]
OBVIOUS

LEMMA AppendFacts ==
  ASSUME NEW S, NEW q \in Seq(S), NEW x \in S
  PROVE  /\ Append(q, x) \in Seq(S) /\ Len(q) \in Nat /\ Len(Append(q, x)) = Len(q) + 1
         /\ DOMAIN q = 1..Len(q) /\ DOMAIN Append(q, x) = 1..(Len(q) + 1)
         /\ \A i \in 1..Len(q) : Append(q, x)[i] = q[i]
         /\ Append(q, x)[Len(q) + 1] = x
OBVIOUS

\* One read() returns what is in the pipe, or a full buffer.
LEMMA BatchFacts ==
  ASSUME NEW k \in Nat
  PROVE  /\ Min({k, WakeBatch}) \in Nat
         /\ Min({k, WakeBatch}) <= k /\ Min({k, WakeBatch}) <= WakeBatch
         /\ Min({k, WakeBatch}) > 0 <=> k > 0
<1> DEFINE IsMin(m) == m \in {k, WakeBatch} /\ \A y \in {k, WakeBatch} : m =< y
<1>1. \E m \in {k, WakeBatch} : \A y \in {k, WakeBatch} : m =< y
  BY WakeBatchAssumption
<1>2. IsMin(Min({k, WakeBatch}))
  BY <1>1 DEF Min
<1> QED
  BY <1>2, WakeBatchAssumption

\* After a write every poller has the edge, or what was in the pipe before and the
\* edges stay.
LEMMA EdgesFacts ==
  ASSUME NEW edge \in [Workers -> BOOLEAN], NEW k \in Nat, NEW e \in Edges(edge, k)
  PROVE  /\ e \in [Workers -> BOOLEAN]
         /\ (\A w \in Workers : e[w]) \/ (e = edge /\ k > 0)
<1>1. CASE e = [w \in Workers |-> TRUE]
  BY <1>1
<1>2. CASE k > 0 /\ e = edge
  BY <1>2
<1> QED
  BY <1>1, <1>2 DEF Edges

\* Initially everything is empty.
LEMMA InitIInv == Init => IInv
<1> SUFFICES ASSUME Init PROVE IInv
  OBVIOUS
<1>1. TypeOK
  BY DEF Init, Started, WakePipeFails, TypeOK
<1>2. AcceptorInv /\ Alert /\ StartedInv
  BY DEF Init, Started, WakePipeFails, AcceptorInv, Alert, StartedInv
<1>5. WorkersInv
  <2>1. \A w \in Workers : wpc[w] = "poll" /\ tokens[w] = 0
    BY DEF Init
  <2> QED
    BY <2>1 DEF WorkersInv
<1>4. BacklogInv /\ ConnectionOwnedOnce
  <2>1. DOMAIN backlog = {} /\ DOMAIN queue = {} /\ \A w \in Workers : conns[w] = {}
    BY DEF Init
  <2> QED
    BY <2>1 DEF Init, BacklogInv, ConnectionOwnedOnce
<1>3. WakeBytesMatchQueue
  <2>1. Due = {}
    BY DEF Init, Due
  <2> QED
    BY <2>1, FS_EmptySet DEF Init, Started, WakePipeFails, WakeBytesMatchQueue
<1> QED
  BY <1>1, <1>2, <1>3, <1>4, <1>5 DEF IInv

\* Every step keeps the types; accept() finds a pending connection, and one byte at most
\* goes into the shutdown pipe.
LEMMA TypeStep == IInv /\ [Next]_vars => TypeOK'
<1> SUFFICES ASSUME IInv, [Next]_vars PROVE TypeOK'
  OBVIOUS
<1> USE DEF IInv, TypeOK, build, acceptor, pollers, mgmt
<1>1. ASSUME NEW c \in Conns, Connect(c) PROVE TypeOK'
  BY <1>1, AppendFacts DEF Connect
<1>2. CASE MgmtShutdown
  BY <1>2 DEF MgmtShutdown
<1>3. CASE MgmtWrite
  <2>1. stopEdge' \in Edges(stopEdge, pipe) /\ pipe \in Nat /\ stopEdge \in [Workers -> BOOLEAN]
    BY <1>3 DEF MgmtWrite
  <2>2. stopEdge' \in [Workers -> BOOLEAN]
    BY <2>1, EdgesFacts
  <2> QED
    BY <1>3, <2>2 DEF MgmtWrite, AcceptorInv
<1>4. CASE MgmtEof
  BY <1>4 DEF MgmtEof
<1>5. CASE AcceptorReady
  BY <1>5 DEF AcceptorReady
<1>6. CASE AcceptorSeesShutdown
  BY <1>6 DEF AcceptorSeesShutdown
<1>7. CASE AcceptorReadsShutdown
  BY <1>7 DEF AcceptorReadsShutdown
<1>8. CASE AcceptorAccept
  <2>1. backlog # <<>> /\ backlog \in Seq(Conns)
    BY <1>8 DEF AcceptorAccept, AcceptorInv
  <2>2. Head(backlog) \in Conns /\ Tail(backlog) \in Seq(Conns)
    BY <2>1, TailFacts
  <2> QED
    BY <1>8, <2>2 DEF AcceptorAccept
<1>9. CASE AcceptorPush
  BY <1>9, AppendFacts DEF AcceptorPush, AcceptorInv
<1>10. CASE AcceptorWake
  <2>1. wakeEdge' \in Edges(wakeEdge, wakePipe)
    BY <1>10 DEF AcceptorWake
  <2>2. wakeEdge' \in [Workers -> BOOLEAN]
    BY <2>1, EdgesFacts
  <2> QED
    BY <1>10, <2>2 DEF AcceptorWake
<1>11. CASE AcceptorSelectError
  BY <1>11 DEF AcceptorSelectError
<1>12. CASE MainReturn
  BY <1>12 DEF MainReturn
<1>13. ASSUME NEW w \in loops, Poll(w) PROVE TypeOK'
  BY <1>13 DEF Poll, StopReady, WakeReady
<1>14. ASSUME NEW w \in loops, Drain(w) PROVE TypeOK'
  <2>1. \E n \in Nat : /\ n <= wakePipe /\ n <= WakeBatch
                     /\ wakePipe' = wakePipe - n /\ tokens' = [tokens EXCEPT ![w] = n]
    BY <1>14, BatchFacts DEF Drain
  <2> QED
    BY <1>14, <2>1, WakeBatchAssumption DEF Drain
<1>15. ASSUME NEW w \in loops, TryAccept(w) PROVE TypeOK'
  <2>1. tokens[w] \in 1..WakeBatch
    BY <1>15 DEF TryAccept, WorkersInv
  <2>2. tokens' \in [Workers -> 0..WakeBatch]
    BY <1>15, <2>1, WakeBatchAssumption DEF TryAccept, NextToken
  <2>3. queue' \in Seq(Conns) /\ conns' \in [Workers -> SUBSET Conns]
    <3>0. queue \in Seq(Conns) /\ conns \in [Workers -> SUBSET Conns]
      OBVIOUS
    <3>1. queue # <<>> => Head(queue) \in Conns /\ Tail(queue) \in Seq(Conns)
      BY <3>0, TailFacts
    <3> HIDE DEF IInv, TypeOK
    <3> QED
      BY <1>15, <3>0, <3>1 DEF TryAccept
  <2> QED
    BY <1>15, <2>2, <2>3 DEF TryAccept, NextToken
<1>16. ASSUME NEW w \in loops, Dispatch(w) PROVE TypeOK'
  BY <1>16 DEF Dispatch
<1>17. ASSUME NEW w \in loops, ReadShutdown(w) PROVE TypeOK'
  BY <1>17 DEF ReadShutdown
<1>18. CASE UNCHANGED vars
  BY <1>18 DEF vars
<1> QED
  BY <1>1, <1>2, <1>3, <1>4, <1>5, <1>6, <1>7, <1>8, <1>9, <1>10, <1>11, <1>12,
     <1>13, <1>14, <1>15, <1>16, <1>17, <1>18 DEF Next, Acceptor, Worker

\* The pipe is written once; accept() follows a select() that reported the listen socket,
\* and only the acceptor removes from the backlog.
LEMMA AcceptorStep == IInv /\ [Next]_vars => AcceptorInv'
<1> SUFFICES ASSUME IInv, [Next]_vars PROVE AcceptorInv'
  OBVIOUS
<1> USE DEF IInv, AcceptorInv, build, acceptor, pollers, mgmt
<1>1. ASSUME NEW c \in Conns, Connect(c) PROVE AcceptorInv'
  <2>1. backlog' # <<>>
    <3>1. backlog \in Seq(Conns) /\ backlog' = Append(backlog, c)
      BY <1>1 DEF Connect, TypeOK
    <3> QED
      BY <3>1
  <2> QED
    BY <1>1, <2>1 DEF Connect
<1>2. CASE AcceptorAccept
  <2>1. backlog # <<>> /\ backlog \in Seq(Conns)
    BY <1>2 DEF AcceptorAccept, TypeOK
  <2>2. Head(backlog) \in Conns
    BY <2>1, TailFacts
  <2> QED
    BY <1>2, <2>2 DEF AcceptorAccept
<1>3. CASE MgmtShutdown \/ MgmtWrite \/ MgmtEof
  BY <1>3 DEF MgmtShutdown, MgmtWrite, MgmtEof
<1>4. CASE AcceptorReady \/ AcceptorSeesShutdown \/ AcceptorReadsShutdown
  BY <1>4 DEF AcceptorReady, AcceptorSeesShutdown, AcceptorReadsShutdown, TypeOK
<1>5. CASE AcceptorPush \/ AcceptorWake \/ AcceptorSelectError
  BY <1>5 DEF AcceptorPush, AcceptorWake, AcceptorSelectError
<1>6. ASSUME NEW w \in loops, Worker(w) PROVE AcceptorInv'
  BY <1>6 DEF Worker, Poll, Drain, TryAccept, Dispatch, ReadShutdown, TypeOK
<1>7. CASE MainReturn \/ UNCHANGED vars
  BY <1>7 DEF MainReturn, vars
<1> QED
  BY <1>1, <1>2, <1>3, <1>4, <1>5, <1>6, <1>7 DEF Next, Acceptor

\* A worker leaves "take" with its last token.
LEMMA WorkersStep == IInv /\ [Next]_vars => WorkersInv'
<1> SUFFICES ASSUME IInv, [Next]_vars PROVE WorkersInv'
  OBVIOUS
<1>0. TypeOK /\ WorkersInv
  BY DEF IInv
<1> USE DEF build, acceptor, pollers, mgmt
<1>1. CASE UNCHANGED <<loops, wpc, tokens>>
  BY <1>0, <1>1 DEF WorkersInv
<1>2. ASSUME NEW w \in loops, Drain(w) PROVE WorkersInv'
  <2>1. PICK n \in Nat : /\ tokens' = [tokens EXCEPT ![w] = n]
                         /\ wpc' = [wpc EXCEPT ![w] = IF n > 0 THEN "take" ELSE "dispatch"]
    BY <1>0, <1>2, BatchFacts DEF Drain, TypeOK
  <2> QED
    BY <1>0, <1>2, <2>1 DEF Drain, WorkersInv, TypeOK
<1>3. ASSUME NEW w \in loops, TryAccept(w) PROVE WorkersInv'
  <2>1. tokens[w] \in Nat /\ tokens[w] > 0
    BY <1>0, <1>3 DEF TryAccept, WorkersInv, TypeOK
  <2> QED
    BY <1>0, <1>3, <2>1 DEF TryAccept, NextToken, WorkersInv, TypeOK
<1>4. ASSUME NEW w \in loops, Poll(w) \/ Dispatch(w) \/ ReadShutdown(w) PROVE WorkersInv'
  BY <1>0, <1>4 DEF Poll, Dispatch, ReadShutdown, WorkersInv, TypeOK
<1>5. \/ UNCHANGED <<loops, wpc, tokens>>
      \/ \E w \in loops : Worker(w)
  BY DEF Next, Acceptor, Connect, MgmtShutdown, MgmtWrite, MgmtEof, AcceptorReady,
         AcceptorSeesShutdown, AcceptorReadsShutdown, AcceptorAccept, AcceptorPush, AcceptorWake,
         AcceptorSelectError, MainReturn, vars
<1> QED
  BY <1>1, <1>2, <1>3, <1>4, <1>5 DEF Worker

\* Nobody is started later, and without an acceptor and workers no byte is written.
LEMMA StartedStep == IInv /\ [Next]_vars => StartedInv'
<1> SUFFICES ASSUME IInv, [Next]_vars, loops = {} PROVE accPc' = "exited" /\ wakePipe' = 0
  BY DEF Next, Acceptor, Connect, MgmtShutdown, MgmtWrite, MgmtEof, AcceptorReady,
         AcceptorSeesShutdown, AcceptorReadsShutdown, AcceptorAccept, AcceptorPush, AcceptorWake,
         AcceptorSelectError, MainReturn, Worker, Poll, Drain, TryAccept, Dispatch, ReadShutdown,
         vars, build, StartedInv
<1>1. accPc = "exited" /\ wakePipe = 0
  BY DEF IInv, StartedInv
<1> QED
  BY <1>1 DEF Next, Acceptor, Connect, MgmtShutdown, MgmtWrite, MgmtEof, AcceptorReady,
              AcceptorSeesShutdown, AcceptorReadsShutdown, AcceptorAccept, AcceptorPush,
              AcceptorWake, AcceptorSelectError, MainReturn, vars, acceptor

\* A connection moves from the backlog to client_fd, to the queue, to the map of the
\* worker that popped it, and is closed once.
LEMMA PlacesStep == IInv /\ [Next]_vars => BacklogInv' /\ ConnectionOwnedOnce'
<1> SUFFICES ASSUME IInv, [Next]_vars PROVE BacklogInv' /\ ConnectionOwnedOnce'
  OBVIOUS
<1>0. TypeOK /\ AcceptorInv /\ BacklogInv /\ ConnectionOwnedOnce
  BY DEF IInv
<1> USE DEF build, acceptor, pollers, mgmt
<1>1. CASE UNCHANGED <<backlog, queue, accConn, closed, conns>>
  BY <1>0, <1>1 DEF BacklogInv, ConnectionOwnedOnce
<1>2. ASSUME NEW c \in Conns, Connect(c) PROVE BacklogInv' /\ ConnectionOwnedOnce'
  <2>1. /\ DOMAIN backlog = 1..Len(backlog) /\ DOMAIN backlog' = 1..(Len(backlog) + 1)
        /\ \A i \in 1..Len(backlog) : backlog'[i] = backlog[i]
        /\ backlog'[Len(backlog) + 1] = c /\ Len(backlog) \in Nat
    BY <1>0, <1>2, AppendFacts DEF Connect, TypeOK
  <2>2. ~Seen(c) /\ UNCHANGED <<queue, accConn, closed, conns>>
    BY <1>2 DEF Connect
  <2> QED
    BY <1>0, <2>1, <2>2 DEF BacklogInv, ConnectionOwnedOnce, Seen
<1>3. CASE AcceptorAccept
  <2>1. CASE UNCHANGED <<accConn, backlog>>
    BY <1>1, <1>3, <2>1 DEF AcceptorAccept
  <2>2. CASE accConn' = Head(backlog) /\ backlog' = Tail(backlog)
    <3>1. backlog # <<>> /\ backlog \in Seq(Conns)
      BY <1>0, <1>3 DEF AcceptorAccept, AcceptorInv, TypeOK
    <3>2. /\ accConn' = backlog[1] /\ 1 \in DOMAIN backlog
          /\ \A i \in DOMAIN backlog' : i + 1 \in DOMAIN backlog /\ backlog'[i] = backlog[i + 1]
          /\ \A i \in DOMAIN backlog' : i \in Nat /\ i + 1 # 1
          /\ \A i, j \in DOMAIN backlog' : i + 1 = j + 1 => i = j
      BY <2>2, <3>1, TailFacts
    <3>3. UNCHANGED <<queue, closed, conns>>
      BY <1>3 DEF AcceptorAccept
    <3> QED
      BY <1>0, <3>2, <3>3 DEF BacklogInv, ConnectionOwnedOnce
  <2> QED
    BY <1>3, <2>1, <2>2 DEF AcceptorAccept
<1>4. CASE AcceptorPush
  <2>1. accConn \in Conns /\ accConn' = NoConn /\ queue' = Append(queue, accConn)
    BY <1>0, <1>4 DEF AcceptorPush, AcceptorInv, TypeOK
  <2>2. /\ DOMAIN queue = 1..Len(queue) /\ DOMAIN queue' = 1..(Len(queue) + 1)
        /\ \A i \in 1..Len(queue) : queue'[i] = queue[i]
        /\ queue'[Len(queue) + 1] = accConn /\ Len(queue) \in Nat
    BY <1>0, <2>1, AppendFacts DEF TypeOK
  <2>3. UNCHANGED <<backlog, closed, conns>>
    BY <1>4 DEF AcceptorPush
  <2>4. \A i \in DOMAIN queue' : queue'[i] \in Conns
    BY <1>0, <2>1, <2>2 DEF TypeOK
  <2>5. \A i \in DOMAIN backlog : backlog[i] \in Conns
    BY <1>0 DEF TypeOK
  <2>6. BacklogInv'
    BY <1>0, <2>1, <2>2, <2>3, <2>5 DEF BacklogInv
  <2>7. ConnectionOwnedOnce'
    BY <1>0, <2>1, <2>2, <2>3, <2>4 DEF ConnectionOwnedOnce
  <2> QED
    BY <2>6, <2>7
<1>5. ASSUME NEW w \in loops, TryAccept(w) PROVE BacklogInv' /\ ConnectionOwnedOnce'
  <2>1. CASE UNCHANGED <<queue, conns>>
    BY <1>1, <1>5, <2>1 DEF TryAccept
  <2>2. CASE /\ queue # <<>> /\ queue' = Tail(queue)
             /\ conns' = [conns EXCEPT ![w] = @ \cup {Head(queue)}]
    <3>1. /\ Head(queue) = queue[1] /\ 1 \in DOMAIN queue /\ Head(queue) \in Conns
          /\ \A i \in DOMAIN queue' : i + 1 \in DOMAIN queue /\ queue'[i] = queue[i + 1]
          /\ \A i \in DOMAIN queue' : i \in Nat /\ i + 1 # 1
          /\ \A i, j \in DOMAIN queue' : i + 1 = j + 1 => i = j
      BY <1>0, <2>2, TailFacts DEF TypeOK
    <3>2. \A v \in Workers : \A c : c \in conns'[v] <=> c \in conns[v] \/ (v = w /\ c = queue[1])
      BY <1>0, <2>2, <3>1 DEF TypeOK
    <3>3. UNCHANGED <<backlog, accConn, closed>>
      BY <1>5 DEF TryAccept
    <3>4. BacklogInv'
      BY <1>0, <3>1, <3>2, <3>3 DEF BacklogInv
    <3>5. ConnectionOwnedOnce'
      BY <1>0, <3>1, <3>2, <3>3 DEF ConnectionOwnedOnce
    <3> QED
      BY <3>4, <3>5
  <2> QED
    BY <1>5, <2>1, <2>2 DEF TryAccept
<1>6. ASSUME NEW w \in loops, Dispatch(w) \/ ReadShutdown(w)
      PROVE  BacklogInv' /\ ConnectionOwnedOnce'
  <2>1. PICK removed \in SUBSET conns[w] :
          conns' = [conns EXCEPT ![w] = @ \ removed] /\ closed' = closed \cup removed
    <3>1. CASE Dispatch(w)
      BY <3>1 DEF Dispatch
    <3>2. CASE ReadShutdown(w)
      <4>1. conns' = [conns EXCEPT ![w] = @ \ conns[w]] /\ closed' = closed \cup conns[w]
        BY <1>0, <3>2 DEF ReadShutdown, TypeOK
      <4> QED
        BY <4>1
    <3> QED
      BY <1>6, <3>1, <3>2
  <2>2. \A v \in Workers : \A c : c \in conns'[v] <=> c \in conns[v] /\ ~(v = w /\ c \in removed)
    BY <1>0, <2>1 DEF TypeOK
  <2>3. UNCHANGED <<backlog, accConn, queue>>
    BY <1>6 DEF Dispatch, ReadShutdown
  <2>4. w \in Workers
    BY <1>0 DEF TypeOK
  <2>5. BacklogInv'
    BY <1>0, <2>1, <2>2, <2>3, <2>4 DEF BacklogInv
  <2>6. ConnectionOwnedOnce'
    BY <1>0, <2>1, <2>2, <2>3, <2>4 DEF ConnectionOwnedOnce
  <2> QED
    BY <2>5, <2>6
<1>7. \/ UNCHANGED <<backlog, queue, accConn, closed, conns>>
      \/ (\E c \in Conns : Connect(c)) \/ AcceptorAccept \/ AcceptorPush
      \/ \E w \in loops : TryAccept(w) \/ Dispatch(w) \/ ReadShutdown(w)
  BY DEF Next, Acceptor, Worker, MgmtShutdown, MgmtWrite, MgmtEof, AcceptorReady,
         AcceptorSeesShutdown, AcceptorReadsShutdown, AcceptorWake, AcceptorSelectError,
         Poll, Drain, MainReturn, vars
<1> QED
  BY <1>1, <1>2, <1>3, <1>4, <1>5, <1>6, <1>7

\* A byte written to an empty pipe wakes every poller, and whoever has taken the edge
\* reads until EAGAIN: no byte is left with all workers asleep.
LEMMA AlertStep == IInv /\ [Next]_vars => Alert'
<1> SUFFICES ASSUME IInv, [Next]_vars PROVE Alert'
  OBVIOUS
<1>0. TypeOK /\ StartedInv /\ Alert
  BY DEF IInv
<1> USE DEF build, acceptor, pollers, mgmt
<1>1. CASE UNCHANGED <<build, wakePipe, wpc, wakeEdge>>
  BY <1>0, <1>1 DEF Alert, Stopping
<1>2. CASE AcceptorWake
  <2>1. wakeEdge' \in Edges(wakeEdge, wakePipe) /\ UNCHANGED <<build, wpc>>
    BY <1>2 DEF AcceptorWake
  <2>2. (\A w \in Workers : wakeEdge'[w]) \/ (wakeEdge' = wakeEdge /\ wakePipe > 0)
    BY <1>0, <2>1, EdgesFacts DEF TypeOK
  <2>3. loops # {} /\ loops \subseteq Workers
    BY <1>0, <1>2 DEF AcceptorWake, StartedInv, TypeOK
  <2> QED
    BY <1>0, <2>1, <2>2, <2>3 DEF Alert, Stopping
<1>3. ASSUME NEW w \in loops, Poll(w) PROVE Alert'
  <2> SUFFICES ASSUME edgeTriggered', wakePipe' > 0, \A v \in loops' : ~Stopping(v)'
               PROVE  \E v \in loops' : wakeEdge'[v] \/ wpc'[v] \in {"drain", "take"}
    BY DEF Alert
  <2>1. /\ UNCHANGED <<build, wakePipe>> /\ w \in Workers /\ wpc[w] = "poll"
        /\ wpc'[w] = IF StopReady(w) THEN "read_shutdown"
                     ELSE IF WakeReady(w) THEN "drain" ELSE "dispatch"
        /\ \A v \in Workers \ {w} : wpc'[v] = wpc[v] /\ wakeEdge'[v] = wakeEdge[v]
    BY <1>0, <1>3 DEF Poll, TypeOK
  <2>2. ~StopReady(w)
    BY <2>1 DEF Stopping
  <2>3. \A v \in loops : ~Stopping(v)
    BY <1>0, <2>1 DEF Stopping, TypeOK
  <2>4. PICK v \in loops : wakeEdge[v] \/ wpc[v] \in {"drain", "take"}
    BY <1>0, <2>1, <2>3 DEF Alert
  <2>5. CASE v = w
    <3>1. wakeEdge[w] /\ wpc'[w] = "drain"
      BY <2>1, <2>2, <2>4, <2>5 DEF WakeReady
    <3> QED
      BY <2>1, <3>1
  <2>6. CASE v # w
    BY <1>0, <2>1, <2>4, <2>6 DEF TypeOK
  <2> QED
    BY <2>5, <2>6
<1>4. ASSUME NEW w \in loops, Drain(w) PROVE Alert'
  <2>1. PICK n \in Nat :
          /\ n > 0 <=> wakePipe > 0
          /\ wakePipe' = wakePipe - n
          /\ wpc' = [wpc EXCEPT ![w] = IF n > 0 THEN "take" ELSE "dispatch"]
    BY <1>0, <1>4, BatchFacts DEF Drain, TypeOK
  <2>2. UNCHANGED build
    BY <1>4 DEF Drain
  <2>3. wakePipe' > 0 => wpc'[w] = "take"
    BY <1>0, <2>1 DEF TypeOK
  <2> QED
    BY <2>2, <2>3 DEF Alert
<1>5. ASSUME NEW w \in loops, TryAccept(w) PROVE Alert'
  <2>1. UNCHANGED build /\ wpc'[w] \in {"drain", "take"}
    BY <1>0, <1>5 DEF TryAccept, NextToken, TypeOK
  <2> QED
    BY <2>1 DEF Alert
<1>6. ASSUME NEW w \in loops, Dispatch(w) PROVE Alert'
  <2>1. /\ UNCHANGED <<build, wakePipe, wakeEdge>> /\ wpc[w] = "dispatch" /\ wpc'[w] = "poll"
        /\ \A v \in Workers \ {w} : wpc'[v] = wpc[v]
    BY <1>0, <1>6 DEF Dispatch, TypeOK
  <2>2. \A v \in loops : (Stopping(v)' <=> Stopping(v))
                      /\ (wpc[v] \in {"drain", "take"} => wpc'[v] \in {"drain", "take"})
    BY <1>0, <2>1 DEF Stopping, TypeOK
  <2> QED
    BY <1>0, <2>1, <2>2 DEF Alert
<1>7. ASSUME NEW w \in loops, ReadShutdown(w) PROVE Alert'
  <2>1. UNCHANGED build /\ wpc'[w] = "exited"
    BY <1>0, <1>7 DEF ReadShutdown, TypeOK
  <2> QED
    BY <2>1 DEF Alert, Stopping
<1>8. \/ UNCHANGED <<build, wakePipe, wpc, wakeEdge>> \/ AcceptorWake
      \/ \E w \in loops : Worker(w)
  BY DEF Next, Acceptor, Connect, MgmtShutdown, MgmtWrite, MgmtEof, AcceptorReady,
         AcceptorSeesShutdown, AcceptorReadsShutdown, AcceptorAccept, AcceptorPush,
         AcceptorSelectError, MainReturn, vars
<1> QED
  BY <1>1, <1>2, <1>3, <1>4, <1>5, <1>6, <1>7, <1>8 DEF Worker

\* The bytes of one batch.
LEMMA Column ==
  ASSUME NEW w, NEW n \in Nat
  PROVE  IsFiniteSet({w} \X (1..n)) /\ Cardinality({w} \X (1..n)) = n
<1>1. IsFiniteSet({w}) /\ Cardinality({w}) = 1
  BY FS_Singleton
<1>2. IsFiniteSet(1..n) /\ Cardinality(1..n) = n
  BY FS_Interval
<1>3. /\ IsFiniteSet({w} \X (1..n))
      /\ Cardinality({w} \X (1..n)) = Cardinality({w}) * Cardinality(1..n)
  BY <1>1, <1>2, FS_Product, Zenon
<1>4. 1 * n = n
  OBVIOUS
<1> QED
  BY <1>1, <1>2, <1>3, <1>4, Zenon

LEMMA DueFinite == IsFiniteSet(Due)
<1>1. IsFiniteSet(Workers) /\ IsFiniteSet(1..WakeBatch)
  BY FS_Interval
<1>2. IsFiniteSet(Workers \X (1..WakeBatch))
  BY <1>1, FS_Product, Zenon
<1> QED
  BY <1>2, FS_Subset DEF Due

\* Writing, reading and acting on a wake byte keep the balance, and the pop under
\* queue_mutex finds a connection.
LEMMA WakeBytesStep == IInv /\ [Next]_vars => WakeBytesMatchQueue'
<1> SUFFICES ASSUME IInv, [Next]_vars PROVE WakeBytesMatchQueue'
  OBVIOUS
<1>0. TypeOK /\ AcceptorInv /\ WorkersInv /\ WakeBytesMatchQueue
  BY DEF IInv
<1>c. Cardinality(Due) \in Nat /\ IsFiniteSet(Due)
  BY DueFinite, FS_CardinalityType
<1>q. queue \in Seq(Conns) /\ Len(queue) \in Nat /\ wakePipe \in Nat /\ loops \subseteq Workers
  BY <1>0 DEF TypeOK
<1> USE DEF build, acceptor, pollers, mgmt
<1>1. CASE UNCHANGED <<queue, wakePipe, tokens>> /\ (accPc' = "wake" <=> accPc = "wake")
  BY <1>0, <1>1 DEF WakeBytesMatchQueue, Due
<1>2. CASE AcceptorPush
  <2>1. /\ Len(queue') = Len(queue) + 1 /\ UNCHANGED <<wakePipe, tokens>>
        /\ accPc = "push" /\ accPc' = "wake"
    BY <1>0, <1>2, <1>q, AppendFacts DEF AcceptorPush, AcceptorInv, TypeOK
  <2> QED
    BY <1>0, <1>c, <1>q, <2>1 DEF WakeBytesMatchQueue, Due
<1>3. CASE AcceptorWake
  <2>1. /\ wakePipe' = wakePipe + 1 /\ UNCHANGED <<queue, tokens>>
        /\ accPc = "wake" /\ accPc' = "select"
    BY <1>3 DEF AcceptorWake
  <2> QED
    BY <1>0, <1>c, <1>q, <2>1 DEF WakeBytesMatchQueue, Due
<1>4. ASSUME NEW w \in loops, Drain(w) PROVE WakeBytesMatchQueue'
  <2>1. PICK n \in Nat : /\ n <= wakePipe /\ n <= WakeBatch
                         /\ wakePipe' = wakePipe - n /\ tokens' = [tokens EXCEPT ![w] = n]
    BY <1>4, <1>q, BatchFacts DEF Drain
  <2>2. UNCHANGED <<queue, accPc>> /\ tokens[w] = 0 /\ w \in Workers
    BY <1>0, <1>4 DEF Drain, WorkersInv, TypeOK
  <2>3. Due' = Due \cup ({w} \X (1..n)) /\ Due \cap ({w} \X (1..n)) = {}
    BY <1>0, <2>1, <2>2 DEF Due, TypeOK
  <2>4. Cardinality(Due') = Cardinality(Due) + n
    <3>1. IsFiniteSet({w} \X (1..n)) /\ Cardinality({w} \X (1..n)) = n
      BY Column, Zenon
    <3> DEFINE C == {w} \X (1..n)
    <3> HIDE DEF C
    <3>2. Cardinality(Due \cup C) = Cardinality(Due) + Cardinality(C) - Cardinality(Due \cap C)
      BY <1>c, <3>1, FS_Union, Zenon DEF C
    <3>3. Cardinality(Due \cap C) = 0 /\ Cardinality(C) = n
      BY <2>3, <3>1, FS_EmptySet DEF C
    <3> QED
      BY <1>c, <2>3, <3>2, <3>3 DEF C
  <2> QED
    BY <1>0, <1>c, <1>q, <2>1, <2>2, <2>4 DEF WakeBytesMatchQueue
<1>5. ASSUME NEW w \in loops, TryAccept(w) PROVE WakeBytesMatchQueue'
  <2>1. w \in Workers /\ tokens[w] \in 1..WakeBatch /\ UNCHANGED <<wakePipe, accPc>>
    BY <1>0, <1>5 DEF TryAccept, WorkersInv, TypeOK
  <2>2. <<w, tokens[w]>> \in Due /\ Due' = Due \ {<<w, tokens[w]>>}
    BY <1>0, <1>5, <2>1 DEF TryAccept, NextToken, Due, TypeOK
  <2>3. Cardinality(Due') = Cardinality(Due) - 1
    BY <1>c, <2>2, FS_RemoveElement
  <2>4. Cardinality(Due) > 0
    BY <1>c, <2>2, FS_EmptySet
  <2>5. Len(queue) > 0
    BY <1>0, <1>c, <1>q, <2>4 DEF WakeBytesMatchQueue
  <2>6. Len(queue') = Len(queue) - 1
    BY <1>5, <1>q, <2>5, TailFacts DEF TryAccept
  <2> QED
    BY <1>0, <1>c, <1>q, <2>1, <2>3, <2>6 DEF WakeBytesMatchQueue
<1>6. \/ UNCHANGED <<queue, wakePipe, tokens>> /\ (accPc' = "wake" <=> accPc = "wake")
      \/ AcceptorPush \/ AcceptorWake \/ \E w \in loops : Drain(w) \/ TryAccept(w)
  BY DEF Next, Acceptor, Worker, Connect, MgmtShutdown, MgmtWrite, MgmtEof, AcceptorReady,
         AcceptorSeesShutdown, AcceptorReadsShutdown, AcceptorAccept,
         AcceptorSelectError, MainReturn, Poll, Dispatch, ReadShutdown, vars
<1> QED
  BY <1>1, <1>2, <1>3, <1>4, <1>5, <1>6

\* The inductive invariant holds in every state of the event-loop mode.
THEOREM InvariantHolds == Spec => []IInv
<1>1. IInv /\ [Next]_vars => IInv'
  BY TypeStep, AcceptorStep, WorkersStep, StartedStep, PlacesStep, AlertStep, WakeBytesStep
     DEF IInv
<1> QED
  BY InitIInv, <1>1, PTL DEF Spec

\* The event-loop mode keeps its types: accept() never runs on an empty backlog, a batch
\* fits into buf, the shutdown pipe holds one byte at most.
THEOREM TypeCorrect == Spec => []TypeOK
<1>1. IInv => TypeOK
  BY DEF IInv
<1> QED
  BY <1>1, InvariantHolds, PTL

\* From accept() to close() a connection is in one place: client_fd, client_queue or the
\* map of one worker; no two workers serve it and none serves it after its close().
THEOREM OwnedOnce == Spec => []ConnectionOwnedOnce
<1>1. IInv => ConnectionOwnedOnce
  BY DEF IInv
<1> QED
  BY <1>1, InvariantHolds, PTL

\* "Each byte represents one new connection", in every interleaving of the push, the
\* write() outside queue_mutex, the batched read() and the pops.
THEOREM BytesMatchQueue == Spec => []WakeBytesMatchQueue
<1>1. IInv => WakeBytesMatchQueue
  BY DEF IInv
<1> QED
  BY <1>1, InvariantHolds, PTL

\* As long as no worker stops, a queued connection has a worker that reads the wake pipe
\* or will be told of it by its poller, with level- and with edge-triggered readiness.
THEOREM NoneStranded == Spec => []NoConnectionStranded
<1>1. IInv => NoConnectionStranded
  <2> SUFFICES ASSUME IInv, \A w \in loops : ~Stopping(w), queue # <<>>, accPc # "wake"
               PROVE  \E w \in loops : wpc[w] \in {"drain", "take"} \/ WakeReady(w)
    BY DEF NoConnectionStranded, Stopping
  <2>1. Cardinality(Due) \in Nat /\ IsFiniteSet(Due)
    BY DueFinite, FS_CardinalityType
  <2>2. Len(queue) \in Nat /\ Len(queue) > 0 /\ wakePipe \in Nat
    BY DEF IInv, TypeOK
  <2>3. wakePipe > 0 \/ Cardinality(Due) > 0
    BY <2>1, <2>2 DEF IInv, WakeBytesMatchQueue
  <2>4. CASE Cardinality(Due) > 0
    <3>1. PICK d : d \in Due
      BY <2>1, <2>4, FS_EmptySet
    <3>2. d[1] \in Workers /\ tokens[d[1]] > 0
      BY <3>1 DEF Due, IInv, TypeOK
    <3> QED
      BY <3>2 DEF IInv, WorkersInv
  <2>5. CASE wakePipe > 0
    <3>1. CASE edgeTriggered
      BY <2>5, <3>1 DEF IInv, Alert, WakeReady
    <3>2. CASE ~edgeTriggered
      BY <2>5, <3>2 DEF IInv, StartedInv, TypeOK, WakeReady
    <3> QED
      BY <3>1, <3>2
  <2> QED
    BY <2>3, <2>4, <2>5
<1> QED
  BY <1>1, InvariantHolds, PTL
=============================================================================
