-------------------------- MODULE ThreadPoolProofs --------------------------
(***************************************************************************)
(* Proofs about ThreadPool, for every set of connections, descriptors and   *)
(* workers: type correctness, exclusive ownership of descriptors, that the  *)
(* pool is drained when run_thread_pool returns, that no wakeup of a worker *)
(* is lost, and that the pool implements the safety half of                 *)
(* ConnectionService.                                                       *)
(***************************************************************************)
EXTENDS ThreadPool, FiniteSetTheorems, SequenceTheorems, TLAPS

\* The management thread has not written before it exits.
PipeInv == mgmtPc # "exited" => pipe = 0

\* accept() is called only after select() saw a pending connection, and only
\* the acceptor removes one.
BacklogInv == accPc = "accept" => backlog # <<>>

\* The local client_fd variables hold a descriptor exactly between taking it
\* over and handing it on.
LocalInv ==
  /\ accPc = "push" <=> accFd # Sentinel
  /\ \A w \in Workers : wpc[w] \in {"serve", "close"} <=> wfd[w] # Sentinel

\* Sentinels appear only after the acceptor has exited, behind every queued
\* connection, so that no connection is left in the queue when a worker exits.
SentinelInv ==
  /\ mainPc = "join_acceptor" =>
       /\ \A i \in 1..Len(queue) : queue[i] # Sentinel
       /\ \A w \in Workers : wpc[w] # "exited"
  /\ mainPc # "join_acceptor" => accPc = "exited"
  /\ \A i, j \in 1..Len(queue) : i < j /\ queue[i] = Sentinel => queue[j] = Sentinel
  /\ (\E w \in Workers : wpc[w] = "exited") => \A i \in 1..Len(queue) : queue[i] = Sentinel
  /\ mainPc = "returned" => \A w \in Workers : wpc[w] = "exited"

\* The inductive invariant.
IInv == TypeOK /\ PipeInv /\ BacklogInv /\ LocalInv /\ SentinelInv /\ DescriptorOwnership

USE NoConnAssumption, FdsAssumption

LEMMA SentinelNotFd == Sentinel \notin Fds
  BY DEF Sentinel

\* Removing the head of a sequence shifts the other elements by one.
LEMMA TailFacts ==
  ASSUME NEW S, NEW q \in Seq(S), q # <<>>
  PROVE  /\ Head(q) \in S /\ Head(q) = q[1]
         /\ Tail(q) \in Seq(S) /\ Len(q) \in Nat /\ Len(q) > 0 /\ Len(Tail(q)) = Len(q) - 1
         /\ \A i \in 1..Len(Tail(q)) : Tail(q)[i] = q[i + 1]
         /\ \A i \in 1..Len(q) : i = 1 \/ (i - 1 \in 1..Len(Tail(q)) /\ Tail(q)[i - 1] = q[i])
  OBVIOUS

LEMMA AppendFacts ==
  ASSUME NEW S, NEW q \in Seq(S), NEW x \in S
  PROVE  /\ Append(q, x) \in Seq(S) /\ Len(q) \in Nat /\ Len(Append(q, x)) = Len(q) + 1
         /\ \A i \in 1..Len(q) : Append(q, x)[i] = q[i]
         /\ Append(q, x)[Len(q) + 1] = x
  OBVIOUS

LEMMA WorkersCount == N \in Nat
  BY WorkersAssumption, FS_CardinalityType DEF N

\* The queue after run_thread_pool pushed its sentinels.
LEMMA SentinelFacts ==
  ASSUME NEW q \in Seq(Fds \cup {Sentinel})
  PROVE  LET r == q \o [i \in 1..N |-> Sentinel]
         IN  /\ r \in Seq(Fds \cup {Sentinel}) /\ Len(q) \in Nat /\ Len(r) = Len(q) + N
             /\ \A i \in 1..Len(q) : i \in 1..Len(r) /\ r[i] = q[i]
             /\ \A i \in 1..Len(r) : i \in 1..Len(q) \/ r[i] = Sentinel
             /\ \A i, j \in 1..Len(r) : i < j /\ i \notin 1..Len(q) => j \notin 1..Len(q)
  <1> DEFINE t == [i \in 1..N |-> Sentinel]
             r == q \o t
  <1>0. Len(q) \in Nat /\ N \in Nat
    BY WorkersCount
  <1>1. t \in Seq(Fds \cup {Sentinel}) /\ Len(t) = N /\ \A i \in 1..N : t[i] = Sentinel
    BY <1>0
  <1> HIDE DEF t
  <1>2. r \in Seq(Fds \cup {Sentinel}) /\ Len(r) = Len(q) + N
    BY <1>0, <1>1
  <1>3. \A i \in 1..Len(q) : i \in 1..Len(r) /\ r[i] = q[i]
    BY <1>0, <1>1, <1>2
  <1>4. ASSUME NEW i \in 1..Len(r), i \notin 1..Len(q) PROVE r[i] = Sentinel
    <2>1. i - Len(q) \in 1..N
      BY <1>0, <1>2, <1>4
    <2>2. r[i] = t[i - Len(q)]
      BY <1>0, <1>1, <1>2, <1>4
    <2> QED BY <1>1, <2>1, <2>2
  <1>5. \A i, j \in 1..Len(r) : i < j /\ i \notin 1..Len(q) => j \notin 1..Len(q)
    BY <1>0, <1>2
  <1> QED BY <1>0, <1>2, <1>3, <1>4, <1>5 DEF t

\* Initially nothing is open, queued or held.
THEOREM InitIInv == Init => IInv
  <1> SUFFICES ASSUME Init PROVE IInv
    OBVIOUS
  <1> USE SentinelNotFd DEF Init
  <1>1. TypeOK
    BY DEF TypeOK, WorkerPcs
  <1>2. PipeInv /\ BacklogInv /\ LocalInv
    BY DEF PipeInv, BacklogInv, LocalInv
  <1>3. SentinelInv
    BY DEF SentinelInv
  <1>4. DescriptorOwnership
    BY DEF DescriptorOwnership, OpenIffHeld, HeldOnce, Held, Queued
  <1> QED BY <1>1, <1>2, <1>3, <1>4 DEF IInv

\* Every step keeps the types; the pipe bound needs PipeInv, accept() needs
\* BacklogInv.
LEMMA TypeStep == IInv /\ [Next]_vars => TypeOK'
  <1> SUFFICES ASSUME IInv, [Next]_vars PROVE TypeOK'
    OBVIOUS
  <1> USE SentinelNotFd DEF IInv, TypeOK, WorkerPcs, PipeInv, BacklogInv
  <1>1. ASSUME NEW c \in Conns, Connect(c) PROVE TypeOK'
    BY <1>1 DEF Connect, kernel, acceptor, workers, mgmt
  <1>2. ASSUME NEW f \in Fds, AcceptorAccept(f) PROVE TypeOK'
    BY <1>2 DEF AcceptorAccept, FreeFds, kernel, acceptor, workers, mgmt
  <1>3. ASSUME NEW w \in Workers, WorkerWait(w) PROVE TypeOK'
    BY <1>3 DEF WorkerWait, kernel, acceptor, workers, mgmt
  <1>4. ASSUME NEW w \in Workers, WorkerSpuriousWakeup(w) PROVE TypeOK'
    BY <1>4 DEF WorkerSpuriousWakeup, kernel, acceptor, workers, mgmt
  <1>5. ASSUME NEW w \in Workers, WorkerTake(w) PROVE TypeOK'
    BY <1>5 DEF WorkerTake, kernel, acceptor, workers, mgmt
  <1>6. ASSUME NEW w \in Workers, WorkerHandled(w) PROVE TypeOK'
    BY <1>6 DEF WorkerHandled, kernel, acceptor, workers, mgmt
  <1>7. ASSUME NEW w \in Workers, WorkerClose(w) PROVE TypeOK'
    <2>1. wfd[w] \in Fds
      BY <1>7 DEF WorkerClose, LocalInv
    <2>2. closed' \subseteq Conns /\ sock' \in [Fds -> Conns \cup {NoConn}]
      BY <1>7, <2>1 DEF WorkerClose
    <2> QED BY <1>7, <2>2 DEF WorkerClose, acceptor, mgmt
  <1>8. CASE MgmtShutdown
    BY <1>8 DEF MgmtShutdown, kernel, acceptor, workers, mgmt
  <1>9. CASE MgmtWrite
    BY <1>9 DEF MgmtWrite, kernel, acceptor, workers, mgmt
  <1>10. CASE MgmtEof
    BY <1>10 DEF MgmtEof, kernel, acceptor, workers, mgmt
  <1>11. CASE AcceptorReady
    BY <1>11 DEF AcceptorReady, kernel, acceptor, workers, mgmt
  <1>12. CASE AcceptorShutdown
    BY <1>12 DEF AcceptorShutdown, kernel, acceptor, workers, mgmt
  <1>13. CASE AcceptorSelectError
    BY <1>13 DEF AcceptorSelectError, kernel, acceptor, workers, mgmt
  <1>14. CASE AcceptorAcceptFails
    <2>1. backlog \in Seq(Conns) /\ backlog # <<>>
      BY <1>14 DEF AcceptorAcceptFails
    <2>2. Tail(backlog) \in Seq(Conns)
      BY <2>1, TailFacts
    <2>3. backlog' \in Seq(Conns)
      BY <1>14, <2>1, <2>2 DEF AcceptorAcceptFails
    <2> QED BY <1>14, <2>3 DEF AcceptorAcceptFails, workers, mgmt
  <1>15. CASE AcceptorPush
    BY <1>15 DEF AcceptorPush, NotifyOne, At, kernel, acceptor, workers, mgmt
  <1>16. CASE MainPushSentinels
    <2>1. queue' \in Seq(Fds \cup {Sentinel})
      BY <1>16, SentinelFacts DEF MainPushSentinels
    <2> QED BY <1>16, <2>1 DEF MainPushSentinels, kernel, acceptor, workers, mgmt
  <1>17. CASE MainNotifyAll
    BY <1>17 DEF MainNotifyAll, kernel, acceptor, workers, mgmt
  <1>18. CASE MainJoinWorkers
    BY <1>18 DEF MainJoinWorkers, At, kernel, acceptor, workers, mgmt
  <1>19. CASE UNCHANGED vars
    BY <1>19 DEF vars
  <1> QED
    BY <1>1, <1>2, <1>3, <1>4, <1>5, <1>6, <1>7, <1>8, <1>9, <1>10, <1>11, <1>12, <1>13, <1>14, <1>15, <1>16, <1>17, <1>18, <1>19 DEF Next, Acceptor, Worker, Main

\* Only the last step of the management thread puts a byte into the pipe.
LEMMA PipeStep == IInv /\ [Next]_vars => PipeInv'
  <1> SUFFICES ASSUME IInv, [Next]_vars PROVE PipeInv'
    OBVIOUS
  <1> USE SentinelNotFd DEF IInv, TypeOK, PipeInv
  <1>1. ASSUME NEW c \in Conns, Connect(c) PROVE PipeInv'
    BY <1>1 DEF Connect, kernel, acceptor, workers, mgmt
  <1>2. ASSUME NEW f \in Fds, AcceptorAccept(f) PROVE PipeInv'
    BY <1>2 DEF AcceptorAccept, FreeFds, kernel, acceptor, workers, mgmt
  <1>3. ASSUME NEW w \in Workers, WorkerWait(w) PROVE PipeInv'
    BY <1>3 DEF WorkerWait, kernel, acceptor, workers, mgmt
  <1>4. ASSUME NEW w \in Workers, WorkerSpuriousWakeup(w) PROVE PipeInv'
    BY <1>4 DEF WorkerSpuriousWakeup, kernel, acceptor, workers, mgmt
  <1>5. ASSUME NEW w \in Workers, WorkerTake(w) PROVE PipeInv'
    BY <1>5 DEF WorkerTake, kernel, acceptor, workers, mgmt
  <1>6. ASSUME NEW w \in Workers, WorkerHandled(w) PROVE PipeInv'
    BY <1>6 DEF WorkerHandled, kernel, acceptor, workers, mgmt
  <1>7. ASSUME NEW w \in Workers, WorkerClose(w) PROVE PipeInv'
    BY <1>7 DEF WorkerClose, kernel, acceptor, workers, mgmt
  <1>8. CASE MgmtShutdown
    BY <1>8 DEF MgmtShutdown, kernel, acceptor, workers, mgmt
  <1>9. CASE MgmtWrite
    BY <1>9 DEF MgmtWrite, kernel, acceptor, workers, mgmt
  <1>10. CASE MgmtEof
    BY <1>10 DEF MgmtEof, kernel, acceptor, workers, mgmt
  <1>11. CASE AcceptorReady
    BY <1>11 DEF AcceptorReady, kernel, acceptor, workers, mgmt
  <1>12. CASE AcceptorShutdown
    BY <1>12 DEF AcceptorShutdown, kernel, acceptor, workers, mgmt
  <1>13. CASE AcceptorSelectError
    BY <1>13 DEF AcceptorSelectError, kernel, acceptor, workers, mgmt
  <1>14. CASE AcceptorAcceptFails
    BY <1>14 DEF AcceptorAcceptFails, FreeFds, kernel, acceptor, workers, mgmt
  <1>15. CASE AcceptorPush
    BY <1>15 DEF AcceptorPush, NotifyOne, At, kernel, acceptor, workers, mgmt
  <1>16. CASE MainPushSentinels
    BY <1>16 DEF MainPushSentinels, kernel, acceptor, workers, mgmt
  <1>17. CASE MainNotifyAll
    BY <1>17 DEF MainNotifyAll, kernel, acceptor, workers, mgmt
  <1>18. CASE MainJoinWorkers
    BY <1>18 DEF MainJoinWorkers, At, kernel, acceptor, workers, mgmt
  <1>19. CASE UNCHANGED vars
    BY <1>19 DEF vars
  <1> QED
    BY <1>1, <1>2, <1>3, <1>4, <1>5, <1>6, <1>7, <1>8, <1>9, <1>10, <1>11, <1>12, <1>13, <1>14, <1>15, <1>16, <1>17, <1>18, <1>19 DEF Next, Acceptor, Worker, Main

\* Between select() and accept() the backlog does not shrink.
LEMMA BacklogStep == IInv /\ [Next]_vars => BacklogInv'
  <1> SUFFICES ASSUME IInv, [Next]_vars PROVE BacklogInv'
    OBVIOUS
  <1> USE SentinelNotFd DEF IInv, TypeOK, BacklogInv
  <1>1. ASSUME NEW c \in Conns, Connect(c) PROVE BacklogInv'
    BY <1>1 DEF Connect, kernel, acceptor, workers, mgmt
  <1>2. ASSUME NEW f \in Fds, AcceptorAccept(f) PROVE BacklogInv'
    BY <1>2 DEF AcceptorAccept, FreeFds, kernel, acceptor, workers, mgmt
  <1>3. ASSUME NEW w \in Workers, WorkerWait(w) PROVE BacklogInv'
    BY <1>3 DEF WorkerWait, kernel, acceptor, workers, mgmt
  <1>4. ASSUME NEW w \in Workers, WorkerSpuriousWakeup(w) PROVE BacklogInv'
    BY <1>4 DEF WorkerSpuriousWakeup, kernel, acceptor, workers, mgmt
  <1>5. ASSUME NEW w \in Workers, WorkerTake(w) PROVE BacklogInv'
    BY <1>5 DEF WorkerTake, kernel, acceptor, workers, mgmt
  <1>6. ASSUME NEW w \in Workers, WorkerHandled(w) PROVE BacklogInv'
    BY <1>6 DEF WorkerHandled, kernel, acceptor, workers, mgmt
  <1>7. ASSUME NEW w \in Workers, WorkerClose(w) PROVE BacklogInv'
    BY <1>7 DEF WorkerClose, kernel, acceptor, workers, mgmt
  <1>8. CASE MgmtShutdown
    BY <1>8 DEF MgmtShutdown, kernel, acceptor, workers, mgmt
  <1>9. CASE MgmtWrite
    BY <1>9 DEF MgmtWrite, kernel, acceptor, workers, mgmt
  <1>10. CASE MgmtEof
    BY <1>10 DEF MgmtEof, kernel, acceptor, workers, mgmt
  <1>11. CASE AcceptorReady
    BY <1>11 DEF AcceptorReady, kernel, acceptor, workers, mgmt
  <1>12. CASE AcceptorShutdown
    BY <1>12 DEF AcceptorShutdown, kernel, acceptor, workers, mgmt
  <1>13. CASE AcceptorSelectError
    BY <1>13 DEF AcceptorSelectError, kernel, acceptor, workers, mgmt
  <1>14. CASE AcceptorAcceptFails
    BY <1>14 DEF AcceptorAcceptFails, FreeFds, kernel, acceptor, workers, mgmt
  <1>15. CASE AcceptorPush
    BY <1>15 DEF AcceptorPush, NotifyOne, At, kernel, acceptor, workers, mgmt
  <1>16. CASE MainPushSentinels
    BY <1>16 DEF MainPushSentinels, kernel, acceptor, workers, mgmt
  <1>17. CASE MainNotifyAll
    BY <1>17 DEF MainNotifyAll, kernel, acceptor, workers, mgmt
  <1>18. CASE MainJoinWorkers
    BY <1>18 DEF MainJoinWorkers, At, kernel, acceptor, workers, mgmt
  <1>19. CASE UNCHANGED vars
    BY <1>19 DEF vars
  <1> QED
    BY <1>1, <1>2, <1>3, <1>4, <1>5, <1>6, <1>7, <1>8, <1>9, <1>10, <1>11, <1>12, <1>13, <1>14, <1>15, <1>16, <1>17, <1>18, <1>19 DEF Next, Acceptor, Worker, Main

\* Descriptors are handed on, never kept.
LEMMA LocalStep == IInv /\ [Next]_vars => LocalInv'
  <1> SUFFICES ASSUME IInv, [Next]_vars PROVE LocalInv'
    OBVIOUS
  <1> USE SentinelNotFd DEF IInv, TypeOK, LocalInv, SentinelInv, WorkerPcs
  <1>1. ASSUME NEW c \in Conns, Connect(c) PROVE LocalInv'
    BY <1>1 DEF Connect, kernel, acceptor, workers, mgmt
  <1>2. ASSUME NEW f \in Fds, AcceptorAccept(f) PROVE LocalInv'
    BY <1>2 DEF AcceptorAccept, FreeFds, kernel, acceptor, workers, mgmt
  <1>3. ASSUME NEW w \in Workers, WorkerWait(w) PROVE LocalInv'
    BY <1>3 DEF WorkerWait, kernel, acceptor, workers, mgmt
  <1>4. ASSUME NEW w \in Workers, WorkerSpuriousWakeup(w) PROVE LocalInv'
    BY <1>4 DEF WorkerSpuriousWakeup, kernel, acceptor, workers, mgmt
  <1>5. ASSUME NEW w \in Workers, WorkerTake(w) PROVE LocalInv'
    BY <1>5 DEF WorkerTake, kernel, acceptor, workers, mgmt
  <1>6. ASSUME NEW w \in Workers, WorkerHandled(w) PROVE LocalInv'
    BY <1>6 DEF WorkerHandled, kernel, acceptor, workers, mgmt
  <1>7. ASSUME NEW w \in Workers, WorkerClose(w) PROVE LocalInv'
    BY <1>7 DEF WorkerClose, kernel, acceptor, workers, mgmt
  <1>8. CASE MgmtShutdown
    BY <1>8 DEF MgmtShutdown, kernel, acceptor, workers, mgmt
  <1>9. CASE MgmtWrite
    BY <1>9 DEF MgmtWrite, kernel, acceptor, workers, mgmt
  <1>10. CASE MgmtEof
    BY <1>10 DEF MgmtEof, kernel, acceptor, workers, mgmt
  <1>11. CASE AcceptorReady
    BY <1>11 DEF AcceptorReady, kernel, acceptor, workers, mgmt
  <1>12. CASE AcceptorShutdown
    BY <1>12 DEF AcceptorShutdown, kernel, acceptor, workers, mgmt
  <1>13. CASE AcceptorSelectError
    BY <1>13 DEF AcceptorSelectError, kernel, acceptor, workers, mgmt
  <1>14. CASE AcceptorAcceptFails
    BY <1>14 DEF AcceptorAcceptFails, FreeFds, kernel, acceptor, workers, mgmt
  <1>15. CASE AcceptorPush
    BY <1>15 DEF AcceptorPush, NotifyOne, At, kernel, acceptor, workers, mgmt
  <1>16. CASE MainPushSentinels
    BY <1>16 DEF MainPushSentinels, kernel, acceptor, workers, mgmt
  <1>17. CASE MainNotifyAll
    BY <1>17 DEF MainNotifyAll, kernel, acceptor, workers, mgmt
  <1>18. CASE MainJoinWorkers
    BY <1>18 DEF MainJoinWorkers, At, kernel, acceptor, workers, mgmt
  <1>19. CASE UNCHANGED vars
    BY <1>19 DEF vars
  <1> QED
    BY <1>1, <1>2, <1>3, <1>4, <1>5, <1>6, <1>7, <1>8, <1>9, <1>10, <1>11, <1>12, <1>13, <1>14, <1>15, <1>16, <1>17, <1>18, <1>19 DEF Next, Acceptor, Worker, Main

\* Sentinels stay behind the connections.
LEMMA SentinelStep == IInv /\ [Next]_vars => SentinelInv'
  <1> SUFFICES ASSUME IInv, [Next]_vars PROVE SentinelInv'
    OBVIOUS
  <1> USE SentinelNotFd DEF IInv, TypeOK, LocalInv, SentinelInv, WorkerPcs
  <1>1. ASSUME NEW c \in Conns, Connect(c) PROVE SentinelInv'
    BY <1>1 DEF Connect, kernel, acceptor, workers, mgmt
  <1>2. ASSUME NEW f \in Fds, AcceptorAccept(f) PROVE SentinelInv'
    BY <1>2 DEF AcceptorAccept, FreeFds, kernel, acceptor, workers, mgmt
  <1>3. ASSUME NEW w \in Workers, WorkerWait(w) PROVE SentinelInv'
    BY <1>3 DEF WorkerWait, kernel, acceptor, workers, mgmt
  <1>4. ASSUME NEW w \in Workers, WorkerSpuriousWakeup(w) PROVE SentinelInv'
    BY <1>4 DEF WorkerSpuriousWakeup, kernel, acceptor, workers, mgmt
  <1>5. ASSUME NEW w \in Workers, WorkerTake(w) PROVE SentinelInv'
    BY <1>5 DEF WorkerTake, kernel, acceptor, workers, mgmt
  <1>6. ASSUME NEW w \in Workers, WorkerHandled(w) PROVE SentinelInv'
    BY <1>6 DEF WorkerHandled, kernel, acceptor, workers, mgmt
  <1>7. ASSUME NEW w \in Workers, WorkerClose(w) PROVE SentinelInv'
    BY <1>7 DEF WorkerClose, kernel, acceptor, workers, mgmt
  <1>8. CASE MgmtShutdown
    BY <1>8 DEF MgmtShutdown, kernel, acceptor, workers, mgmt
  <1>9. CASE MgmtWrite
    BY <1>9 DEF MgmtWrite, kernel, acceptor, workers, mgmt
  <1>10. CASE MgmtEof
    BY <1>10 DEF MgmtEof, kernel, acceptor, workers, mgmt
  <1>11. CASE AcceptorReady
    BY <1>11 DEF AcceptorReady, kernel, acceptor, workers, mgmt
  <1>12. CASE AcceptorShutdown
    BY <1>12 DEF AcceptorShutdown, kernel, acceptor, workers, mgmt
  <1>13. CASE AcceptorSelectError
    BY <1>13 DEF AcceptorSelectError, kernel, acceptor, workers, mgmt
  <1>14. CASE AcceptorAcceptFails
    BY <1>14 DEF AcceptorAcceptFails, FreeFds, kernel, acceptor, workers, mgmt
  <1>15. CASE AcceptorPush
    BY <1>15 DEF AcceptorPush, NotifyOne, At, kernel, acceptor, workers, mgmt
  <1>16. CASE MainPushSentinels
    <2>1. /\ \A i \in 1..Len(queue') : i \in 1..Len(queue) \/ queue'[i] = Sentinel
          /\ \A i \in 1..Len(queue) : queue[i] # Sentinel /\ queue'[i] = queue[i]
          /\ \A i, j \in 1..Len(queue') : i < j /\ i \notin 1..Len(queue) => j \notin 1..Len(queue)
      BY <1>16, SentinelFacts DEF MainPushSentinels
    <2>2. \A i, j \in 1..Len(queue') : i < j /\ queue'[i] = Sentinel => queue'[j] = Sentinel
      BY <2>1
    <2> QED BY <1>16, <2>2 DEF MainPushSentinels, acceptor, workers
  <1>17. CASE MainNotifyAll
    BY <1>17 DEF MainNotifyAll, kernel, acceptor, workers, mgmt
  <1>18. CASE MainJoinWorkers
    BY <1>18 DEF MainJoinWorkers, At, kernel, acceptor, workers, mgmt
  <1>19. CASE UNCHANGED vars
    BY <1>19 DEF vars
  <1> QED
    BY <1>1, <1>2, <1>3, <1>4, <1>5, <1>6, <1>7, <1>8, <1>9, <1>10, <1>11, <1>12, <1>13, <1>14, <1>15, <1>16, <1>17, <1>18, <1>19 DEF Next, Acceptor, Worker, Main

\* Each hand-over of a descriptor leaves it with exactly one holder.
LEMMA OwnershipStep == IInv /\ [Next]_vars => DescriptorOwnership'
  <1> SUFFICES ASSUME IInv, [Next]_vars PROVE DescriptorOwnership'
    OBVIOUS
  <1> USE SentinelNotFd DEF IInv, TypeOK, BacklogInv, LocalInv, DescriptorOwnership, OpenIffHeld, HeldOnce, Held, Queued
  <1>1. ASSUME NEW c \in Conns, Connect(c) PROVE DescriptorOwnership'
    BY <1>1 DEF Connect, kernel, acceptor, workers, mgmt
  <1>2. ASSUME NEW f \in Fds, AcceptorAccept(f) PROVE DescriptorOwnership'
    <2>1. /\ ~Held(f) /\ accFd' = f /\ UNCHANGED <<queue, wfd>>
          /\ sock' = [sock EXCEPT ![f] = Head(backlog)] /\ Head(backlog) # NoConn
      BY <1>2, TailFacts DEF AcceptorAccept, FreeFds, workers
    <2>2. accFd = Sentinel
      BY <1>2 DEF AcceptorAccept
    <2>3. OpenIffHeld'
      BY <2>1, <2>2 DEF OpenIffHeld, Held, Queued
    <2>4. HeldOnce'
      BY <2>1 DEF HeldOnce, Held, Queued
    <2> QED BY <2>3, <2>4 DEF DescriptorOwnership
  <1>3. ASSUME NEW w \in Workers, WorkerWait(w) PROVE DescriptorOwnership'
    BY <1>3 DEF WorkerWait, kernel, acceptor, workers, mgmt
  <1>4. ASSUME NEW w \in Workers, WorkerSpuriousWakeup(w) PROVE DescriptorOwnership'
    BY <1>4 DEF WorkerSpuriousWakeup, kernel, acceptor, workers, mgmt
  <1>5. ASSUME NEW w \in Workers, WorkerTake(w) PROVE DescriptorOwnership'
    <2> DEFINE h == Head(queue)
    <2>1. /\ queue' = Tail(queue) /\ wfd' = [wfd EXCEPT ![w] = h] /\ wfd[w] = Sentinel
          /\ UNCHANGED <<sock, accFd>>
      BY <1>5 DEF WorkerTake, kernel, acceptor
    <2>2. /\ h \in Fds \cup {Sentinel} /\ h = queue[1] /\ 1 \in 1..Len(queue)
          /\ \A i \in 1..Len(queue') : i + 1 \in 1..Len(queue) /\ queue'[i] = queue[i + 1]
          /\ \A i \in 1..Len(queue) :
               i = 1 \/ (i - 1 \in 1..Len(queue') /\ queue'[i - 1] = queue[i])
      BY <1>5, <2>1, TailFacts DEF WorkerTake
    <2>3. ASSUME NEW f \in Fds PROVE Queued(f) <=> Queued(f)' \/ f = h
      <3>1. ASSUME NEW i \in 1..Len(queue), queue[i] = f PROVE Queued(f)' \/ f = h
        BY <2>2, <3>1
      <3>2. ASSUME NEW i \in 1..Len(queue'), queue'[i] = f PROVE Queued(f)
        BY <2>2, <3>2
      <3> QED BY <2>2, <3>1, <3>2
    <2>4. OpenIffHeld'
      BY <2>1, <2>2, <2>3 DEF OpenIffHeld, Held
    <2>5. ASSUME h \in Fds
          PROVE  /\ \A i \in 1..Len(queue') : queue'[i] # h
                 /\ h # accFd /\ \A v \in Workers : wfd[v] # h
      <3>1. \A j \in 1..Len(queue) : queue[j] = h => j = 1
        BY <2>2, <2>5
      <3>2. ASSUME NEW i \in 1..Len(queue'), queue'[i] = h PROVE FALSE
        BY <2>2, <3>1, <3>2
      <3> QED BY <2>2, <2>5, <3>2
    <2>6. HeldOnce'
      BY <2>1, <2>2, <2>3, <2>5 DEF HeldOnce, Queued
    <2> QED BY <2>4, <2>6 DEF DescriptorOwnership
  <1>6. ASSUME NEW w \in Workers, WorkerHandled(w) PROVE DescriptorOwnership'
    BY <1>6 DEF WorkerHandled, kernel, acceptor, workers, mgmt
  <1>7. ASSUME NEW w \in Workers, WorkerClose(w) PROVE DescriptorOwnership'
    BY <1>7 DEF WorkerClose, kernel, acceptor, workers, mgmt
  <1>8. CASE MgmtShutdown
    BY <1>8 DEF MgmtShutdown, kernel, acceptor, workers, mgmt
  <1>9. CASE MgmtWrite
    BY <1>9 DEF MgmtWrite, kernel, acceptor, workers, mgmt
  <1>10. CASE MgmtEof
    BY <1>10 DEF MgmtEof, kernel, acceptor, workers, mgmt
  <1>11. CASE AcceptorReady
    BY <1>11 DEF AcceptorReady, kernel, acceptor, workers, mgmt
  <1>12. CASE AcceptorShutdown
    BY <1>12 DEF AcceptorShutdown, kernel, acceptor, workers, mgmt
  <1>13. CASE AcceptorSelectError
    BY <1>13 DEF AcceptorSelectError, kernel, acceptor, workers, mgmt
  <1>14. CASE AcceptorAcceptFails
    BY <1>14 DEF AcceptorAcceptFails, FreeFds, kernel, acceptor, workers, mgmt
  <1>15. CASE AcceptorPush
    BY <1>15 DEF AcceptorPush, NotifyOne, At, kernel, acceptor, workers, mgmt
  <1>16. CASE MainPushSentinels
    <2>1. /\ \A i \in 1..Len(queue) : i \in 1..Len(queue') /\ queue'[i] = queue[i]
          /\ \A i \in 1..Len(queue') : i \in 1..Len(queue) \/ queue'[i] = Sentinel
      BY <1>16, SentinelFacts DEF MainPushSentinels
    <2>2. UNCHANGED <<sock, accFd, wfd>>
      BY <1>16 DEF MainPushSentinels, kernel, acceptor, workers
    <2>3. \A f \in Fds : Queued(f)' <=> Queued(f)
      BY <2>1 DEF Queued
    <2>4. OpenIffHeld'
      BY <2>2, <2>3 DEF OpenIffHeld, Held
    <2>5. HeldOnce'
      BY <2>1, <2>2 DEF HeldOnce, Queued
    <2> QED BY <2>4, <2>5 DEF DescriptorOwnership
  <1>17. CASE MainNotifyAll
    BY <1>17 DEF MainNotifyAll, kernel, acceptor, workers, mgmt
  <1>18. CASE MainJoinWorkers
    BY <1>18 DEF MainJoinWorkers, At, kernel, acceptor, workers, mgmt
  <1>19. CASE UNCHANGED vars
    BY <1>19 DEF vars
  <1> QED
    BY <1>1, <1>2, <1>3, <1>4, <1>5, <1>6, <1>7, <1>8, <1>9, <1>10, <1>11, <1>12, <1>13, <1>14, <1>15, <1>16, <1>17, <1>18, <1>19 DEF Next, Acceptor, Worker, Main

\* Every step of the thread pool preserves the inductive invariant.
THEOREM StepIInv == IInv /\ [Next]_vars => IInv'
  BY TypeStep, PipeStep, BacklogStep, LocalStep, SentinelStep, OwnershipStep DEF IInv

THEOREM IInvHolds == Spec => []IInv
  BY InitIInv, StepIInv, PTL DEF Spec

\* The state of the thread-pool mode always has its types; in particular the
\* shutdown pipe never holds a second byte.
THEOREM TypeCorrect == Spec => []TypeOK
  <1>1. IInv => TypeOK
    BY DEF IInv
  <1> QED BY <1>1, IInvHolds, PTL

\* Each client descriptor of worker_loop_thread_pool and the acceptor has one
\* owner from accept() to its single close().
THEOREM OwnershipHolds == Spec => []DescriptorOwnership
  <1>1. IInv => DescriptorOwnership
    BY DEF IInv
  <1> QED BY <1>1, IInvHolds, PTL

\* When run_thread_pool returns no accepted connection is still open: all
\* workers have exited, so none holds a descriptor, and none is queued.
THEOREM DrainedHolds == Spec => []DrainedAtReturn
  <1>1. IInv => DrainedAtReturn
    <2> SUFFICES ASSUME IInv, mainPc = "returned", NEW f \in Fds PROVE sock[f] = NoConn
      BY DEF DrainedAtReturn
    <2>1. \A w \in Workers : wpc[w] = "exited" /\ wfd[w] = Sentinel
      BY DEF IInv, SentinelInv, LocalInv
    <2>2. accFd = Sentinel
      BY DEF IInv, SentinelInv, LocalInv
    <2>3. \A i \in 1..Len(queue) : queue[i] = Sentinel
      BY <2>1, WorkersAssumption DEF IInv, SentinelInv
    <2>4. ~Held(f)
      BY <2>1, <2>2, <2>3, SentinelNotFd DEF Held, Queued
    <2> QED BY <2>4 DEF IInv, DescriptorOwnership, OpenIffHeld
  <1> QED BY <1>1, IInvHolds, PTL

\* The workers on their way to the queue are finitely many, and one more or less counts
\* as one.
LEMMA LockCount ==
  /\ IsFiniteSet(At("lock")) /\ Cardinality(At("lock")) \in Nat
  /\ \A w : /\ IsFiniteSet(At("lock") \cup {w}) /\ IsFiniteSet(At("lock") \ {w})
            /\ w \notin At("lock") => Cardinality(At("lock") \cup {w}) = Cardinality(At("lock")) + 1
            /\ w \in At("lock") => Cardinality(At("lock") \ {w}) = Cardinality(At("lock")) - 1
<1>1. IsFiniteSet(At("lock"))
  BY WorkersAssumption, FS_Subset DEF At
<1>2. Cardinality(At("lock")) \in Nat
  BY <1>1, FS_CardinalityType
<1> QED
  BY <1>1, <1>2, FS_AddElement, FS_RemoveElement

\* A push wakes a worker or finds none asleep; a worker that takes an element was on its
\* way, one that goes to sleep saw the queue empty.
LEMMA WakeupStep == IInv /\ NoLostWakeup /\ [Next]_vars => NoLostWakeup'
<1> SUFFICES ASSUME IInv, NoLostWakeup, [Next]_vars PROVE NoLostWakeup'
  OBVIOUS
<1>0. TypeOK /\ Len(queue) \in Nat
  BY DEF IInv, TypeOK
<1>c. Cardinality(At("lock")) \in Nat
  BY LockCount
<1> USE DEF kernel, acceptor, workers, mgmt
<1>1. CASE UNCHANGED <<queue, wpc, mainPc>>
  BY <1>1 DEF NoLostWakeup, At
<1>2. CASE AcceptorPush
  <2>1. Len(queue') = Len(queue) + 1 /\ UNCHANGED mainPc
    BY <1>0, <1>2, AppendFacts DEF AcceptorPush, TypeOK
  <2>2. CASE At("wait") = {} /\ UNCHANGED wpc
    BY <2>2 DEF NoLostWakeup, At
  <2>3. ASSUME NEW w \in At("wait"), wpc' = [wpc EXCEPT ![w] = "lock"] PROVE NoLostWakeup'
    <3>1. At("lock")' = At("lock") \cup {w} /\ w \notin At("lock") /\ At("wait") # {}
      BY <1>0, <2>3 DEF At, TypeOK
    <3>2. Cardinality(At("lock")') = Cardinality(At("lock")) + 1
      BY <3>1, LockCount
    <3> QED
      BY <1>0, <1>c, <2>1, <3>1, <3>2 DEF NoLostWakeup
  <2> QED
    BY <1>2, <2>2, <2>3 DEF AcceptorPush, NotifyOne
<1>3. ASSUME NEW w \in Workers, WorkerWait(w) PROVE NoLostWakeup'
  <2>1. Len(queue') = 0
    BY <1>3 DEF WorkerWait
  <2>2. At("lock")' = At("lock") \ {w} /\ w \in At("lock")
    BY <1>0, <1>3 DEF WorkerWait, At, TypeOK
  <2>3. Cardinality(At("lock")') \in Nat
    BY <2>2, LockCount, FS_CardinalityType
  <2> QED
    BY <2>1, <2>3 DEF NoLostWakeup
<1>4. ASSUME NEW w \in Workers, WorkerSpuriousWakeup(w) \/ WorkerClose(w) PROVE NoLostWakeup'
  <2>1. /\ At("lock")' = At("lock") \cup {w} /\ w \notin At("lock")
        /\ At("wait")' \subseteq At("wait") /\ UNCHANGED <<queue, mainPc>>
    BY <1>0, <1>4 DEF WorkerSpuriousWakeup, WorkerClose, At, TypeOK
  <2>2. Cardinality(At("lock")') = Cardinality(At("lock")) + 1
    BY <2>1, LockCount
  <2> QED
    BY <1>0, <1>c, <2>1, <2>2 DEF NoLostWakeup
<1>5. ASSUME NEW w \in Workers, WorkerTake(w) PROVE NoLostWakeup'
  <2>1. /\ At("lock")' = At("lock") \ {w} /\ w \in At("lock")
        /\ At("wait")' = At("wait") /\ UNCHANGED mainPc
    BY <1>0, <1>5 DEF WorkerTake, At, TypeOK
  <2>2. Len(queue') = Len(queue) - 1
    BY <1>0, <1>5, TailFacts DEF WorkerTake, TypeOK
  <2>3. Cardinality(At("lock")') = Cardinality(At("lock")) - 1
    BY <2>1, LockCount
  <2> QED
    BY <1>0, <1>c, <2>1, <2>2, <2>3 DEF NoLostWakeup
<1>6. ASSUME NEW w \in Workers, WorkerHandled(w) PROVE NoLostWakeup'
  <2>1. At("lock")' = At("lock") /\ At("wait")' = At("wait") /\ UNCHANGED <<queue, mainPc>>
    BY <1>0, <1>6 DEF WorkerHandled, At, TypeOK
  <2> QED
    BY <2>1 DEF NoLostWakeup
<1>7. CASE MainPushSentinels \/ MainNotifyAll
  <2>1. mainPc' = "notify_all" \/ At("wait")' = {}
    BY <1>7 DEF MainPushSentinels, MainNotifyAll, At
  <2> QED
    BY <2>1 DEF NoLostWakeup
<1>8. CASE MainJoinWorkers
  BY <1>8 DEF MainJoinWorkers, NoLostWakeup, At
<1>9. \/ UNCHANGED <<queue, wpc, mainPc>> \/ AcceptorPush \/ Main
      \/ \E w \in Workers : Worker(w) \/ WorkerSpuriousWakeup(w)
  BY DEF Next, Acceptor, Connect, MgmtShutdown, MgmtWrite, MgmtEof, AcceptorReady,
         AcceptorShutdown, AcceptorSelectError, AcceptorAccept, AcceptorAcceptFails, vars
<1> QED
  BY <1>1, <1>2, <1>3, <1>4, <1>5, <1>6, <1>7, <1>8, <1>9 DEF Worker, Main

\* No notification of queue_cv is lost: an element that is in the queue while a worker
\* sleeps has another worker on its way to it.
THEOREM NoWakeupLost == Spec => []NoLostWakeup
<1>1. Init => NoLostWakeup
  BY DEF Init, NoLostWakeup, At
<1> QED
  BY <1>1, WakeupStep, IInvHolds, PTL DEF Spec

(***************************************************************************)
(* Refinement: every step of the pool is a step of ConnectionService or     *)
(* leaves it alone.                                                         *)
(***************************************************************************)
\* The first k elements of q are descriptors and the others sentinels.
Front(q, k) == k \in 0..Len(q) /\ \A i \in 1..Len(q) : q[i] # Sentinel <=> i <= k

FrontInv == \E k \in Nat : Front(queue, k)

\* The kernel and the server know each connection in one place: the backlog, one entry
\* of the descriptor table, or among the closed ones.
ConnInv ==
  /\ \A i, j \in 1..Len(backlog) : backlog[i] = backlog[j] => i = j
  /\ \A i \in 1..Len(backlog) : backlog[i] \notin closed /\ \A f \in Fds : sock[f] # backlog[i]
  /\ \A f, g \in Fds : sock[f] = sock[g] /\ sock[f] # NoConn => f = g
  /\ \A f \in Fds : sock[f] \notin closed

\* WaitingConns as a function of the state it depends on.
WaitingOf(q, s, a) ==
  LET queued == [i \in {j \in 1..Len(q) : q[j] # Sentinel} |-> s[q[i]]]
  IN  IF a = Sentinel THEN queued ELSE Append(queued, s[a])

LEMMA WaitingFacts ==
  ASSUME NEW q \in Seq(Fds \cup {Sentinel}), NEW s \in [Fds -> Conns \cup {NoConn}],
         NEW a \in Fds \cup {Sentinel}, NEW k \in Nat, Front(q, k)
  PROVE  LET w == WaitingOf(q, s, a)
         IN  /\ w \in Seq(Conns \cup {NoConn})
             /\ Len(w) = IF a = Sentinel THEN k ELSE k + 1
             /\ \A i \in 1..k : q[i] \in Fds /\ w[i] = s[q[i]]
             /\ a # Sentinel => w[k + 1] = s[a]
<1> DEFINE queued == [i \in {j \in 1..Len(q) : q[j] # Sentinel} |-> s[q[i]]]
<1>0. Len(q) \in Nat /\ k <= Len(q)
  BY DEF Front
<1>1. {j \in 1..Len(q) : q[j] # Sentinel} = 1..k
  BY <1>0 DEF Front
<1>2. \A i \in 1..k : q[i] \in Fds
  BY <1>0 DEF Front
<1>3. queued \in [1..k -> Conns \cup {NoConn}] /\ \A i \in 1..k : queued[i] = s[q[i]]
  BY <1>1, <1>2
<1>5. WaitingOf(q, s, a) = IF a = Sentinel THEN queued ELSE Append(queued, s[a])
  BY DEF WaitingOf
<1> HIDE DEF queued
<1>4. queued \in Seq(Conns \cup {NoConn}) /\ Len(queued) = k
  BY <1>3
<1>6. CASE a = Sentinel
  BY <1>2, <1>3, <1>4, <1>5, <1>6
<1>7. CASE a # Sentinel
  <2>1. s[a] \in Conns \cup {NoConn}
    BY <1>7
  <2>2. /\ Append(queued, s[a]) \in Seq(Conns \cup {NoConn})
        /\ Len(Append(queued, s[a])) = k + 1
        /\ \A i \in 1..k : Append(queued, s[a])[i] = queued[i]
        /\ Append(queued, s[a])[k + 1] = s[a]
    BY <1>4, <2>1, AppendFacts
  <2> QED
    BY <1>2, <1>3, <1>5, <1>7, <2>2
<1> QED
  BY <1>6, <1>7

\* The queue keeps its shape: pushes of descriptors precede the sentinels.
LEMMA FrontStep == IInv /\ FrontInv /\ [Next]_vars => FrontInv'
<1> SUFFICES ASSUME IInv, FrontInv, [Next]_vars PROVE FrontInv'
  OBVIOUS
<1>0. TypeOK /\ SentinelInv /\ LocalInv
  BY DEF IInv
<1>k. PICK k \in Nat : Front(queue, k)
  BY DEF FrontInv
<1>q. queue \in Seq(Fds \cup {Sentinel}) /\ Len(queue) \in Nat
  BY <1>0 DEF TypeOK
<1> USE DEF kernel, acceptor, workers, mgmt
<1>1. CASE UNCHANGED queue
  BY <1>1 DEF FrontInv, Front
<1>2. CASE AcceptorPush
  <2>1. queue' = Append(queue, accFd) /\ accFd \in Fds /\ accFd # Sentinel
    BY <1>0, <1>2 DEF AcceptorPush, LocalInv, TypeOK
  <2>2. \A i \in 1..Len(queue) : queue[i] # Sentinel
    BY <1>0, <1>2 DEF AcceptorPush, SentinelInv, TypeOK
  <2>3. /\ Len(queue') = Len(queue) + 1 /\ queue'[Len(queue) + 1] = accFd
        /\ \A i \in 1..Len(queue) : queue'[i] = queue[i]
    BY <1>q, <2>1, AppendFacts
  <2>4. Front(queue', Len(queue'))
    BY <1>q, <2>1, <2>2, <2>3 DEF Front
  <2> QED
    BY <1>q, <2>3, <2>4 DEF FrontInv
<1>3. ASSUME NEW w \in Workers, WorkerTake(w) PROVE FrontInv'
  <2>1. queue # <<>> /\ queue' = Tail(queue)
    BY <1>3 DEF WorkerTake
  <2>2. /\ Len(queue') = Len(queue) - 1 /\ Len(queue) > 0
        /\ \A i \in 1..Len(queue') : queue'[i] = queue[i + 1]
    BY <1>q, <2>1, TailFacts
  <2>3. CASE k = 0
    <3>1. Front(queue', 0)
      BY <1>k, <1>q, <2>2, <2>3 DEF Front
    <3> QED
      BY <3>1 DEF FrontInv
  <2>4. CASE k > 0
    <3>1. Front(queue', k - 1)
      BY <1>k, <1>q, <2>2, <2>4 DEF Front
    <3> QED
      BY <2>4, <3>1 DEF FrontInv
  <2> QED
    BY <2>3, <2>4
<1>4. CASE MainPushSentinels
  <2>1. \A i \in 1..Len(queue) : queue[i] # Sentinel
    BY <1>0, <1>4 DEF MainPushSentinels, SentinelInv
  <2>2. /\ Len(queue') = Len(queue) + N
        /\ \A i \in 1..Len(queue) : queue'[i] = queue[i]
        /\ \A i \in 1..Len(queue') : i \in 1..Len(queue) \/ queue'[i] = Sentinel
    BY <1>4, <1>q, SentinelFacts DEF MainPushSentinels
  <2>3. Front(queue', Len(queue))
    BY <1>q, <2>1, <2>2, WorkersCount DEF Front
  <2> QED
    BY <1>q, <2>3 DEF FrontInv
<1>5. \/ UNCHANGED queue \/ AcceptorPush \/ MainPushSentinels
      \/ \E w \in Workers : WorkerTake(w)
  BY DEF Next, Acceptor, Worker, Main, Connect, MgmtShutdown, MgmtWrite, MgmtEof, AcceptorReady,
         AcceptorShutdown, AcceptorSelectError, AcceptorAccept, AcceptorAcceptFails, WorkerWait,
         WorkerSpuriousWakeup, WorkerHandled, WorkerClose, MainNotifyAll, MainJoinWorkers, vars
<1> QED
  BY <1>1, <1>2, <1>3, <1>4, <1>5

\* accept() and close() move a connection on; a client connects once.
LEMMA ConnStep == IInv /\ ConnInv /\ [Next]_vars => ConnInv'
<1> SUFFICES ASSUME IInv, ConnInv, [Next]_vars PROVE ConnInv'
  OBVIOUS
<1>0. TypeOK /\ BacklogInv
  BY DEF IInv
<1>b. backlog \in Seq(Conns) /\ Len(backlog) \in Nat /\ DOMAIN backlog = 1..Len(backlog)
  BY <1>0 DEF TypeOK
<1> USE DEF kernel, acceptor, workers, mgmt
<1>1. CASE UNCHANGED kernel
  BY <1>1 DEF ConnInv
<1>2. ASSUME NEW c \in Conns, Connect(c) PROVE ConnInv'
  <2>1. /\ Len(backlog') = Len(backlog) + 1 /\ backlog'[Len(backlog) + 1] = c
        /\ \A i \in 1..Len(backlog) : backlog'[i] = backlog[i]
    BY <1>2, <1>b, AppendFacts DEF Connect
  <2>2. ~Seen(c) /\ UNCHANGED <<sock, closed>>
    BY <1>2 DEF Connect
  <2> QED
    BY <1>b, <2>1, <2>2 DEF ConnInv, Seen
<1>3. ASSUME backlog' = Tail(backlog), backlog # <<>>, UNCHANGED closed,
             \/ UNCHANGED sock
             \/ \E f \in FreeFds : sock' = [sock EXCEPT ![f] = Head(backlog)]
      PROVE  ConnInv'
  <2>1. /\ Len(backlog') = Len(backlog) - 1 /\ Head(backlog) = backlog[1] /\ 1 \in 1..Len(backlog)
        /\ \A i \in 1..Len(backlog') :
             i + 1 \in 1..Len(backlog) /\ i + 1 # 1 /\ backlog'[i] = backlog[i + 1]
        /\ \A i, j \in 1..Len(backlog') : i + 1 = j + 1 => i = j
    BY <1>3, <1>b, TailFacts
  <2>2. CASE UNCHANGED sock
    BY <1>3, <2>1, <2>2 DEF ConnInv
  <2>3. ASSUME NEW f \in FreeFds, sock' = [sock EXCEPT ![f] = Head(backlog)] PROVE ConnInv'
    <3>1. /\ f \in Fds /\ sock'[f] = backlog[1] /\ sock[f] = NoConn
          /\ \A g \in Fds \ {f} : sock'[g] = sock[g]
      BY <1>0, <2>1, <2>3 DEF FreeFds, TypeOK
    <3> QED
      BY <1>3, <2>1, <3>1 DEF ConnInv
  <2> QED
    BY <1>3, <2>2, <2>3
<1>4. ASSUME NEW f \in Fds, AcceptorAccept(f) PROVE ConnInv'
  BY <1>0, <1>3, <1>4 DEF AcceptorAccept, BacklogInv
<1>5. CASE AcceptorAcceptFails
  BY <1>0, <1>1, <1>3, <1>5 DEF AcceptorAcceptFails, BacklogInv
<1>6. ASSUME NEW w \in Workers, WorkerClose(w) PROVE ConnInv'
  <2>1. /\ UNCHANGED backlog /\ wfd[w] \in Fds
        /\ closed' = closed \cup ({sock[wfd[w]]} \ {NoConn})
        /\ sock' = [sock EXCEPT ![wfd[w]] = NoConn]
    BY <1>0, <1>6 DEF WorkerClose, TypeOK, IInv, LocalInv
  <2>2. /\ sock'[wfd[w]] = NoConn
        /\ \A g \in Fds : g = wfd[w] \/ sock'[g] = sock[g]
    BY <1>0, <2>1 DEF TypeOK
  <2>5. NoConn \notin closed'
    BY <1>0, <2>1 DEF TypeOK
  <2>4. \A i \in 1..Len(backlog) : backlog[i] \in Conns
    BY <1>b
  <2>3. \A g \in Fds : sock'[g] # NoConn => g # wfd[w] /\ sock'[g] = sock[g]
    BY <2>2
  <2> QED
    BY <2>1, <2>2, <2>3, <2>4, <2>5 DEF ConnInv
<1>7. \/ UNCHANGED kernel \/ (\E c \in Conns : Connect(c)) \/ AcceptorAcceptFails
      \/ (\E f \in Fds : AcceptorAccept(f)) \/ \E w \in Workers : WorkerClose(w)
  BY DEF Next, Acceptor, Worker, Main, MgmtShutdown, MgmtWrite, MgmtEof, AcceptorReady,
         AcceptorShutdown, AcceptorSelectError, AcceptorPush, WorkerWait, WorkerTake,
         WorkerSpuriousWakeup, WorkerHandled, MainPushSentinels, MainNotifyAll, MainJoinWorkers,
         vars
<1> QED
  BY <1>1, <1>2, <1>4, <1>5, <1>6, <1>7
\* The invariant of the refinement.
RInv == IInv /\ FrontInv /\ ConnInv

LEMMA InitRInv == Init => RInv
<1> SUFFICES ASSUME Init PROVE RInv
  OBVIOUS
<1>1. FrontInv
  <2>1. queue = <<>> /\ Len(queue) = 0
    BY DEF Init
  <2>2. Front(queue, 0)
    BY <2>1 DEF Front
  <2> QED
    BY <2>2 DEF FrontInv
<1>2. ConnInv
  BY DEF Init, ConnInv
<1> QED
  BY <1>1, <1>2, InitIInv DEF RInv

LEMMA NextRInv == RInv /\ [Next]_vars => RInv'
BY StepIInv, FrontStep, ConnStep DEF RInv

(***************************************************************************)
(* What the abstract variables are in a state of the thread pool.           *)
(***************************************************************************)
LEMMA WaitingNow ==
  ASSUME RInv, NEW k \in Nat, Front(queue, k)
  PROVE  /\ WaitingConns = WaitingOf(queue, sock, accFd)
         /\ WaitingConns \in Seq(Conns \cup {NoConn})
         /\ Len(WaitingConns) = IF accFd = Sentinel THEN k ELSE k + 1
         /\ \A i \in 1..k : queue[i] \in Fds /\ WaitingConns[i] = sock[queue[i]]
         /\ accFd # Sentinel => WaitingConns[k + 1] = sock[accFd]
<1>1. WaitingConns = WaitingOf(queue, sock, accFd)
  BY DEF WaitingConns, WaitingOf
<1>2. /\ queue \in Seq(Fds \cup {Sentinel}) /\ sock \in [Fds -> Conns \cup {NoConn}]
      /\ accFd \in Fds \cup {Sentinel}
  BY DEF RInv, IInv, TypeOK
<1> QED
  BY <1>1, <1>2, WaitingFacts

LEMMA WaitingNext ==
  ASSUME RInv', NEW k \in Nat, Front(queue', k)
  PROVE  /\ WaitingConns' \in Seq(Conns \cup {NoConn})
         /\ Len(WaitingConns') = IF accFd' = Sentinel THEN k ELSE k + 1
         /\ \A i \in 1..k : queue'[i] \in Fds /\ WaitingConns'[i] = sock'[queue'[i]]
         /\ accFd' # Sentinel => WaitingConns'[k + 1] = sock'[accFd']
<1>1. WaitingConns' = WaitingOf(queue', sock', accFd')
  BY DEF WaitingConns, WaitingOf
<1>2. /\ queue' \in Seq(Fds \cup {Sentinel}) /\ sock' \in [Fds -> Conns \cup {NoConn}]
      /\ accFd' \in Fds \cup {Sentinel}
  BY DEF RInv, IInv, TypeOK
<1> QED
  BY <1>1, <1>2, WaitingFacts

\* Neither the front of the queue nor client_fd of the acceptor changes.
LEMMA SameWaiting ==
  ASSUME RInv, RInv', NEW k \in Nat, Front(queue, k), Front(queue', k), accFd' = accFd,
         \A i \in 1..k : queue'[i] = queue[i] /\ sock'[queue[i]] = sock[queue[i]],
         accFd # Sentinel => sock'[accFd] = sock[accFd]
  PROVE  WaitingConns' = WaitingConns
<1> DEFINE v == WaitingConns
           w == WaitingConns'
<1>1. /\ v \in Seq(Conns \cup {NoConn}) /\ Len(v) = IF accFd = Sentinel THEN k ELSE k + 1
      /\ \A i \in 1..k : v[i] = sock[queue[i]]
      /\ accFd # Sentinel => v[k + 1] = sock[accFd]
  BY WaitingNow
<1>2. /\ w \in Seq(Conns \cup {NoConn}) /\ Len(w) = IF accFd = Sentinel THEN k ELSE k + 1
      /\ \A i \in 1..k : w[i] = sock[queue[i]]
      /\ accFd # Sentinel => w[k + 1] = sock[accFd]
  BY WaitingNext
<1> HIDE DEF v, w
<1>3. Len(v) = Len(w)
  BY <1>1, <1>2
<1>4. ASSUME NEW i \in 1..Len(v) PROVE v[i] = w[i]
  BY <1>1, <1>2
<1>5. v = w
  BY <1>1, <1>2, <1>3, <1>4, SeqEqual
<1> QED
  BY <1>5 DEF v, w

(***************************************************************************)
(* The connections in service.                                              *)
(***************************************************************************)
Busy == {v \in Workers : wpc[v] \in {"serve", "close"}}

\* A busy worker serves an open connection, alone.
LEMMA ServingFacts ==
  ASSUME RInv
  PROVE  /\ ServingConns = {sock[wfd[v]] : v \in Busy}
         /\ \A v \in Busy : wfd[v] \in Fds /\ sock[wfd[v]] \in Conns
         /\ \A v, w \in Busy : sock[wfd[v]] = sock[wfd[w]] => v = w
<1>1. ServingConns = {sock[wfd[v]] : v \in Busy}
  BY DEF ServingConns, Busy
<1>2. ASSUME NEW v \in Busy PROVE wfd[v] \in Fds /\ sock[wfd[v]] \in Conns
  <2>1. v \in Workers /\ wfd[v] \in Fds
    BY DEF Busy, RInv, IInv, LocalInv, TypeOK
  <2>2. sock[wfd[v]] # NoConn
    BY <2>1 DEF RInv, IInv, DescriptorOwnership, OpenIffHeld, Held
  <2> QED
    BY <2>1, <2>2 DEF RInv, IInv, TypeOK
<1>3. ASSUME NEW v \in Busy, NEW w \in Busy, sock[wfd[v]] = sock[wfd[w]] PROVE v = w
  <2>1. wfd[v] = wfd[w]
    <3>1. wfd[v] \in Fds /\ wfd[w] \in Fds /\ sock[wfd[v]] # NoConn
      BY <1>2
    <3> QED
      BY <1>3, <3>1 DEF RInv, ConnInv
  <2> QED
    BY <1>2, <2>1 DEF Busy, RInv, IInv, DescriptorOwnership, HeldOnce
<1> QED
  BY <1>1, <1>2, <1>3

\* The instance has the Cardinality of this module.
LEMMA SameCardinality == \A S : Service!Cardinality(S) = Cardinality(S)
BY DEF Service!Cardinality, Cardinality

\* With a worker that is not busy less than Capacity connections are in service.
LEMMA RoomToServe ==
  ASSUME RInv, NEW w \in Workers \ Busy
  PROVE  Cardinality(ServingConns) < N
<1> DEFINE f == [v \in Busy |-> sock[wfd[v]]]
<1>1. IsFiniteSet(Workers \ {w}) /\ Cardinality(Workers \ {w}) = N - 1
  BY WorkersAssumption, FS_RemoveElement DEF N
<1>2. Busy \subseteq Workers \ {w}
  BY DEF Busy
<1>3. IsFiniteSet(Busy) /\ Cardinality(Busy) <= N - 1
  BY <1>1, <1>2, FS_Subset
<1>4. f \in Surjection(Busy, ServingConns)
  BY ServingFacts DEF Surjection
<1>5. IsFiniteSet(ServingConns) /\ Cardinality(ServingConns) <= Cardinality(Busy)
  BY <1>3, <1>4, FS_Surjection
<1> QED
  BY <1>3, <1>5, WorkersCount, FS_CardinalityType
LEMMA SameServing ==
  ASSUME Busy' = Busy, \A v \in Busy : sock'[wfd'[v]] = sock[wfd[v]]
  PROVE  ServingConns' = ServingConns
<1>1. ServingConns = {sock[wfd[v]] : v \in Busy}
  BY DEF ServingConns, Busy
<1>2. ServingConns' = {sock'[wfd'[v]] : v \in Busy'}
  BY DEF ServingConns, Busy
<1> QED
  BY <1>1, <1>2

(***************************************************************************)
(* The steps.                                                               *)
(***************************************************************************)
\* Steps of other threads, sleeping, waking, and the end of handle_connection.
LEMMA QuietStep ==
  ASSUME RInv, RInv', UNCHANGED <<queue, sock, accFd, wfd, closed>>, Busy' = Busy,
         mainPc' = "returned" <=> mainPc = "returned"
  PROVE  UNCHANGED Service!vars
<1>1. WaitingConns' = WaitingConns
  BY DEF WaitingConns
<1>2. ServingConns' = ServingConns
  BY SameServing
<1> QED
  BY <1>1, <1>2 DEF Service!vars

\* The connection stays the youngest one waiting when it moves from client_fd into
\* the queue.
LEMMA PushStep ==
  ASSUME RInv, RInv', AcceptorPush
  PROVE  UNCHANGED Service!vars
<1> USE DEF kernel, acceptor, workers, mgmt
<1>0. IInv /\ TypeOK
  BY DEF RInv, IInv
<1>1. PICK k \in Nat : Front(queue, k)
  BY DEF RInv, FrontInv
<1>2. /\ accFd \in Fds /\ accFd # Sentinel /\ accFd' = Sentinel
      /\ queue' = Append(queue, accFd) /\ queue \in Seq(Fds \cup {Sentinel})
      /\ UNCHANGED <<sock, closed, wfd, mainPc>>
  BY <1>0 DEF AcceptorPush, IInv, LocalInv, TypeOK
<1>3. /\ Len(queue) \in Nat /\ Len(queue') = Len(queue) + 1
      /\ \A i \in 1..Len(queue) : queue'[i] = queue[i]
      /\ queue'[Len(queue) + 1] = accFd
  BY <1>2, AppendFacts
<1>4. k = Len(queue)
  <2>1. \A i \in 1..Len(queue) : queue[i] # Sentinel
    BY <1>0 DEF AcceptorPush, IInv, SentinelInv, TypeOK
  <2>2. k = Len(queue) \/ k + 1 \in 1..Len(queue)
    BY <1>1, <1>3 DEF Front
  <2> QED
    BY <1>1, <2>1, <2>2 DEF Front
<1>5. Front(queue', k + 1)
  BY <1>1, <1>2, <1>3, <1>4 DEF Front
<1> DEFINE v == WaitingConns
           w == WaitingConns'
<1>6. /\ v \in Seq(Conns \cup {NoConn}) /\ Len(v) = k + 1
      /\ \A i \in 1..k : v[i] = sock[queue[i]]
      /\ v[k + 1] = sock[accFd]
  BY <1>1, <1>2, WaitingNow
<1>7. /\ w \in Seq(Conns \cup {NoConn}) /\ Len(w) = k + 1
      /\ \A i \in 1..(k + 1) : w[i] = sock'[queue'[i]]
  <2>1. k + 1 \in Nat
    OBVIOUS
  <2>2. /\ w \in Seq(Conns \cup {NoConn})
        /\ Len(w) = IF accFd' = Sentinel THEN k + 1 ELSE k + 1 + 1
        /\ \A i \in 1..(k + 1) : queue'[i] \in Fds /\ w[i] = sock'[queue'[i]]
    BY <1>5, <2>1, WaitingNext
  <2> QED
    BY <1>2, <2>2
<1> HIDE DEF v, w
<1>8. ASSUME NEW i \in 1..Len(v) PROVE v[i] = w[i]
  BY <1>2, <1>3, <1>4, <1>6, <1>7
<1>9. v = w
  BY <1>6, <1>7, <1>8, SeqEqual
<1>10. Busy' = Busy
  BY <1>0 DEF AcceptorPush, NotifyOne, At, Busy, TypeOK
<1>11. ServingConns' = ServingConns
  BY <1>2, <1>10, SameServing
<1> QED
  BY <1>2, <1>9, <1>11 DEF v, w, Service!vars

\* accept() adds a connection behind those that wait; it is new to the server.
LEMMA AcceptStep ==
  ASSUME RInv, RInv', NEW f \in Fds, AcceptorAccept(f)
  PROVE  \E c \in Conns : Service!Accept(c)
<1> USE DEF kernel, acceptor, workers, mgmt
<1>0. IInv /\ TypeOK /\ ConnInv
  BY DEF RInv, IInv
<1>1. PICK k \in Nat : Front(queue, k)
  BY DEF RInv, FrontInv
<1> DEFINE c == Head(backlog)
<1>2. backlog # <<>> /\ backlog \in Seq(Conns) /\ accPc = "accept"
  BY <1>0 DEF AcceptorAccept, IInv, BacklogInv, TypeOK
<1>3. c \in Conns /\ c = backlog[1] /\ 1 \in 1..Len(backlog)
  BY <1>2, TailFacts
<1> HIDE DEF c
<1>4. /\ sock' = [sock EXCEPT ![f] = c] /\ sock[f] = NoConn /\ accFd' = f /\ accFd = Sentinel
      /\ f # Sentinel /\ UNCHANGED <<queue, closed, wfd, wpc, mainPc>>
  BY <1>0, SentinelNotFd DEF AcceptorAccept, FreeFds, IInv, LocalInv, TypeOK, c
<1>5. ~Held(f)
  BY <1>0, <1>4 DEF IInv, DescriptorOwnership, OpenIffHeld
<1>6. \A g \in Fds : sock'[g] = IF g = f THEN c ELSE sock[g]
  BY <1>0, <1>4 DEF TypeOK
<1> DEFINE v == WaitingConns
           w == WaitingConns'
<1>7. /\ v \in Seq(Conns \cup {NoConn}) /\ Len(v) = k
      /\ \A i \in 1..k : queue[i] \in Fds /\ v[i] = sock[queue[i]]
  BY <1>1, <1>4, WaitingNow
<1>8. /\ w \in Seq(Conns \cup {NoConn}) /\ Len(w) = k + 1
      /\ \A i \in 1..k : w[i] = sock'[queue[i]]
      /\ w[k + 1] = sock'[f]
  <2>1. Front(queue', k)
    BY <1>1, <1>4
  <2> QED
    BY <1>4, <2>1, WaitingNext
<1>9. \A i \in 1..k : queue[i] # f
  BY <1>1, <1>5 DEF Held, Queued, Front
<1> HIDE DEF v, w
<1>10. w = Append(v, c)
  <2> DEFINE u == Append(v, c)
  <2>1. /\ u \in Seq(Conns \cup {NoConn}) /\ Len(u) = k + 1 /\ u[k + 1] = c
        /\ \A i \in 1..k : u[i] = v[i]
    BY <1>3, <1>7, AppendFacts
  <2> HIDE DEF u
  <2>2. ASSUME NEW i \in 1..Len(u) PROVE u[i] = w[i]
    <3>1. CASE i = k + 1
      BY <1>6, <1>8, <2>1, <3>1
    <3>2. CASE i \in 1..k
      <4>1. sock'[queue[i]] = sock[queue[i]]
        BY <1>6, <1>7, <1>9, <3>2
      <4> QED
        BY <1>7, <1>8, <2>1, <3>2, <4>1
    <3> QED
      BY <2>1, <3>1, <3>2
  <2>3. u = w
    BY <1>8, <2>1, <2>2, SeqEqual
  <2> QED
    BY <2>3 DEF u
<1>11. ServingConns' = ServingConns
  <2>1. Busy' = Busy
    BY <1>4 DEF Busy
  <2>2. \A b \in Busy : wfd[b] \in Fds /\ wfd[b] # f
    BY <1>5, ServingFacts DEF Busy, Held
  <2> QED
    BY <1>4, <1>6, <2>1, <2>2, SameServing
<1>12. \A g \in Fds : sock[g] # c
  BY <1>0, <1>3 DEF ConnInv
<1>13. ~Service!Waiting(c)
  <2>1. DOMAIN v = 1..k
    BY <1>7
  <2>2. \A i \in DOMAIN v : v[i] # c
    BY <1>7, <1>12, <2>1
  <2> QED
    BY <2>2 DEF Service!Waiting, v
<1>14. c \notin ServingConns \cup closed
  BY <1>0, <1>3, <1>12, ServingFacts DEF ConnInv
<1>15. mainPc # "returned"
  BY <1>0, <1>2 DEF IInv, SentinelInv
<1>16. Service!Accept(c)
  BY <1>4, <1>10, <1>11, <1>13, <1>14, <1>15 DEF Service!Accept, v, w
<1> QED
  BY <1>3, <1>16
\* A worker that takes a descriptor takes the connection that waits longest; one that
\* takes a sentinel, none.
LEMMA TakeStep ==
  ASSUME RInv, RInv', NEW w \in Workers, WorkerTake(w)
  PROVE  Service!Start \/ UNCHANGED Service!vars
<1> USE DEF kernel, acceptor, workers, mgmt
<1>0. IInv /\ TypeOK
  BY DEF RInv, IInv
<1>1. PICK k \in Nat : Front(queue, k)
  BY DEF RInv, FrontInv
<1> DEFINE h == Head(queue)
<1>2. /\ queue # <<>> /\ queue \in Seq(Fds \cup {Sentinel}) /\ wpc[w] = "lock"
      /\ queue' = Tail(queue) /\ wfd' = [wfd EXCEPT ![w] = h]
      /\ wpc' = [wpc EXCEPT ![w] = IF h = Sentinel THEN "exited" ELSE "serve"]
      /\ UNCHANGED <<sock, closed, accFd, mainPc>>
  BY <1>0 DEF WorkerTake, TypeOK
<1>3. /\ h = queue[1] /\ Len(queue) \in Nat /\ Len(queue) > 0 /\ Len(queue') = Len(queue) - 1
      /\ \A i \in 1..Len(queue') : queue'[i] = queue[i + 1]
  BY <1>2, TailFacts
<1> HIDE DEF h
<1>4. w \in Workers \ Busy /\ \A b \in Busy : b # w /\ wfd'[b] = wfd[b]
  BY <1>0, <1>2 DEF Busy, TypeOK
<1>5. CASE h = Sentinel
  <2>1. k = 0
    <3>1. 1 \in 1..Len(queue) /\ queue[1] = Sentinel
      BY <1>3, <1>5
    <3>2. ~(1 <= k)
      BY <1>1, <3>1 DEF Front
    <3> QED
      BY <3>2
  <2>2. Front(queue', 0)
    BY <1>1, <1>3, <2>1 DEF Front
  <2>3. WaitingConns' = WaitingConns
    BY <1>1, <1>2, <2>1, <2>2, SameWaiting
  <2>4. Busy' = Busy
    BY <1>0, <1>2, <1>5 DEF Busy, TypeOK
  <2>5. ServingConns' = ServingConns
    BY <1>2, <1>4, <2>4, SameServing
  <2> QED
    BY <1>2, <2>3, <2>5 DEF Service!vars
<1>6. CASE h # Sentinel
  <2>1. k > 0 /\ k - 1 \in Nat
    BY <1>1, <1>3, <1>6 DEF Front
  <2>2. Front(queue', k - 1)
    BY <1>1, <1>3, <2>1 DEF Front
  <2> DEFINE u == WaitingConns
             v == WaitingConns'
  <2>3. /\ u \in Seq(Conns \cup {NoConn}) /\ Len(u) = IF accFd = Sentinel THEN k ELSE k + 1
        /\ \A i \in 1..k : u[i] = sock[queue[i]]
        /\ accFd # Sentinel => u[k + 1] = sock[accFd]
    BY <1>1, WaitingNow
  <2>4. /\ v \in Seq(Conns \cup {NoConn})
        /\ Len(v) = IF accFd' = Sentinel THEN k - 1 ELSE k - 1 + 1
        /\ \A i \in 1..(k - 1) : queue'[i] \in Fds /\ v[i] = sock'[queue'[i]]
        /\ accFd' # Sentinel => v[k - 1 + 1] = sock'[accFd']
    BY <2>1, <2>2, WaitingNext
  <2> HIDE DEF u, v
  <2>5. u # <<>> /\ Head(u) = sock[h]
    BY <1>3, <2>1, <2>3
  <2>6. v = Tail(u)
    <3> DEFINE t == Tail(u)
    <3>1. /\ t \in Seq(Conns \cup {NoConn}) /\ Len(t) = Len(u) - 1
          /\ \A i \in 1..Len(t) : t[i] = u[i + 1]
      BY <2>3, <2>5, TailFacts
    <3> HIDE DEF t
    <3>2. Len(v) = Len(t)
      BY <1>2, <2>1, <2>3, <2>4, <3>1
    <3>3. ASSUME NEW i \in 1..Len(v) PROVE v[i] = t[i]
      <4>1. CASE i \in 1..(k - 1)
        <5>1. i \in 1..Len(queue') /\ i + 1 \in 1..k
          BY <1>1, <1>3, <2>1, <4>1 DEF Front
        <5>2. v[i] = sock[queue[i + 1]]
          BY <1>2, <1>3, <2>4, <4>1, <5>1
        <5> QED
          BY <2>3, <3>1, <3>2, <5>1, <5>2
      <4>2. CASE i = k /\ accFd # Sentinel
        <5>1. v[k] = sock[accFd] /\ u[k + 1] = sock[accFd] /\ t[k] = u[k + 1]
          BY <1>2, <2>1, <2>3, <2>4, <3>1, <3>2, <4>2
        <5> QED
          BY <4>2, <5>1
      <4> QED
        BY <1>2, <2>1, <2>4, <4>1, <4>2
    <3>4. v = t
      BY <2>4, <3>1, <3>2, <3>3, SeqEqual
    <3> QED
      BY <3>4 DEF t
  <2>7. ServingConns' = ServingConns \cup {sock[h]}
    <3>1. Busy' = Busy \cup {w} /\ wfd'[w] = h
      BY <1>0, <1>2, <1>6 DEF Busy, TypeOK
    <3>2. ServingConns' = {sock'[wfd'[b]] : b \in Busy'}
      BY DEF ServingConns, Busy
    <3>3. ServingConns = {sock[wfd[b]] : b \in Busy}
      BY ServingFacts
    <3> QED
      BY <1>2, <1>4, <3>1, <3>2, <3>3
  <2>8. Cardinality(ServingConns) < N
    BY <1>4, RoomToServe
  <2>9. /\ WaitingConns # <<>> /\ WaitingConns' = Tail(WaitingConns)
        /\ ServingConns' = ServingConns \cup {Head(WaitingConns)}
    BY <2>5, <2>6, <2>7 DEF u, v
  <2> QED
    BY <1>2, <2>8, <2>9, SameCardinality DEF Service!Start
<1> QED
  BY <1>5, <1>6

\* close() ends the service of the worker's own connection.
LEMMA CloseStep ==
  ASSUME RInv, RInv', NEW w \in Workers, WorkerClose(w)
  PROVE  \E c \in Conns : Service!Finish(c)
<1> USE DEF kernel, acceptor, workers, mgmt
<1>0. IInv /\ TypeOK
  BY DEF RInv, IInv
<1>1. PICK k \in Nat : Front(queue, k)
  BY DEF RInv, FrontInv
<1> DEFINE f == wfd[w]
           c == sock[f]
<1>2. w \in Busy
  BY DEF WorkerClose, Busy
<1>3. f \in Fds /\ c \in Conns /\ c \in ServingConns
  BY <1>2, ServingFacts
<1>4. /\ sock' = [sock EXCEPT ![f] = NoConn] /\ closed' = closed \cup {c}
      /\ wpc' = [wpc EXCEPT ![w] = "lock"] /\ wfd' = [wfd EXCEPT ![w] = Sentinel]
      /\ UNCHANGED <<queue, accFd, mainPc>>
  BY <1>3 DEF WorkerClose
<1> HIDE DEF f, c
<1>5. \A g \in Fds \ {f} : sock'[g] = sock[g]
  BY <1>0, <1>3, <1>4 DEF TypeOK
<1>6. accFd # f /\ \A i \in 1..Len(queue) : queue[i] # f
  BY <1>0, <1>3 DEF IInv, DescriptorOwnership, HeldOnce, Queued, f
<1>7. WaitingConns' = WaitingConns
  <2>1. \A i \in 1..k : queue[i] \in Fds \ {f}
    BY <1>0, <1>1, <1>6 DEF Front, TypeOK
  <2>2. accFd # Sentinel => accFd \in Fds \ {f}
    BY <1>0, <1>6 DEF TypeOK
  <2> QED
    BY <1>1, <1>4, <1>5, <2>1, <2>2, SameWaiting
<1>8. ServingConns' = ServingConns \ {c}
  <2>1. Busy' = Busy \ {w}
    BY <1>0, <1>4 DEF Busy, TypeOK
  <2>2. \A b \in Busy \ {w} : sock[wfd[b]] # c /\ sock'[wfd'[b]] = sock[wfd[b]]
    <3> SUFFICES ASSUME NEW b \in Busy \ {w}
                 PROVE  sock[wfd[b]] # c /\ sock'[wfd'[b]] = sock[wfd[b]]
      OBVIOUS
    <3>1. wfd[b] \in Fds /\ sock[wfd[b]] # c
      BY <1>2, ServingFacts DEF c, f
    <3>2. wfd'[b] = wfd[b]
      BY <1>0, <1>4 DEF TypeOK, Busy
    <3>3. wfd[b] # f
      BY <3>1 DEF c
    <3> QED
      BY <1>5, <3>1, <3>2, <3>3
  <2>3. ServingConns' = {sock'[wfd'[b]] : b \in Busy'}
    BY DEF ServingConns, Busy
  <2>4. ServingConns = {sock[wfd[b]] : b \in Busy}
    BY ServingFacts
  <2>5. c = sock[wfd[w]]
    BY DEF c, f
  <2> QED
    BY <1>2, <2>1, <2>2, <2>3, <2>4, <2>5
<1>9. Service!Finish(c)
  BY <1>3, <1>4, <1>7, <1>8 DEF Service!Finish
<1> QED
  BY <1>3, <1>9

\* Sentinels are no connections.
LEMMA SentinelsStep ==
  ASSUME RInv, RInv', MainPushSentinels
  PROVE  UNCHANGED Service!vars
<1> USE DEF kernel, acceptor, workers, mgmt
<1>0. IInv /\ TypeOK
  BY DEF RInv, IInv
<1>1. /\ Len(queue) \in Nat /\ Len(queue') = Len(queue) + N /\ N \in Nat
      /\ \A i \in 1..Len(queue) : queue[i] # Sentinel /\ queue'[i] = queue[i]
      /\ \A i \in 1..Len(queue') : i \in 1..Len(queue) \/ queue'[i] = Sentinel
  BY <1>0, SentinelFacts, WorkersCount DEF MainPushSentinels, IInv, SentinelInv, TypeOK
<1>2. Front(queue, Len(queue)) /\ Front(queue', Len(queue))
  BY <1>1 DEF Front
<1>3. UNCHANGED <<sock, closed, accFd, wfd, wpc>> /\ mainPc # "returned" /\ mainPc' # "returned"
  BY DEF MainPushSentinels
<1>4. WaitingConns' = WaitingConns
  BY <1>1, <1>2, <1>3, SameWaiting
<1>5. ServingConns' = ServingConns
  BY <1>3 DEF ServingConns
<1> QED
  BY <1>3, <1>4, <1>5 DEF Service!vars

\* When all workers are joined nothing that was accepted waits or is in service.
LEMMA JoinStep ==
  ASSUME RInv, RInv', MainJoinWorkers
  PROVE  Service!Stop
<1> USE DEF kernel, acceptor, workers, mgmt
<1>0. IInv /\ TypeOK
  BY DEF RInv, IInv
<1>1. PICK k \in Nat : Front(queue, k)
  BY DEF RInv, FrontInv
<1>2. /\ \A w \in Workers : wpc[w] = "exited"
      /\ mainPc = "join_workers" /\ mainPc' = "returned"
      /\ UNCHANGED <<queue, sock, closed, accFd, wfd, wpc>>
  BY DEF MainJoinWorkers, At
<1>3. accFd = Sentinel /\ \A i \in 1..Len(queue) : queue[i] = Sentinel
  BY <1>0, <1>2, WorkersAssumption DEF IInv, SentinelInv, LocalInv
<1>4. k = 0
  <2>1. Len(queue) \in Nat
    BY <1>0 DEF TypeOK
  <2> QED
    BY <1>1, <1>3, <2>1 DEF Front
<1>5. WaitingConns = <<>>
  BY <1>1, <1>3, <1>4, WaitingNow
<1>6. ServingConns = {}
  BY <1>2 DEF ServingConns
<1>7. WaitingConns' = WaitingConns /\ ServingConns' = ServingConns
  BY <1>2 DEF WaitingConns, ServingConns
<1> QED
  BY <1>2, <1>5, <1>6, <1>7 DEF Service!Stop
\* Every step of the thread pool is a step of the service or changes nothing of it.
LEMMA StepRefines == RInv /\ [Next]_vars => [Service!Next]_(Service!vars)
<1> SUFFICES ASSUME RInv, [Next]_vars PROVE Service!Next \/ UNCHANGED Service!vars
  OBVIOUS
<1>0. RInv'
  BY NextRInv
<1> USE DEF kernel, acceptor, workers, mgmt
<1>1. CASE \/ (\E c \in Conns : Connect(c)) \/ MgmtShutdown \/ MgmtWrite \/ MgmtEof
           \/ AcceptorReady \/ AcceptorShutdown \/ AcceptorSelectError \/ AcceptorAcceptFails
           \/ UNCHANGED vars
  <2>1. UNCHANGED <<queue, sock, accFd, wfd, closed, wpc, mainPc>>
    BY <1>1 DEF Connect, MgmtShutdown, MgmtWrite, MgmtEof, AcceptorReady, AcceptorShutdown,
                AcceptorSelectError, AcceptorAcceptFails, vars
  <2> QED
    BY <1>0, <2>1, QuietStep DEF Busy
<1>2. CASE \/ MainNotifyAll
           \/ \E w \in Workers : WorkerWait(w) \/ WorkerSpuriousWakeup(w) \/ WorkerHandled(w)
  <2>1. wpc \in [Workers -> WorkerPcs]
    BY DEF RInv, IInv, TypeOK
  <2>2. /\ UNCHANGED <<queue, sock, accFd, wfd, closed>> /\ Busy' = Busy
        /\ mainPc' = "returned" <=> mainPc = "returned"
    BY <1>2, <2>1 DEF MainNotifyAll, WorkerWait, WorkerSpuriousWakeup, WorkerHandled, Busy
  <2> QED
    BY <1>0, <2>2, QuietStep
<1>3. ASSUME NEW f \in Fds, AcceptorAccept(f) PROVE Service!Next
  BY <1>0, <1>3, AcceptStep DEF Service!Next
<1>4. CASE AcceptorPush
  BY <1>0, <1>4, PushStep
<1>5. ASSUME NEW w \in Workers, WorkerTake(w) PROVE Service!Next \/ UNCHANGED Service!vars
  BY <1>0, <1>5, TakeStep DEF Service!Next
<1>6. ASSUME NEW w \in Workers, WorkerClose(w) PROVE Service!Next
  BY <1>0, <1>6, CloseStep DEF Service!Next
<1>7. CASE MainPushSentinels
  BY <1>0, <1>7, SentinelsStep
<1>8. CASE MainJoinWorkers
  BY <1>0, <1>8, JoinStep DEF Service!Next
<1> QED
  BY <1>1, <1>2, <1>3, <1>4, <1>5, <1>6, <1>7, <1>8 DEF Next, Acceptor, Worker, Main

\* Initially nothing is accepted.
LEMMA InitRefines == Init => Service!Init
<1> SUFFICES ASSUME Init PROVE Service!Init
  OBVIOUS
<1>1. RInv /\ accFd = Sentinel
  BY InitRInv DEF Init
<1>2. Front(queue, 0)
  BY DEF Init, Front
<1>3. WaitingConns = <<>>
  BY <1>1, <1>2, WaitingNow
<1>4. ServingConns = {}
  BY DEF Init, ServingConns
<1> QED
  BY <1>3, <1>4 DEF Init, Service!Init

\* The thread pool serves connections in the order of acceptance, at most n_threads at a
\* time, finishes each once, and run_thread_pool returns only with none left: all of
\* ConnectionService but its fairness.
THEOREM ImplementsService == Spec => Service!Init /\ [][Service!Next]_(Service!vars)
BY InitRInv, NextRInv, InitRefines, StepRefines, PTL DEF Spec
=============================================================================
