---------------------------- MODULE ThreadPool ----------------------------
(***************************************************************************)
(* The thread-pool concurrency mode (server/thread_pool_mode.cpp) with the  *)
(* management thread that requests shutdown (server/management_thread.cpp). *)
(* One acceptor waits for the listen socket or the shutdown pipe, accepts   *)
(* and queues descriptors; workers pop them under a mutex and a condition   *)
(* variable; run_thread_pool joins the acceptor, queues one sentinel per    *)
(* worker and joins the workers.  A critical section is one step: every     *)
(* access to the queue is under queue_mutex.                                *)
(*                                                                          *)
(* The kernel is modelled as far as it matters: the listen backlog, and a   *)
(* descriptor table whose entries are reused after close().                 *)
(***************************************************************************)
EXTENDS Integers, Sequences, FiniteSets

CONSTANTS Conns,     \* the connections clients may open
          NoConn,    \* a descriptor-table entry that is free
          Fds,       \* descriptors available to client sockets (RLIMIT_NOFILE)
          Workers    \* the n_threads worker threads

ASSUME NoConnAssumption == NoConn \notin Conns
ASSUME FdsAssumption == Fds \subseteq Nat
ASSUME WorkersAssumption == IsFiniteSet(Workers) /\ Workers # {}

VARIABLES
  backlog,     \* connections the kernel completed, not yet accepted
  sock,        \* the descriptor table: the connection behind each descriptor
  closed,      \* history: the connections whose socket the server closed
  queue,       \* std::queue of descriptors and sentinels
  accPc, accFd,      \* acceptor: control point, local client_fd
  wpc, wfd,          \* workers: control point, local client_fd
  mainPc,            \* run_thread_pool: control point
  mgmtPc, accepting, \* management thread; the atomic accepting_connections
  pipe               \* bytes in the shutdown pipe

kernel == <<backlog, sock, closed>>
acceptor == <<accPc, accFd>>
workers == <<wpc, wfd>>
mgmt == <<mgmtPc, accepting>>
vars == <<backlog, sock, closed, queue, accPc, accFd, wpc, wfd, mainPc,
          mgmtPc, accepting, pipe>>

Sentinel == -1

N == Cardinality(Workers)

At(pc) == {w \in Workers : wpc[w] = pc}

FreeFds == {f \in Fds : sock[f] = NoConn}

(***************************************************************************)
(* Environment: a client connects.                                          *)
(***************************************************************************)
Seen(c) ==
  \/ \E i \in DOMAIN backlog : backlog[i] = c
  \/ \E f \in Fds : sock[f] = c
  \/ c \in closed

Connect(c) ==
  /\ ~Seen(c)
  /\ backlog' = Append(backlog, c)
  /\ UNCHANGED <<sock, closed, queue, acceptor, workers, mainPc, mgmt, pipe>>

(***************************************************************************)
(* The management thread: on "shutdown" clear the flag, then write one byte *)
(* and return; at end of input return without either.                       *)
(***************************************************************************)
MgmtShutdown ==
  /\ mgmtPc = "getline"
  /\ mgmtPc' = "write"
  /\ accepting' = FALSE
  /\ UNCHANGED <<kernel, queue, acceptor, workers, mainPc, pipe>>

\* Mutant of MgmtWrite: the management thread does not return after the write.
MgmtWriteNoReturn ==
  /\ mgmtPc = "write"
  /\ mgmtPc' = "getline"
  /\ pipe' = pipe + 1
  /\ UNCHANGED <<kernel, queue, acceptor, workers, mainPc, accepting>>

MgmtWrite ==
  /\ mgmtPc = "write"
  /\ mgmtPc' = "exited"
  /\ pipe' = pipe + 1
  /\ UNCHANGED <<kernel, queue, acceptor, workers, mainPc, accepting>>

MgmtEof ==
  /\ mgmtPc = "getline"
  /\ mgmtPc' = "exited"
  /\ UNCHANGED <<kernel, queue, acceptor, workers, mainPc, accepting, pipe>>

(***************************************************************************)
(* The acceptor.  EINTR from select() restarts the loop: a stuttering step. *)
(***************************************************************************)
\* select() reports only the listen socket.
AcceptorReady ==
  /\ accPc = "select" /\ pipe = 0 /\ backlog # <<>>
  /\ accPc' = "accept"
  /\ UNCHANGED <<kernel, queue, accFd, workers, mainPc, mgmt, pipe>>

\* The shutdown pipe has priority over the listen socket; its byte is read.
AcceptorShutdown ==
  /\ accPc = "select" /\ pipe > 0
  /\ pipe' = pipe - 1
  /\ accPc' = "exited"
  /\ UNCHANGED <<kernel, queue, accFd, workers, mainPc, mgmt>>

\* select() fails with another errno than EINTR: treated as shutdown.
AcceptorSelectError ==
  /\ accPc = "select"
  /\ accPc' = "exited"
  /\ UNCHANGED <<kernel, queue, accFd, workers, mainPc, mgmt, pipe>>

AcceptorAccept(f) ==
  /\ accPc = "accept" /\ f \in FreeFds
  /\ sock' = [sock EXCEPT ![f] = Head(backlog)]
  /\ backlog' = Tail(backlog)
  /\ accFd' = f
  /\ accPc' = "push"
  /\ UNCHANGED <<closed, queue, workers, mainPc, mgmt, pipe>>

\* accept() returns -1: no descriptor left (the connection stays in the
\* backlog), or the peer aborted the connection.
AcceptorAcceptFails ==
  /\ accPc = "accept"
  /\ \/ FreeFds = {} /\ UNCHANGED backlog
     \/ backlog' = Tail(backlog)
  /\ accPc' = "select"
  /\ UNCHANGED <<sock, closed, queue, accFd, workers, mainPc, mgmt, pipe>>

\* notify_one: some waiting worker, if there is one, has to lock again.
NotifyOne ==
  \/ At("wait") = {} /\ UNCHANGED wpc
  \/ \E w \in At("wait") : wpc' = [wpc EXCEPT ![w] = "lock"]

\* Mutant of AcceptorPush: the notification is forgotten.
AcceptorPushSilently ==
  /\ accPc = "push"
  /\ queue' = Append(queue, accFd)
  /\ accPc' = "select" /\ accFd' = Sentinel
  /\ UNCHANGED <<kernel, workers, mainPc, mgmt, pipe>>

\* Under queue_mutex: push and notify_one.
AcceptorPush ==
  /\ accPc = "push"
  /\ queue' = Append(queue, accFd)
  /\ NotifyOne
  /\ accPc' = "select" /\ accFd' = Sentinel
  /\ UNCHANGED <<kernel, wfd, mainPc, mgmt, pipe>>

(***************************************************************************)
(* The workers.                                                             *)
(***************************************************************************)
\* while (queue.empty()) queue_cv.wait(lock)
WorkerWait(w) ==
  /\ wpc[w] = "lock" /\ queue = <<>>
  /\ wpc' = [wpc EXCEPT ![w] = "wait"]
  /\ UNCHANGED <<kernel, queue, acceptor, wfd, mainPc, mgmt, pipe>>

\* A condition variable may wake without a notification.
WorkerSpuriousWakeup(w) ==
  /\ wpc[w] = "wait"
  /\ wpc' = [wpc EXCEPT ![w] = "lock"]
  /\ UNCHANGED <<kernel, queue, acceptor, wfd, mainPc, mgmt, pipe>>

\* Mutant of WorkerTake: the last element is taken instead of the first.
WorkerTakeLast(w) ==
  /\ wpc[w] = "lock" /\ queue # <<>>
  /\ queue' = SubSeq(queue, 1, Len(queue) - 1)
  /\ LET fd == queue[Len(queue)] IN
       /\ wfd' = [wfd EXCEPT ![w] = fd]
       /\ wpc' = [wpc EXCEPT ![w] = IF fd = Sentinel THEN "exited" ELSE "serve"]
  /\ UNCHANGED <<kernel, acceptor, mainPc, mgmt, pipe>>

\* front, pop, unlock; a sentinel ends the thread.
WorkerTake(w) ==
  /\ wpc[w] = "lock" /\ queue # <<>>
  /\ queue' = Tail(queue)
  /\ wfd' = [wfd EXCEPT ![w] = Head(queue)]
  /\ wpc' = [wpc EXCEPT ![w] = IF Head(queue) = Sentinel THEN "exited" ELSE "serve"]
  /\ UNCHANGED <<kernel, acceptor, mainPc, mgmt, pipe>>

\* Mutant of WorkerHandled: handle_connection closes the socket as well.
WorkerHandledClosing(w) ==
  /\ wpc[w] = "serve"
  /\ sock' = [sock EXCEPT ![wfd[w]] = NoConn]
  /\ closed' = closed \cup {sock[wfd[w]]}
  /\ wpc' = [wpc EXCEPT ![w] = "close"]
  /\ UNCHANGED <<backlog, queue, acceptor, wfd, mainPc, mgmt, pipe>>

\* handle_connection returns (module HandleConnection models the call).
WorkerHandled(w) ==
  /\ wpc[w] = "serve"
  /\ wpc' = [wpc EXCEPT ![w] = "close"]
  /\ UNCHANGED <<kernel, queue, acceptor, wfd, mainPc, mgmt, pipe>>

WorkerClose(w) ==
  /\ wpc[w] = "close"
  /\ closed' = closed \cup ({sock[wfd[w]]} \ {NoConn})
  /\ sock' = [sock EXCEPT ![wfd[w]] = NoConn]
  /\ wpc' = [wpc EXCEPT ![w] = "lock"]
  /\ wfd' = [wfd EXCEPT ![w] = Sentinel]
  /\ UNCHANGED <<backlog, queue, acceptor, mainPc, mgmt, pipe>>

(***************************************************************************)
(* run_thread_pool.                                                         *)
(***************************************************************************)
\* Mutants of MainPushSentinels: the acceptor is not joined first; one sentinel
\* too few.
MainPushSentinelsEarly ==
  /\ mainPc = "join_acceptor"
  /\ queue' = queue \o [i \in 1..N |-> Sentinel]
  /\ mainPc' = "notify_all"
  /\ UNCHANGED <<kernel, acceptor, workers, mgmt, pipe>>

MainPushTooFewSentinels ==
  /\ mainPc = "join_acceptor" /\ accPc = "exited"
  /\ queue' = queue \o [i \in 1..(N - 1) |-> Sentinel]
  /\ mainPc' = "notify_all"
  /\ UNCHANGED <<kernel, acceptor, workers, mgmt, pipe>>

\* Join the acceptor; under queue_mutex push one sentinel per worker.
MainPushSentinels ==
  /\ mainPc = "join_acceptor" /\ accPc = "exited"
  /\ queue' = queue \o [i \in 1..N |-> Sentinel]
  /\ mainPc' = "notify_all"
  /\ UNCHANGED <<kernel, acceptor, workers, mgmt, pipe>>

\* notify_all, after the mutex was released.
MainNotifyAll ==
  /\ mainPc = "notify_all"
  /\ wpc' = [w \in Workers |-> IF wpc[w] = "wait" THEN "lock" ELSE wpc[w]]
  /\ mainPc' = "join_workers"
  /\ UNCHANGED <<kernel, queue, acceptor, wfd, mgmt, pipe>>

MainJoinWorkers ==
  /\ mainPc = "join_workers" /\ At("exited") = Workers
  /\ mainPc' = "returned"
  /\ UNCHANGED <<kernel, queue, acceptor, workers, mgmt, pipe>>

-----------------------------------------------------------------------------
Init ==
  /\ backlog = <<>> /\ sock = [f \in Fds |-> NoConn] /\ closed = {}
  /\ queue = <<>>
  /\ accPc = "select" /\ accFd = Sentinel
  /\ wpc = [w \in Workers |-> "lock"] /\ wfd = [w \in Workers |-> Sentinel]
  /\ mainPc = "join_acceptor"
  /\ mgmtPc = "getline" /\ accepting = TRUE
  /\ pipe = 0

Acceptor ==
  \/ AcceptorReady \/ AcceptorShutdown \/ AcceptorAcceptFails \/ AcceptorPush
  \/ \E f \in Fds : AcceptorAccept(f)

Worker(w) == WorkerWait(w) \/ WorkerTake(w) \/ WorkerHandled(w) \/ WorkerClose(w)

Main == MainPushSentinels \/ MainNotifyAll \/ MainJoinWorkers

Next ==
  \/ \E c \in Conns : Connect(c)
  \/ MgmtShutdown \/ MgmtWrite \/ MgmtEof
  \/ Acceptor \/ AcceptorSelectError
  \/ \E w \in Workers : Worker(w) \/ WorkerSpuriousWakeup(w)
  \/ Main

\* Threads that can run eventually run, the mutex starves nobody, and
\* handle_connection returns.  Clients, the operator, select() errors and
\* spurious wakeups are under no obligation.
Fairness ==
  /\ WF_vars(MgmtWrite) /\ WF_vars(Acceptor) /\ WF_vars(Main)
  /\ \A w \in Workers : WF_vars(Worker(w))

Spec == Init /\ [][Next]_vars /\ Fairness

-----------------------------------------------------------------------------
(***************************************************************************)
(* Properties.                                                              *)
(***************************************************************************)
WorkerPcs == {"lock", "wait", "serve", "close", "exited"}

\* Types of all state.  The shutdown pipe never holds more than the one byte
\* management_thread_func writes before it returns.
TypeOK ==
  /\ backlog \in Seq(Conns)
  /\ sock \in [Fds -> Conns \cup {NoConn}]
  /\ closed \subseteq Conns
  /\ queue \in Seq(Fds \cup {Sentinel})
  /\ accPc \in {"select", "accept", "push", "exited"}
  /\ accFd \in Fds \cup {Sentinel}
  /\ wpc \in [Workers -> WorkerPcs]
  /\ wfd \in [Workers -> Fds \cup {Sentinel}]
  /\ mainPc \in {"join_acceptor", "notify_all", "join_workers", "returned"}
  /\ mgmtPc \in {"getline", "write", "exited"}
  /\ accepting \in BOOLEAN
  /\ pipe \in {0, 1}

Queued(f) == \E i \in 1..Len(queue) : queue[i] = f

Held(f) == accFd = f \/ Queued(f) \/ \E w \in Workers : wfd[w] = f

\* A descriptor is open exactly as long as some thread or the queue holds it:
\* none leaks, and none is used or closed after it was closed and possibly
\* given to another connection.
OpenIffHeld == \A f \in Fds : sock[f] # NoConn <=> Held(f)

\* No descriptor has two holders.
HeldOnce ==
  /\ accFd \in Fds => ~Queued(accFd) /\ \A w \in Workers : wfd[w] # accFd
  /\ \A i \in 1..Len(queue) : queue[i] \in Fds =>
       /\ \A j \in 1..Len(queue) : queue[j] = queue[i] => j = i
       /\ \A w \in Workers : wfd[w] # queue[i]
  /\ \A v, w \in Workers : wfd[v] \in Fds /\ wfd[v] = wfd[w] => v = w

\* Every client socket accepted by the acceptor is owned by one thread (or the
\* queue) at a time until its worker closes it, once, although descriptor
\* numbers are reused.
DescriptorOwnership == OpenIffHeld /\ HeldOnce

\* run_thread_pool returns only after every accepted connection was served and
\* closed: the sentinels queue up behind the connections.
DrainedAtReturn == mainPc = "returned" => \A f \in Fds : sock[f] = NoConn

\* No lost wakeup: while a worker sleeps in queue_cv.wait, as many workers are
\* on their way to the queue as there are elements in it (but for the moment
\* between the sentinels and notify_all).
NoLostWakeup ==
  At("wait") # {} /\ mainPc # "notify_all" => Len(queue) <= Cardinality(At("lock"))

\* A "shutdown" command eventually makes run_thread_pool return, with every
\* worker joined.
ShutdownCompletes == ~accepting ~> mainPc = "returned"

\* Connections accepted and not yet taken by a worker, oldest first.
WaitingConns ==
  LET queued == [i \in {j \in 1..Len(queue) : queue[j] # Sentinel} |-> sock[queue[i]]]
  IN  IF accFd = Sentinel THEN queued ELSE Append(queued, sock[accFd])

ServingConns == {sock[wfd[w]] : w \in {v \in Workers : wpc[v] \in {"serve", "close"}}}

Service == INSTANCE ConnectionService WITH
  Capacity <- N, waiting <- WaitingConns, serving <- ServingConns,
  finished <- closed, stopped <- mainPc = "returned"

\* The thread pool implements the abstract service: first accepted, first
\* served; each connection once; stopped only when drained; and every accepted
\* connection is eventually taken and closed.
ServiceSpec == Service!Spec
=============================================================================
