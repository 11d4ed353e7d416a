----------------------------- MODULE EventLoop -----------------------------
(***************************************************************************)
(* The event-loop concurrency mode (server/select_mode.cpp) as far as       *)
(* threads interact: the acceptor queues connections and writes one wake    *)
(* byte for each; every worker watches the read ends of the wake pipe and   *)
(* of the shutdown pipe, reads wake bytes in batches and takes one queued   *)
(* connection per byte.  What a worker does with a connection it owns is    *)
(* module EventConnection.                                                  *)
(*                                                                          *)
(* All workers share one wake pipe and one shutdown pipe; only the wake     *)
(* pipe is nonblocking.  With epoll both are edge-triggered.                *)
(***************************************************************************)
EXTENDS Integers, Sequences, FiniteSets, FiniteSetsExt

CONSTANTS Conns,          \* the connections clients may open
          NoConn,
          Workers,        \* at most this many event loops
          WakeBatch       \* wake bytes read at once: sizeof(buf), 64

ASSUME NoConnAssumption == NoConn \notin Conns
ASSUME WorkersAssumption == IsFiniteSet(Workers) /\ Workers # {}
ASSUME WakeBatchAssumption == WakeBatch \in Nat \ {0}

VARIABLES
  edgeTriggered,        \* the build's poller: EpollPoller, else KqueuePoller
  loops,                \* the max(1, n_select_loops) workers that run, if any do
  backlog, closed,      \* kernel: pending connections; history: closed ones
  queue,                \* client_queue
  wakePipe, pipe,       \* bytes in the wake pipe and in the shutdown pipe
  accPc, accConn,       \* acceptor: control point, local client_fd
  wpc, tokens,          \* workers: control point, try_accept calls still due
  conns,                \* workers: the connections in the local map conns
  wakeEdge, stopEdge,   \* pollers: a readiness edge not yet reported
  mainPc, mgmtPc, accepting

build == <<edgeTriggered, loops>>
acceptor == <<accPc, accConn>>
pollers == <<wakeEdge, stopEdge>>
mgmt == <<mgmtPc, accepting>>
vars == <<build, backlog, closed, queue, wakePipe, pipe, accPc, accConn, wpc, tokens, conns,
          wakeEdge, stopEdge, mainPc, mgmtPc, accepting>>

\* Bytes written to an empty pipe are an edge for every poller that watches it;
\* to a non-empty one they may be, depending on the kernel.
Edges(edge, bytes) ==
  {[w \in Workers |-> TRUE]} \cup (IF bytes > 0 THEN {edge} ELSE {})

Seen(c) ==
  \/ \E i \in DOMAIN backlog : backlog[i] = c
  \/ \E i \in DOMAIN queue : queue[i] = c
  \/ c = accConn \/ c \in closed \/ \E w \in Workers : c \in conns[w]

Connect(c) ==
  /\ ~Seen(c)
  /\ backlog' = Append(backlog, c)
  /\ UNCHANGED <<build, closed, queue, wakePipe, pipe, acceptor, wpc, tokens, conns, pollers, mainPc, mgmt>>

(***************************************************************************)
(* Management thread.                                                       *)
(***************************************************************************)
MgmtShutdown ==
  /\ mgmtPc = "getline" /\ mgmtPc' = "write" /\ accepting' = FALSE
  /\ UNCHANGED <<build, backlog, closed, queue, wakePipe, pipe, acceptor, wpc, tokens, conns, pollers, mainPc>>

MgmtWrite ==
  /\ mgmtPc = "write" /\ mgmtPc' = "exited"
  /\ stopEdge' \in Edges(stopEdge, pipe)
  /\ pipe' = pipe + 1
  /\ UNCHANGED <<build, backlog, closed, queue, wakePipe, acceptor, wpc, tokens,
                 conns, wakeEdge, mainPc, accepting>>

MgmtEof ==
  /\ mgmtPc = "getline" /\ mgmtPc' = "exited"
  /\ UNCHANGED <<build, backlog, closed, queue, wakePipe, pipe, acceptor, wpc, tokens,
                 conns, pollers, mainPc, accepting>>

(***************************************************************************)
(* acceptor_loop_select.                                                    *)
(***************************************************************************)
\* select() reports the listen socket only, and the flag is still set; without
\* the flag the loop spins.
AcceptorReady ==
  /\ accPc = "select" /\ pipe = 0 /\ backlog # <<>> /\ accepting
  /\ accPc' = "accept"
  /\ UNCHANGED <<build, backlog, closed, queue, wakePipe, pipe, accConn, wpc, tokens,
                 conns, pollers, mainPc, mgmt>>

\* select() reports the shutdown pipe: go and read its byte.
AcceptorSeesShutdown ==
  /\ accPc = "select" /\ pipe > 0
  /\ accPc' = "read_shutdown"
  /\ UNCHANGED <<build, backlog, closed, queue, wakePipe, pipe, accConn, wpc, tokens,
                 conns, pollers, mainPc, mgmt>>

\* The read blocks while the pipe is empty.
AcceptorReadsShutdown ==
  /\ accPc = "read_shutdown" /\ pipe > 0
  /\ pipe' = pipe - 1
  /\ accPc' = "exited"
  /\ UNCHANGED <<build, backlog, closed, queue, wakePipe, accConn, wpc, tokens, conns, pollers, mainPc, mgmt>>

\* select() fails with another errno than EINTR: treated as shutdown.
AcceptorSelectError ==
  /\ accPc = "select"
  /\ accPc' = "exited"
  /\ UNCHANGED <<build, backlog, closed, queue, wakePipe, pipe, accConn, wpc, tokens,
                 conns, pollers, mainPc, mgmt>>

\* accept() succeeds, or fails and leaves the loop as it was.
AcceptorAccept ==
  /\ accPc = "accept"
  /\ \/ accPc' = "push" /\ accConn' = Head(backlog) /\ backlog' = Tail(backlog)
     \/ accPc' = "select" /\ UNCHANGED <<accConn, backlog>>
  /\ UNCHANGED <<build, closed, queue, wakePipe, pipe, wpc, tokens, conns, pollers, mainPc, mgmt>>

AcceptorPush ==
  /\ accPc = "push"
  /\ queue' = Append(queue, accConn)
  /\ accConn' = NoConn /\ accPc' = "wake"
  /\ UNCHANGED <<build, backlog, closed, wakePipe, pipe, wpc, tokens, conns, pollers, mainPc, mgmt>>

\* Mutant of AcceptorWake: the byte is not written.
AcceptorWakeNobody ==
  /\ accPc = "wake" /\ accPc' = "select"
  /\ UNCHANGED <<build, backlog, closed, queue, wakePipe, pipe, accConn, wpc, tokens,
                 conns, pollers, mainPc, mgmt>>

\* The wake byte is written after queue_mutex was released.
AcceptorWake ==
  /\ accPc = "wake" /\ accPc' = "select"
  /\ wakeEdge' \in Edges(wakeEdge, wakePipe)
  /\ wakePipe' = wakePipe + 1
  /\ UNCHANGED <<build, backlog, closed, queue, pipe, accConn, wpc, tokens, conns, stopEdge, mainPc, mgmt>>

(***************************************************************************)
(* run_event_loop_worker.                                                   *)
(***************************************************************************)
WakeReady(w) == wakePipe > 0 /\ (edgeTriggered => wakeEdge[w])
StopReady(w) == pipe > 0 /\ (edgeTriggered => stopEdge[w])

\* poller.wait(1000) returns with what is ready, or after a second with nothing.
\* A shutdown event goes before all others, which it drops.
Poll(w) ==
  /\ wpc[w] = "poll"
  /\ wpc' = [wpc EXCEPT ![w] = IF StopReady(w) THEN "read_shutdown"
                               ELSE IF WakeReady(w) THEN "drain" ELSE "dispatch"]
  /\ wakeEdge' = [wakeEdge EXCEPT ![w] = FALSE]
  /\ stopEdge' = [stopEdge EXCEPT ![w] = FALSE]
  /\ UNCHANGED <<build, backlog, closed, queue, wakePipe, pipe, acceptor, tokens, conns, mainPc, mgmt>>

\* Mutants of Drain: one try_accept per read; no bound on a read.
DrainOnePerRead(w) ==
  /\ wpc[w] = "drain"
  /\ LET n == Min({wakePipe, WakeBatch})
     IN  /\ wakePipe' = wakePipe - n /\ tokens' = [tokens EXCEPT ![w] = Min({n, 1})]
         /\ wpc' = [wpc EXCEPT ![w] = IF n > 0 THEN "take" ELSE "dispatch"]
  /\ UNCHANGED <<build, backlog, closed, queue, pipe, acceptor, conns, pollers, mainPc, mgmt>>

DrainUnbounded(w) ==
  /\ wpc[w] = "drain"
  /\ wakePipe' = 0 /\ tokens' = [tokens EXCEPT ![w] = wakePipe]
  /\ wpc' = [wpc EXCEPT ![w] = IF wakePipe > 0 THEN "take" ELSE "dispatch"]
  /\ UNCHANGED <<build, backlog, closed, queue, pipe, acceptor, conns, pollers, mainPc, mgmt>>

\* Read a batch of wake bytes; the loop ends at EAGAIN.
Drain(w) ==
  /\ wpc[w] = "drain"
  /\ LET n == Min({wakePipe, WakeBatch})
     IN  /\ wakePipe' = wakePipe - n /\ tokens' = [tokens EXCEPT ![w] = n]
         /\ wpc' = [wpc EXCEPT ![w] = IF n > 0 THEN "take" ELSE "dispatch"]
  /\ UNCHANGED <<build, backlog, closed, queue, pipe, acceptor, conns, pollers, mainPc, mgmt>>

\* The for loop over a batch, inside the loop that reads until EAGAIN.
NextToken(w) ==
  /\ tokens' = [tokens EXCEPT ![w] = @ - 1]
  /\ wpc' = [wpc EXCEPT ![w] = IF tokens[w] = 1 THEN "drain" ELSE "take"]

\* Mutant of TryAccept: the front is copied but not popped.
TryAcceptNoPop(w) ==
  /\ wpc[w] = "take"
  /\ queue # <<>> /\ conns' = [conns EXCEPT ![w] = @ \cup {Head(queue)}]
  /\ NextToken(w)
  /\ UNCHANGED <<build, backlog, closed, queue, wakePipe, pipe, acceptor, pollers, mainPc, mgmt>>

\* try_accept_from_queue: pop under queue_mutex, add to poller and conns.
TryAccept(w) ==
  /\ wpc[w] = "take"
  /\ \/ queue = <<>> /\ UNCHANGED <<queue, conns>>
     \/ /\ queue # <<>> /\ queue' = Tail(queue)
        /\ conns' = [conns EXCEPT ![w] = @ \cup {Head(queue)}]
  /\ NextToken(w)
  /\ UNCHANGED <<build, backlog, closed, wakePipe, pipe, acceptor, pollers, mainPc, mgmt>>

\* Events of the worker's own connections, timeouts, and the closing of those
\* in to_remove.
Dispatch(w) ==
  /\ wpc[w] = "dispatch"
  /\ \E removed \in SUBSET conns[w] :
       /\ conns' = [conns EXCEPT ![w] = @ \ removed]
       /\ closed' = closed \cup removed
  /\ wpc' = [wpc EXCEPT ![w] = "poll"]
  /\ UNCHANGED <<build, backlog, queue, wakePipe, pipe, acceptor, tokens, pollers, mainPc, mgmt>>

\* The blocking read of the shutdown byte, then the loop is left and every
\* connection of the worker is closed, served or not.
ReadShutdown(w) ==
  /\ wpc[w] = "read_shutdown" /\ pipe > 0
  /\ pipe' = pipe - 1
  /\ closed' = closed \cup conns[w] /\ conns' = [conns EXCEPT ![w] = {}]
  /\ wpc' = [wpc EXCEPT ![w] = "exited"]
  /\ UNCHANGED <<build, backlog, queue, wakePipe, acceptor, tokens, pollers, mainPc, mgmt>>

\* run_select_loops: join the acceptor and the workers.
MainReturn ==
  /\ mainPc = "join" /\ accPc = "exited" /\ \A w \in loops : wpc[w] = "exited"
  /\ mainPc' = "returned"
  /\ UNCHANGED <<build, backlog, closed, queue, wakePipe, pipe, acceptor, wpc, tokens, conns, pollers, mgmt>>

-----------------------------------------------------------------------------
\* run_select_loops has started its threads, or its pipe(wake_pipe) has failed and it
\* has returned.
Started == accPc = "select" /\ mainPc = "join" /\ loops \in (SUBSET Workers) \ {{}}
WakePipeFails == accPc = "exited" /\ mainPc = "returned" /\ loops = {}

Init ==
  /\ edgeTriggered \in BOOLEAN /\ (Started \/ WakePipeFails)
  /\ backlog = <<>> /\ closed = {} /\ queue = <<>> /\ wakePipe = 0 /\ pipe = 0
  /\ accConn = NoConn
  /\ wpc = [w \in Workers |-> "poll"] /\ tokens = [w \in Workers |-> 0]
  /\ conns = [w \in Workers |-> {}]
  /\ wakeEdge = [w \in Workers |-> FALSE] /\ stopEdge = [w \in Workers |-> FALSE]
  /\ mgmtPc = "getline" /\ accepting = TRUE

Acceptor ==
  \/ AcceptorReady \/ AcceptorSeesShutdown \/ AcceptorReadsShutdown
  \/ AcceptorAccept \/ AcceptorPush \/ AcceptorWake

Worker(w) == Poll(w) \/ Drain(w) \/ TryAccept(w) \/ Dispatch(w) \/ ReadShutdown(w)

Next ==
  \/ \E c \in Conns : Connect(c)
  \/ MgmtShutdown \/ MgmtWrite \/ MgmtEof \/ Acceptor \/ AcceptorSelectError \/ MainReturn
  \/ \E w \in loops : Worker(w)

\* Every thread runs; accept() does not fail for ever.
Fairness ==
  /\ WF_vars(MgmtWrite) /\ WF_vars(Acceptor) /\ WF_vars(MainReturn)
  /\ \A w \in Workers : WF_vars(w \in loops /\ Worker(w))

Spec == Init /\ [][Next]_vars /\ Fairness

-----------------------------------------------------------------------------
\* Types of all state.
TypeOK ==
  /\ edgeTriggered \in BOOLEAN /\ loops \subseteq Workers
  /\ backlog \in Seq(Conns) /\ closed \subseteq Conns /\ queue \in Seq(Conns)
  /\ wakePipe \in Nat /\ pipe \in {0, 1}
  /\ accPc \in {"select", "read_shutdown", "accept", "push", "wake", "exited"}
  /\ accConn \in Conns \cup {NoConn}
  /\ wpc \in [Workers -> {"poll", "drain", "take", "dispatch", "read_shutdown", "exited"}]
  /\ tokens \in [Workers -> 0..WakeBatch]
  /\ conns \in [Workers -> SUBSET Conns]
  /\ wakeEdge \in [Workers -> BOOLEAN] /\ stopEdge \in [Workers -> BOOLEAN]
  /\ mainPc \in {"join", "returned"}
  /\ mgmtPc \in {"getline", "write", "exited"} /\ accepting \in BOOLEAN

\* The try_accept calls that workers still owe for the bytes they have read.
Due == {d \in Workers \X (1..WakeBatch) : d[2] <= tokens[d[1]]}

\* "Each byte represents one new connection": queued connections and wake bytes
\* match one to one, counting the byte the acceptor is about to write and the
\* bytes workers have read but not yet acted on.
WakeBytesMatchQueue ==
  Len(queue) = wakePipe + Cardinality(Due) + (IF accPc = "wake" THEN 1 ELSE 0)

\* No connection waits in the queue with nobody about to look: some worker has
\* the wake pipe ready or is draining it, or the acceptor is about to write.
\* Until a shutdown byte makes workers stop.
NoConnectionStranded ==
  (\A w \in loops : wpc[w] \notin {"read_shutdown", "exited"}) /\ queue # <<>> =>
    \/ accPc = "wake"
    \/ \E w \in loops : wpc[w] \in {"drain", "take"} \/ WakeReady(w)

\* Among the queue, the acceptor and the workers' maps every accepted connection
\* has one place, and none once it is closed.
ConnectionOwnedOnce ==
  /\ \A i, j \in DOMAIN queue : queue[i] = queue[j] => i = j
  /\ \A i \in DOMAIN queue : queue[i] # accConn
  /\ \A c \in Conns :
       /\ c \in closed => c # accConn /\ \A i \in DOMAIN queue : queue[i] # c
       /\ \A v \in Workers : c \in conns[v] =>
            /\ c # accConn /\ c \notin closed
            /\ \A i \in DOMAIN queue : queue[i] # c
            /\ \A w \in Workers : c \in conns[w] => w = v

\* Every queued connection reaches a worker's poller, unless shutdown was
\* requested.
QueuedIsServed ==
  \A c \in Conns :
    (\E i \in DOMAIN queue : queue[i] = c) ~>
      (\/ c \in closed \/ \E w \in Workers : c \in conns[w]
       \/ ~accepting)

\* "on "shutdown" set accepting_connections and write to pipe, then exit": the
\* byte makes the event-loop mode shut down.
ShutdownCompletes == ~accepting ~> mainPc = "returned"
=============================================================================
