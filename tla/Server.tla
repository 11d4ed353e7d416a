------------------------------- MODULE Server -------------------------------
(***************************************************************************)
(* HttpServer::run (server/server.cpp) from main() to the end of the        *)
(* process: sockets, pipe, threads and joins around the two modes, with the *)
(* TLS acceptor, the detached threads of its connections and the management *)
(* thread.  ThreadPool and EventLoop model what happens inside of           *)
(* run_thread_pool and run_select_loops; here each is one step that ends.   *)
(***************************************************************************)
EXTENDS Configuration, FiniteSetsExt

CONSTANTS Files,      \* configuration files
          Clients,    \* clients of the TLS port
          Fds         \* descriptor numbers

ASSUME FdsAssumption == Fds \subseteq Nat \ {0}
ASSUME FilesAssumption == Files \subseteq Seq(Lines)

VARIABLES
  config,        \* what the run depends on: accepted, its mode, TLS files named
  closeWakes,    \* close() ends an accept() that another thread waits in (macOS)
  fds,           \* descriptor table: what a number refers to, "free" if nothing
  server_fd, tls_fd, pipe_r, pipe_w,   \* numbers kept by run(), 0 for none
  pipe,          \* bytes in the shutdown pipe
  accepting_connections,
  main, mgmt, acceptor,                \* where these threads are
  client,        \* each TLS client: away, backlog, accepted, sending, sent, gone
  cfd, body_fd,  \* the descriptors of each TLS connection's thread
  loopsFailed,   \* history: the loops ended without the shutdown byte
  misdirected    \* history: the shutdown byte went to another descriptor

system == <<config, closeWakes>>
numbers == <<server_fd, tls_fd, pipe_r, pipe_w>>
mgmtVars == <<mgmt, accepting_connections, misdirected>>
tlsVars == <<acceptor, client, cfd, body_fd>>
vars == <<system, fds, numbers, pipe, mgmtVars, main, tlsVars, loopsFailed>>

\* Both files are named; the comment on Config wants the port as well.
UsesTls(setting) == setting.TLSCertFile # 0 /\ setting.TLSKeyFile # 0

Outcome(c) == [ok |-> c.ok, mode |-> c.mode, tls |-> UsesTls(c.setting)]

Init ==
  /\ \E file \in Files : config = Outcome(load_config(file))
  /\ closeWakes \in BOOLEAN
  /\ fds = [n \in Fds |-> "free"]
  /\ server_fd = 0 /\ tls_fd = 0 /\ pipe_r = 0 /\ pipe_w = 0
  /\ pipe = 0 /\ accepting_connections = TRUE
  /\ main = "load" /\ mgmt = "none" /\ acceptor = "none"
  /\ client = [c \in Clients |-> "away"]
  /\ cfd = [c \in Clients |-> 0] /\ body_fd = [c \in Clients |-> 0]
  /\ loopsFailed = FALSE /\ misdirected = FALSE

\* The kernel hands out the lowest free number.
Free(table) == {n \in Fds : table[n] = "free"}
Lowest(table) == Min(Free(table))
Opened(table, n, what) == [table EXCEPT ![n] = what]
Closed(table, n) == IF n = 0 THEN table ELSE [table EXCEPT ![n] = "free"]

(***************************************************************************)
(* The main thread.                                                         *)
(***************************************************************************)
\* The configuration file cannot be opened.
NoConfigFile ==
  /\ main = "load" /\ main' = "exit"
  /\ UNCHANGED <<system, fds, numbers, pipe, mgmtVars, tlsVars, loopsFailed>>

LoadConfig ==
  /\ main = "load"
  /\ main' = IF config.ok THEN "listen" ELSE "exit"
  /\ UNCHANGED <<system, fds, numbers, pipe, mgmtVars, tlsVars, loopsFailed>>

\* create_listen_socket gives a descriptor, or has closed what it opened.
Listen ==
  /\ main = "listen"
  /\ \/ /\ Free(fds) # {}
        /\ server_fd' = Lowest(fds) /\ fds' = Opened(fds, Lowest(fds), "listen")
        /\ main' = "pipe"
     \/ main' = "returned" /\ UNCHANGED <<server_fd, fds>>
  /\ UNCHANGED <<system, tls_fd, pipe_r, pipe_w, pipe, mgmtVars, tlsVars, loopsFailed>>

MakePipe ==
  /\ main = "pipe" /\ Cardinality(Free(fds)) >= 2
  /\ LET r == Lowest(fds)
         w == Lowest(Opened(fds, r, "pipe_r"))
     IN  /\ pipe_r' = r /\ pipe_w' = w
         /\ fds' = Opened(Opened(fds, r, "pipe_r"), w, "pipe_w")
  /\ main' = "tls"
  /\ UNCHANGED <<system, server_fd, tls_fd, pipe, mgmtVars, tlsVars, loopsFailed>>

\* Mutant of PipeFails: returns without closing the listen socket.
PipeFailsLeaking ==
  /\ main = "pipe" /\ main' = "returned"
  /\ UNCHANGED <<system, fds, numbers, pipe, mgmtVars, tlsVars, loopsFailed>>

PipeFails ==
  /\ main = "pipe" /\ main' = "returned"
  /\ fds' = Closed(fds, server_fd) /\ server_fd' = 0
  /\ UNCHANGED <<system, tls_fd, pipe_r, pipe_w, pipe, mgmtVars, tlsVars, loopsFailed>>

\* SslServerContext::init or the socket may fail; the server then runs without.
StartTls ==
  /\ main = "tls" /\ main' = "mgmt"
  /\ \/ /\ config.tls /\ Free(fds) # {}
        /\ tls_fd' = Lowest(fds) /\ fds' = Opened(fds, Lowest(fds), "tls")
        /\ acceptor' = "call"
     \/ UNCHANGED <<tls_fd, fds, acceptor>>
  /\ UNCHANGED <<system, server_fd, pipe_r, pipe_w, pipe, mgmtVars, client, cfd, body_fd,
                 loopsFailed>>

StartMgmt ==
  /\ main = "mgmt" /\ main' = "run" /\ mgmt' = "read"
  /\ UNCHANGED <<system, fds, numbers, pipe, accepting_connections, misdirected, tlsVars,
                 loopsFailed>>

\* Mutant of LoopsReturn: the loops look at the flag instead of the pipe.
LoopsReturnByFlag ==
  /\ main = "run" /\ ~accepting_connections /\ main' = "close"
  /\ UNCHANGED <<system, fds, numbers, pipe, mgmtVars, tlsVars, loopsFailed>>

\* run_thread_pool or run_select_loops has read the shutdown byte and returns.
LoopsReturn ==
  /\ main = "run" /\ pipe > 0
  /\ pipe' = pipe - 1 /\ main' = "close"
  /\ UNCHANGED <<system, fds, numbers, mgmtVars, tlsVars, loopsFailed>>

\* select() of the pool's acceptor fails, which it takes for a shutdown, or
\* run_select_loops fails to make its wake pipe.
LoopsFail ==
  /\ main = "run"
  /\ loopsFailed' = TRUE /\ main' = "close"
  /\ UNCHANGED <<system, fds, numbers, pipe, mgmtVars, tlsVars>>

CloseServer ==
  /\ main = "close" /\ main' = "close_tls"
  /\ fds' = Closed(fds, server_fd) /\ server_fd' = 0
  /\ UNCHANGED <<system, tls_fd, pipe_r, pipe_w, pipe, mgmtVars, tlsVars, loopsFailed>>

\* Mutant of CloseTls: the socket is left to be closed after the join.
CloseTlsLater ==
  /\ main = "close_tls" /\ main' = "join_tls"
  /\ UNCHANGED <<system, fds, numbers, pipe, mgmtVars, tlsVars, loopsFailed>>

\* The acceptor keeps its copy of the number.
CloseTls ==
  /\ main = "close_tls" /\ main' = "join_tls"
  /\ fds' = Closed(fds, tls_fd)
  /\ UNCHANGED <<system, numbers, pipe, mgmtVars, tlsVars, loopsFailed>>

JoinTls ==
  /\ main = "join_tls" /\ acceptor \in {"none", "ended"} /\ main' = "close_r"
  /\ UNCHANGED <<system, fds, numbers, pipe, mgmtVars, tlsVars, loopsFailed>>

ClosePipeRead ==
  /\ main = "close_r" /\ main' = "close_w" /\ fds' = Closed(fds, pipe_r)
  /\ UNCHANGED <<system, numbers, pipe, mgmtVars, tlsVars, loopsFailed>>

ClosePipeWrite ==
  /\ main = "close_w" /\ main' = "join_mgmt" /\ fds' = Closed(fds, pipe_w)
  /\ UNCHANGED <<system, numbers, pipe, mgmtVars, tlsVars, loopsFailed>>

JoinMgmt ==
  /\ main = "join_mgmt" /\ mgmt = "exited" /\ main' = "returned"
  /\ UNCHANGED <<system, fds, numbers, pipe, mgmtVars, tlsVars, loopsFailed>>

\* main() returns: the process ends, whatever its other threads are doing.
Exit ==
  /\ main = "returned" /\ main' = "exit"
  /\ UNCHANGED <<system, fds, numbers, pipe, mgmtVars, tlsVars, loopsFailed>>

Main ==
  \/ NoConfigFile \/ LoadConfig \/ Listen \/ MakePipe \/ PipeFails \/ StartTls \/ StartMgmt
  \/ CloseServer \/ CloseTls \/ JoinTls \/ ClosePipeRead \/ ClosePipeWrite \/ JoinMgmt \/ Exit

(***************************************************************************)
(* The management thread.                                                   *)
(***************************************************************************)
MgmtShutdown ==
  /\ mgmt = "read" /\ mgmt' = "write" /\ accepting_connections' = FALSE
  /\ UNCHANGED <<system, fds, numbers, pipe, main, tlsVars, loopsFailed, misdirected>>

MgmtEof ==
  /\ mgmt = "read" /\ mgmt' = "exited"
  /\ UNCHANGED <<system, fds, numbers, pipe, main, tlsVars, loopsFailed, misdirected,
                 accepting_connections>>

\* Mutant of MgmtWrite: the thread goes on reading commands.
MgmtWriteAndRead ==
  /\ mgmt = "write" /\ mgmt' = "read"
  /\ pipe' = pipe + 1
  /\ UNCHANGED <<system, fds, numbers, accepting_connections, main, tlsVars, loopsFailed,
                 misdirected>>

\* One byte to whatever the number refers to now.  Without a reader SIGPIPE ends
\* the process.
MgmtWrite ==
  /\ mgmt = "write" /\ mgmt' = "exited"
  /\ LET target == fds[pipe_w]
     IN  /\ pipe' = IF target = "pipe_w" THEN pipe + 1 ELSE pipe
         /\ main' = IF target = "pipe_w" /\ fds[pipe_r] # "pipe_r" THEN "exit" ELSE main
         /\ misdirected' = (target \notin {"pipe_w", "free"})
  /\ UNCHANGED <<system, fds, numbers, accepting_connections, tlsVars, loopsFailed>>

Mgmt == MgmtShutdown \/ MgmtEof \/ MgmtWrite

(***************************************************************************)
(* TLS: the acceptor loop and the detached thread of each connection.       *)
(***************************************************************************)
\* The socket lives as long as a number or, on Linux, a waiting accept() refers to
\* it; clients left in its backlog are not served.
Listening == tls_fd # 0 /\ (fds[tls_fd] = "tls" \/ (acceptor = "blocked" /\ ~closeWakes))

Connect(c) ==
  /\ client[c] = "away" /\ Listening
  /\ client' = [client EXCEPT ![c] = "backlog"]
  /\ UNCHANGED <<system, fds, numbers, pipe, mgmtVars, main, acceptor, cfd, body_fd,
                 loopsFailed>>

\* accept() with a number that was closed, or reused for something else, fails.
AcceptCall ==
  /\ acceptor = "call"
  /\ acceptor' = IF fds[tls_fd] = "tls" THEN "blocked" ELSE "ended"
  /\ UNCHANGED <<system, fds, numbers, pipe, mgmtVars, main, client, cfd, body_fd,
                 loopsFailed>>

\* A connection is accepted and gets a thread.
AcceptTls(c) ==
  /\ acceptor = "blocked" /\ Listening /\ client[c] = "backlog" /\ Free(fds) # {}
  /\ acceptor' = "call"
  /\ client' = [client EXCEPT ![c] = "accepted"]
  /\ cfd' = [cfd EXCEPT ![c] = Lowest(fds)]
  /\ fds' = Opened(fds, Lowest(fds), "client")
  /\ UNCHANGED <<system, numbers, pipe, mgmtVars, main, body_fd, loopsFailed>>

\* Any error of accept() ends the loop: no descriptor left, an aborted connection,
\* or a close() that wakes it.
AcceptFails ==
  /\ acceptor = "blocked" /\ acceptor' = "ended"
  /\ UNCHANGED <<system, fds, numbers, pipe, mgmtVars, main, client, cfd, body_fd,
                 loopsFailed>>

\* The handler opens a file or a pipe for a response, and it is closed later.
OpenBody(c) ==
  /\ client[c] = "accepted" /\ Free(fds) # {}
  /\ client' = [client EXCEPT ![c] = "sending"]
  /\ body_fd' = [body_fd EXCEPT ![c] = Lowest(fds)]
  /\ fds' = Opened(fds, Lowest(fds), "body")
  /\ UNCHANGED <<system, numbers, pipe, mgmtVars, main, acceptor, cfd, loopsFailed>>

CloseBody(c) ==
  /\ client[c] = "sending"
  /\ client' = [client EXCEPT ![c] = "sent"]
  /\ fds' = Closed(fds, body_fd[c])
  /\ body_fd' = [body_fd EXCEPT ![c] = 0]
  /\ UNCHANGED <<system, numbers, pipe, mgmtVars, main, acceptor, cfd, loopsFailed>>

\* handle_tls_connection has returned: close(cfd), and the thread is over.
CloseConnection(c) ==
  /\ client[c] \in {"accepted", "sent"}
  /\ client' = [client EXCEPT ![c] = "gone"]
  /\ fds' = Closed(fds, cfd[c])
  /\ cfd' = [cfd EXCEPT ![c] = 0]
  /\ UNCHANGED <<system, numbers, pipe, mgmtVars, main, acceptor, body_fd, loopsFailed>>

Woken == AcceptFails /\ closeWakes /\ fds[tls_fd] # "tls"
Acceptor == AcceptCall \/ Woken \/ \E c \in Clients : AcceptTls(c)
Connection(c) == OpenBody(c) \/ CloseBody(c) \/ CloseConnection(c)

Next ==
  /\ main # "exit"
  /\ \/ Main \/ LoopsReturn \/ LoopsFail \/ Mgmt
     \/ Acceptor \/ AcceptFails
     \/ \E c \in Clients : Connect(c) \/ Connection(c)

\* Threads run.  run_thread_pool returns after the shutdown byte: ThreadPool shows
\* it; of run_select_loops EventLoop shows the contrary.
Fairness ==
  /\ WF_vars(main # "exit" /\ Main)
  /\ WF_vars(main # "exit" /\ config.mode = "Threads" /\ LoopsReturn)
  /\ WF_vars(main # "exit" /\ MgmtWrite)
  /\ WF_vars(main # "exit" /\ Acceptor)
  /\ \A c \in Clients : WF_vars(main # "exit" /\ Connection(c))

Spec == Init /\ [][Next]_vars /\ Fairness
-----------------------------------------------------------------------------
\* Types of the state; at most the one shutdown byte is in the pipe.
TypeOK ==
  /\ config \in [ok : BOOLEAN, mode : {"Threads", "Select"}, tls : BOOLEAN]
  /\ closeWakes \in BOOLEAN
  /\ fds \in [Fds -> {"free", "listen", "pipe_r", "pipe_w", "tls", "client", "body"}]
  /\ {server_fd, tls_fd, pipe_r, pipe_w} \subseteq Fds \cup {0}
  /\ pipe \in {0, 1} /\ accepting_connections \in BOOLEAN
  /\ main \in {"load", "listen", "pipe", "tls", "mgmt", "run", "close", "close_tls",
               "join_tls", "close_r", "close_w", "join_mgmt", "returned", "exit"}
  /\ mgmt \in {"none", "read", "write", "exited"}
  /\ acceptor \in {"none", "call", "blocked", "ended"}
  /\ client \in [Clients -> {"away", "backlog", "accepted", "sending", "sent", "gone"}]
  /\ cfd \in [Clients -> Fds \cup {0}] /\ body_fd \in [Clients -> Fds \cup {0}]
  /\ loopsFailed \in BOOLEAN /\ misdirected \in BOOLEAN

\* Whichever way run() returns, also where start-up fails, it has closed what it
\* opened and nothing that its detached connections use, and the threads that it
\* can join are over.
ReturnedClean ==
  main = "returned" =>
    /\ {n \in Fds : fds[n] # "free"}
         = ({cfd[c] : c \in Clients} \cup {body_fd[c] : c \in Clients}) \ {0}
    /\ mgmt \in {"none", "exited"} /\ acceptor \in {"none", "ended"}

\* The management thread writes its byte to the shutdown pipe, although run()
\* closes the pipe before it joins that thread and numbers are reused by detached
\* connections.  (If the loops failed, run() does not wait for the byte, and then it
\* may go astray.)
ShutdownByteGoesToPipe == ~loopsFailed => ~misdirected

\* run() waits for a thread that on Linux waits in accept() on the closed socket
\* until one more client connects.
WaitsForTls ==
  /\ main = "join_tls" /\ acceptor = "blocked" /\ ~closeWakes
  /\ \A c \in Clients : client[c] # "backlog" \/ Free(fds) = {}

\* After a shutdown command in thread pool mode run() returns or the process ends,
\* except as WaitsForTls says.
RunReturns ==
  (mgmt = "write" /\ config.mode = "Threads") ~> (main \in {"returned", "exit"} \/ WaitsForTls)

\* load_config accepts a file exactly if every integer outside of blocks is
\* positive and every block ends, and then a later line overrides an earlier one,
\* the last of nThreads and nSelectLoops decides the mode, and what stands in a
\* block belongs to that virtual host alone.  (Each state in which main() is about
\* to load stands for the files that lead to it.)
LoadedAsWritten ==
  main = "load" =>
    \A file \in Files :
      LET c == load_config(file)
      IN  Outcome(c) = config => c.ok = Acceptable(file) /\ (c.ok => AsWritten(file, c))
=============================================================================
