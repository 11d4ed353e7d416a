-------------------------------- MODULE Cgi --------------------------------
(***************************************************************************)
(* Concurrent calls of CgiHandler::run_cgi (http/handlers/cgi_handler.cpp), *)
(* one per worker thread, with their child processes and pipes.             *)
(*                                                                          *)
(* A pipe end is open as long as some process holds it.  pipe() is called   *)
(* without O_CLOEXEC: a child keeps, across execve, every end that the      *)
(* server held at the moment of its fork().                                 *)
(***************************************************************************)
EXTENDS Integers, FiniteSets, FiniteSetsExt

CONSTANTS Runs,      \* calls of run_cgi, each on a thread of its own
          Scripts,   \* kinds of scripts that may be requested
          Bodies,    \* sizes of POST bodies, 0 for a GET
          OutLen,    \* units that a script prints
          PipeCap    \* capacity of a pipe in units

\* "filter" reads its stdin to the end, then prints; "printer" never reads;
\* "hangs" does neither and does not exit.
ASSUME ScriptsAssumption == Scripts \subseteq {"filter", "printer", "hangs"}
ASSUME RunsAssumption == "server" \notin Runs
ASSUME SizesAssumption ==
  Bodies \subseteq Nat /\ OutLen \in Nat \ {0} /\ PipeCap \in Nat \ {0}

VARIABLES
  script, body,         \* what each request asks for
  sigpipeIgnored,       \* the disposition of SIGPIPE that the server inherited
  alive,                \* the server process runs
  pc, toWrite, got,     \* run_cgi: where it is, body left to write, output read
  response,             \* status of the HttpResponse, 0 as long as there is none
  child, status,        \* the child process and how it ended
  holders,              \* holders[r][e]: the processes with end e of r's pipes open
  inBytes, outBytes,    \* what is in the pipes
  eaten, toPrint,       \* the script's progress
  cause                 \* history: what led to a 504

request == <<script, body, sigpipeIgnored>>
pipes == <<inBytes, outBytes>>
progress == <<eaten, toPrint>>
vars == <<request, alive, pc, toWrite, got, response, child, status, holders,
          pipes, progress, cause>>

Ends == {"inR", "inW", "outR", "outW"}

Init ==
  /\ script \in [Runs -> Scripts] /\ body \in [Runs -> Bodies]
  /\ sigpipeIgnored \in BOOLEAN /\ alive = TRUE
  /\ pc = [r \in Runs |-> "pipes"]
  /\ toWrite = body /\ got = [r \in Runs |-> 0] /\ response = [r \in Runs |-> 0]
  /\ child = [r \in Runs |-> "none"] /\ status = [r \in Runs |-> "none"]
  /\ holders = [r \in Runs |-> [e \in Ends |-> {}]]
  /\ inBytes = [r \in Runs |-> 0] /\ outBytes = [r \in Runs |-> 0]
  /\ eaten = [r \in Runs |-> 0] /\ toPrint = [r \in Runs |-> OutLen]
  /\ cause = [r \in Runs |-> "none"]

(***************************************************************************)
(* Descriptors.                                                             *)
(***************************************************************************)
\* Process p closes the ends es of r's pipes.
Without(h, r, es, p) == [h EXCEPT ![r] = [e \in Ends |-> IF e \in es THEN @[e] \ {p} ELSE @[e]]]

\* fork(): the child gets what the server holds.  exit(): a process drops it all.
Inherit(h, p) ==
  [q \in Runs |-> [e \in Ends |-> IF "server" \in h[q][e] THEN h[q][e] \cup {p} ELSE h[q][e]]]
DropAll(h, p) == [q \in Runs |-> [e \in Ends |-> h[q][e] \ {p}]]

\* The server is done with r and answers with code.
Respond(r, code) ==
  /\ pc' = [pc EXCEPT ![r] = "done"]
  /\ response' = [response EXCEPT ![r] = code]

(***************************************************************************)
(* run_cgi: pipes, fork, body.                                              *)
(***************************************************************************)
SetupPipes(r) ==
  /\ alive /\ pc[r] = "pipes"
  /\ holders' = [holders EXCEPT ![r] = [e \in Ends |-> {"server"}]]
  /\ pc' = [pc EXCEPT ![r] = "fork"]
  /\ UNCHANGED <<request, alive, toWrite, got, response, child, status, pipes, progress, cause>>

\* The first pipe() fails, or the second one and the first pipe is closed.
SetupFails(r) ==
  /\ alive /\ pc[r] = "pipes"
  /\ Respond(r, 500)
  /\ UNCHANGED <<request, alive, toWrite, got, child, status, holders, pipes, progress, cause>>

Fork(r) ==
  /\ alive /\ pc[r] = "fork"
  /\ holders' = Inherit(holders, r)
  /\ child' = [child EXCEPT ![r] = "forked"]
  /\ pc' = [pc EXCEPT ![r] = "parent"]
  /\ UNCHANGED <<request, alive, toWrite, got, response, status, pipes, progress, cause>>

ForkFails(r) ==
  /\ alive /\ pc[r] = "fork"
  /\ holders' = Without(holders, r, Ends, "server")
  /\ Respond(r, 500)
  /\ UNCHANGED <<request, alive, toWrite, got, child, status, pipes, progress, cause>>

\* Mutant: closes stdin_pipe[1] for stdin_pipe[0].
ParentClosesWrongEnd(r) ==
  /\ alive /\ pc[r] = "parent"
  /\ holders' = Without(holders, r, {"inW", "outW"}, "server")
  /\ pc' = [pc EXCEPT ![r] = "write"]
  /\ UNCHANGED <<request, alive, toWrite, got, response, child, status, pipes, progress, cause>>

ParentCloses(r) ==
  /\ alive /\ pc[r] = "parent"
  /\ holders' = Without(holders, r, {"inR", "outW"}, "server")
  /\ pc' = [pc EXCEPT ![r] = "write"]
  /\ UNCHANGED <<request, alive, toWrite, got, response, child, status, pipes, progress, cause>>

\* write() of a piece of the body; it blocks while the pipe is full.
WriteBody(r, n) ==
  /\ alive /\ pc[r] = "write" /\ holders[r]["inR"] # {}
  /\ n <= toWrite[r] /\ inBytes[r] + n <= PipeCap
  /\ toWrite' = [toWrite EXCEPT ![r] = @ - n]
  /\ inBytes' = [inBytes EXCEPT ![r] = @ + n]
  /\ UNCHANGED <<request, alive, pc, got, response, child, status, holders, outBytes, progress, cause>>

\* write() with no reader left: EPIPE, or SIGPIPE kills the server.
WriteFails(r) ==
  /\ alive /\ pc[r] = "write" /\ holders[r]["inR"] = {} /\ toWrite[r] > 0
  /\ IF sigpipeIgnored
     THEN /\ holders' = Without(holders, r, {"inW"}, "server")
          /\ pc' = [pc EXCEPT ![r] = "reap"]
          /\ UNCHANGED alive
     ELSE alive' = FALSE /\ UNCHANGED <<holders, pc>>
  /\ UNCHANGED <<request, toWrite, got, response, child, status, pipes, progress, cause>>

\* Mutant: stdout_pipe[0] is left open.
ReapLeaking(r) ==
  /\ alive /\ pc[r] = "reap" /\ child[r] = "exited"
  /\ child' = [child EXCEPT ![r] = "reaped"]
  /\ Respond(r, 500)
  /\ UNCHANGED <<request, alive, toWrite, got, holders, status, pipes, progress, cause>>

\* waitpid() after the failed write, without a timeout.
Reap(r) ==
  /\ alive /\ pc[r] = "reap" /\ child[r] = "exited"
  /\ child' = [child EXCEPT ![r] = "reaped"]
  /\ holders' = Without(holders, r, {"outR"}, "server")
  /\ Respond(r, 500)
  /\ UNCHANGED <<request, alive, toWrite, got, status, pipes, progress, cause>>

\* Mutant: stdin_pipe[1] stays open while the output is read.
CloseStdinLate(r) ==
  /\ alive /\ pc[r] = "write" /\ toWrite[r] = 0
  /\ pc' = [pc EXCEPT ![r] = "read"]
  /\ UNCHANGED <<request, alive, toWrite, got, response, child, status, holders, pipes, progress, cause>>

CloseStdin(r) ==
  /\ alive /\ pc[r] = "write" /\ toWrite[r] = 0
  /\ holders' = Without(holders, r, {"inW"}, "server")
  /\ pc' = [pc EXCEPT ![r] = "read"]
  /\ UNCHANGED <<request, alive, toWrite, got, response, child, status, pipes, progress, cause>>

(***************************************************************************)
(* read_child_output, wait_for_child, parse_cgi_output.                     *)
(***************************************************************************)
ReadOutput(r) ==
  /\ alive /\ pc[r] = "read" /\ outBytes[r] > 0
  /\ got' = [got EXCEPT ![r] = @ + outBytes[r]]
  /\ outBytes' = [outBytes EXCEPT ![r] = 0]
  /\ UNCHANGED <<request, alive, pc, toWrite, response, child, status, holders, inBytes, progress, cause>>

\* Mutant of EndOfOutput: an empty pipe is taken for a closed one.
EmptyPipe(r) == outBytes[r] = 0

EndOfOutput(r) == outBytes[r] = 0 /\ holders[r]["outW"] = {}

ReadEnds(r) ==
  /\ alive /\ pc[r] = "read" /\ EndOfOutput(r)
  /\ holders' = Without(holders, r, {"outR"}, "server")
  /\ pc' = [pc EXCEPT ![r] = "wait"]
  /\ UNCHANGED <<request, alive, toWrite, got, response, child, status, pipes, progress, cause>>

\* The script can take a step without the server's help.
MayMove(r) ==
  \/ child[r] = "forked"
  \/ /\ child[r] = "running"
     /\ \/ script[r] = "printer"
        \/ script[r] = "filter" /\ (inBytes[r] > 0 \/ holders[r]["inW"] = {})

\* Another child holds a write end of r's pipes.
Leaked(r) == \E q \in Runs \ {r} : q \in holders[r]["inW"] \cup holders[r]["outW"]

Cause(r) ==
  CASE script[r] = "hangs" -> "hung"
    [] script[r] # "hangs" /\ MayMove(r) -> "slow"
    [] script[r] # "hangs" /\ ~MayMove(r) /\ Leaked(r) -> "leak"
    [] OTHER -> "unexplained"

\* kill, waitpid, and 504 without a look at the output.
GiveUp(r, why) ==
  /\ cause' = [cause EXCEPT ![r] = why]
  /\ child' = [child EXCEPT ![r] = "reaped"]
  /\ status' = [status EXCEPT ![r] = "killed"]
  /\ holders' = Without(DropAll(holders, r), r, {"outR"}, "server")
  /\ Respond(r, 504)
  /\ UNCHANGED <<request, alive, toWrite, got, pipes, progress>>

\* Mutant: a child that is still running gets another timeout_seconds.
TimeoutOfExited(r) ==
  /\ alive /\ pc[r] = "read" /\ outBytes[r] = 0 /\ ~EndOfOutput(r) /\ child[r] = "exited"
  /\ GiveUp(r, Cause(r))

\* select() reports nothing for timeout_seconds.
Timeout(r) ==
  /\ alive /\ pc[r] = "read" /\ outBytes[r] = 0 /\ ~EndOfOutput(r)
  /\ GiveUp(r, Cause(r))

\* select() or read() fails with another errno than EINTR.
ReadFails(r) == alive /\ pc[r] = "read" /\ GiveUp(r, "error")

\* waitpid() without a timeout; then 502, or what parse_cgi_output makes of the
\* output (500 if no blank line ends its headers).  Where the server inherited
\* SIGCHLD as ignored, waitpid() fails once the child is gone: 502 as well.
WaitForChild(r) ==
  /\ alive /\ pc[r] = "wait" /\ child[r] = "exited"
  /\ child' = [child EXCEPT ![r] = "reaped"]
  /\ \E code \in IF status[r] = "ok" THEN {200, 500, 502} ELSE {502} : Respond(r, code)
  /\ UNCHANGED <<request, alive, toWrite, got, status, holders, pipes, progress, cause>>

(***************************************************************************)
(* The child.                                                               *)
(***************************************************************************)
\* Close the server's ends of its own pipes, dup2, execve.
Exec(r) ==
  /\ alive /\ child[r] = "forked"
  /\ holders' = Without(holders, r, {"inW", "outR"}, r)
  /\ child' = [child EXCEPT ![r] = "running"]
  /\ UNCHANGED <<request, alive, pc, toWrite, got, response, status, pipes, progress, cause>>

Exits(r, how) ==
  /\ holders' = DropAll(holders, r)
  /\ child' = [child EXCEPT ![r] = "exited"]
  /\ status' = [status EXCEPT ![r] = how]
  /\ UNCHANGED <<request, alive, pc, toWrite, got, response, pipes, progress, cause>>

\* dup2 or execve fails: _exit(1).
ExecFails(r) == alive /\ child[r] = "forked" /\ Exits(r, "failed")

ScriptReads(r) ==
  /\ alive /\ child[r] = "running" /\ script[r] = "filter" /\ inBytes[r] > 0
  /\ eaten' = [eaten EXCEPT ![r] = @ + inBytes[r]]
  /\ inBytes' = [inBytes EXCEPT ![r] = 0]
  /\ UNCHANGED <<request, alive, pc, toWrite, got, response, child, status, holders, outBytes, toPrint, cause>>

\* The script has its input and prints.
Printing(r) ==
  \/ script[r] = "printer"
  \/ script[r] = "filter" /\ inBytes[r] = 0 /\ holders[r]["inW"] = {}

ScriptPrints(r, n) ==
  /\ alive /\ child[r] = "running" /\ Printing(r)
  /\ n <= toPrint[r] /\ outBytes[r] + n <= PipeCap
  /\ toPrint' = [toPrint EXCEPT ![r] = @ - n]
  /\ outBytes' = [outBytes EXCEPT ![r] = @ + n]
  /\ UNCHANGED <<request, alive, pc, toWrite, got, response, child, status, holders, inBytes, eaten, cause>>

ScriptExits(r) ==
  /\ alive /\ child[r] = "running" /\ Printing(r) /\ toPrint[r] = 0
  /\ \E how \in {"ok", "failed"} : Exits(r, how)

-----------------------------------------------------------------------------
Server(r) ==
  \/ SetupPipes(r) \/ SetupFails(r) \/ Fork(r) \/ ForkFails(r) \/ ParentCloses(r)
  \/ \E n \in 1..PipeCap : WriteBody(r, n)
  \/ WriteFails(r) \/ Reap(r) \/ CloseStdin(r)
  \/ ReadOutput(r) \/ ReadEnds(r) \/ Timeout(r) \/ WaitForChild(r)

Script(r) ==
  \/ Exec(r) \/ ExecFails(r) \/ ScriptReads(r) \/ ScriptExits(r)
  \/ \E n \in 1..PipeCap : ScriptPrints(r, n)

Next == \E r \in Runs : Server(r) \/ ReadFails(r) \/ Script(r)

\* Threads and processes are scheduled; select() times out; nothing else is
\* assumed of when.  An error of select() or read() is never relied upon.
Spec == Init /\ [][Next]_vars /\ \A r \in Runs : WF_vars(Server(r)) /\ WF_vars(Script(r))
-----------------------------------------------------------------------------
\* Types; the server holds the pipe end that it writes or reads next.
TypeOK ==
  /\ script \in [Runs -> Scripts] /\ body \in [Runs -> Bodies]
  /\ sigpipeIgnored \in BOOLEAN /\ alive \in BOOLEAN
  /\ pc \in [Runs -> {"pipes", "fork", "parent", "write", "reap", "read", "wait", "done"}]
  /\ response \in [Runs -> {0, 200, 500, 502, 504}]
  /\ child \in [Runs -> {"none", "forked", "running", "exited", "reaped"}]
  /\ status \in [Runs -> {"none", "ok", "failed", "killed"}]
  /\ holders \in [Runs -> [Ends -> SUBSET (Runs \cup {"server"})]]
  /\ \A r \in Runs :
       /\ toWrite[r] \in 0..body[r] /\ got[r] \in 0..OutLen
       /\ inBytes[r] \in 0..PipeCap /\ outBytes[r] \in 0..PipeCap
       /\ eaten[r] \in 0..body[r] /\ toPrint[r] \in 0..OutLen
       /\ (pc[r] = "write" => "server" \in holders[r]["inW"])
       /\ (pc[r] = "read" => "server" \in holders[r]["outR"])

\* On every path run_cgi leaves neither an open pipe end nor a zombie behind.
NothingLeftBehind ==
  \A r \in Runs : pc[r] = "done" =>
    /\ \A e \in Ends : "server" \notin holders[r][e]
    /\ child[r] \in {"none", "reaped"}

\* A 200 carries all that the script printed, and a script that reads its input
\* was given the whole body.
OutputWhole ==
  \A r \in Runs : response[r] = 200 =>
    got[r] = OutLen /\ (script[r] = "filter" => eaten[r] = body[r])

\* A 504 answers a script that hangs or is slow; or, with calls that overlap,
\* one that waits for the end of a pipe of which another child inherited an end;
\* or an error of select() or read(), which ReadFails calls "error".
TimeoutExplained == \A r \in Runs : cause[r] # "unexplained"

\* No call can block for good if bodies of scripts that do not read them fit
\* into the pipe, unless SIGPIPE ends the process.
CallsReturn ==
  (\A r \in Runs : script[r] = "filter" \/ body[r] <= PipeCap) =>
    <>(~alive \/ \A r \in Runs : pc[r] = "done")

\* "returns 504 if the subprocess hangs"
HangingScriptGets504 ==
  \A r \in Runs :
    script[r] = "hangs" /\ child[r] = "running" ~> response[r] = 504 \/ ~alive
=============================================================================
