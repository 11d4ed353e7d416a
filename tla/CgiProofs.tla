----------------------------- MODULE CgiProofs -----------------------------
(***************************************************************************)
(* Proofs about Cgi, for any number of overlapping calls, any bodies, length *)
(* of output and capacity of a pipe: each safety property of the module.     *)
(***************************************************************************)
EXTENDS Cgi, TLAPS

Processes == Runs \cup {"server"}

\* The ends of its pipes that the server holds at each point of run_cgi.
Kept == [pipes |-> {}, fork |-> Ends, parent |-> Ends, write |-> {"inW", "outR"},
         reap |-> {"outR"}, read |-> {"outR"}, wait |-> {}, done |-> {}]

HoldersType == [Runs -> [Ends -> SUBSET Processes]]

Places == {"pipes", "fork", "parent", "write", "reap", "read", "wait", "done"}

Shape ==
  /\ script \in [Runs -> Scripts] /\ body \in [Runs -> Bodies]
  /\ sigpipeIgnored \in BOOLEAN /\ alive \in BOOLEAN
  /\ pc \in [Runs -> Places]
  /\ response \in [Runs -> {0, 200, 500, 502, 504}]
  /\ child \in [Runs -> {"none", "forked", "running", "exited", "reaped"}]
  /\ status \in [Runs -> {"none", "ok", "failed", "killed"}]
  /\ cause \in [Runs -> {"none", "hung", "slow", "leak", "error"}]
  /\ holders \in HoldersType
  /\ toWrite \in [Runs -> Nat] /\ got \in [Runs -> Nat]
  /\ inBytes \in [Runs -> 0..PipeCap] /\ outBytes \in [Runs -> 0..PipeCap]
  /\ eaten \in [Runs -> Nat] /\ toPrint \in [Runs -> Nat]

ServerEnds(r) == \A e \in Ends : "server" \in holders[r][e] <=> e \in Kept[pc[r]]

\* The child lives from fork() to waitpid(); run_cgi waits for it without a timeout
\* only when it has exited.
ChildPlace(r) ==
  /\ child[r] = "none" <=> pc[r] \in {"pipes", "fork"} \/ (pc[r] = "done" /\ child[r] # "reaped")
  /\ pc[r] = "done" => child[r] \in {"none", "reaped"}
  /\ child[r] = "reaped" => pc[r] = "done"
  /\ pc[r] \in {"reap", "wait"} => child[r] = "exited"

\* Of its own pipes a living child holds the ends it uses, and a script not the
\* write end of its stdin.
ChildEnds(r) ==
  /\ child[r] \in {"forked", "running"} => r \in holders[r]["inR"] /\ r \in holders[r]["outW"]
  /\ child[r] = "running" => r \notin holders[r]["inW"]

\* A process that is over holds nothing.
HoldersLive ==
  \A r, q \in Runs, e \in Ends : r \in holders[q][e] => child[r] \in {"forked", "running"}

\* No byte of the body or of the output is lost on its way.
Conserved(r) ==
  /\ toWrite[r] + inBytes[r] + eaten[r] = body[r]
  /\ got[r] + outBytes[r] + toPrint[r] = OutLen
  /\ pc[r] \in {"read", "wait"} => toWrite[r] = 0
  /\ pc[r] = "wait" => outBytes[r] = 0

\* What the exit status "ok" and the response 200 tell.
Told(r) ==
  /\ child[r] \in {"none", "forked", "running"} => status[r] = "none"
  /\ status[r] = "ok" => toPrint[r] = 0 /\ (script[r] = "filter" => eaten[r] = body[r])
  /\ response[r] # 0 => pc[r] = "done"
  /\ response[r] = 200 =>
       /\ child[r] = "reaped" /\ got[r] = OutLen
       /\ script[r] = "filter" => eaten[r] = body[r]

RunInv(r) == ServerEnds(r) /\ ChildPlace(r) /\ ChildEnds(r) /\ Conserved(r) /\ Told(r)

\* The inductive invariant.
IInv == Shape /\ HoldersLive /\ \A r \in Runs : RunInv(r)

USE RunsAssumption, SizesAssumption, ScriptsAssumption

(***************************************************************************)
(* A step of one call leaves the invariant of the others alone: whatever     *)
(* happens to the holders of their pipes, neither the server nor their own    *)
(* child is concerned.                                                       *)
(***************************************************************************)
SameFields(q) ==
  /\ script'[q] = script[q] /\ body'[q] = body[q] /\ pc'[q] = pc[q]
  /\ toWrite'[q] = toWrite[q] /\ got'[q] = got[q] /\ response'[q] = response[q]
  /\ child'[q] = child[q] /\ status'[q] = status[q]
  /\ inBytes'[q] = inBytes[q] /\ outBytes'[q] = outBytes[q]
  /\ eaten'[q] = eaten[q] /\ toPrint'[q] = toPrint[q]

\* A step of r concerns the others at most by what third processes hold.
Frame(r) ==
  \A q \in Runs \ {r} :
    /\ SameFields(q)
    /\ \A e \in Ends : /\ "server" \in holders'[q][e] <=> "server" \in holders[q][e]
                       /\ q \in holders'[q][e] <=> q \in holders[q][e]

LEMMA OtherRun ==
  ASSUME NEW r, NEW q \in Runs \ {r}, RunInv(q), Frame(r)
  PROVE  RunInv(q)'
<1>0. /\ SameFields(q)
      /\ \A e \in Ends : /\ "server" \in holders'[q][e] <=> "server" \in holders[q][e]
                         /\ q \in holders'[q][e] <=> q \in holders[q][e]
  BY DEF Frame
<1>1. ServerEnds(q)'
  BY <1>0 DEF RunInv, SameFields, ServerEnds
<1>2. ChildPlace(q)'
  BY <1>0 DEF RunInv, SameFields, ChildPlace
<1>3. ChildEnds(q)'
  BY <1>0 DEF RunInv, SameFields, ChildEnds, Ends
<1>4. Conserved(q)'
  BY <1>0 DEF RunInv, SameFields, Conserved
<1>5. Told(q)'
  BY <1>0 DEF RunInv, SameFields, Told
<1> QED
  BY <1>1, <1>2, <1>3, <1>4, <1>5 DEF RunInv

LEMMA StepOf ==
  ASSUME IInv, NEW r \in Runs, Shape', HoldersLive', Frame(r), RunInv(r)'
  PROVE  IInv'
<1>1. ASSUME NEW q \in Runs PROVE RunInv(q)'
  <2>1. RunInv(q)
    BY DEF IInv
  <2>2. CASE q # r
    BY <2>1, <2>2, OtherRun
  <2> QED
    BY <2>2
<1> QED
  BY <1>1 DEF IInv

LEMMA InitIInv == Init => IInv
<1> SUFFICES ASSUME Init PROVE IInv
  OBVIOUS
<1>1. Shape
  <2>1. toWrite \in [Runs -> Nat] /\ holders \in HoldersType
    BY DEF Init, HoldersType
  <2>2. OutLen \in Nat /\ 0 \in 0..PipeCap
    OBVIOUS
  <2> QED
    BY <2>1, <2>2 DEF Init, Shape, Places
<1>2. HoldersLive
  BY DEF Init, HoldersLive
<1>3. ASSUME NEW r \in Runs PROVE RunInv(r)
  <2>1. ServerEnds(r)
    <3>1. pc[r] = "pipes" /\ Kept["pipes"] = {} /\ \A e \in Ends : holders[r][e] = {}
      BY DEF Init, Kept
    <3> QED
      BY <3>1 DEF ServerEnds
  <2>2. ChildPlace(r) /\ ChildEnds(r) /\ Told(r)
    BY DEF Init, ChildPlace, ChildEnds, Told
  <2>3. Conserved(r)
    <3>1. body[r] \in Nat /\ toWrite[r] = body[r] /\ OutLen \in Nat
      BY DEF Init
    <3> QED
      BY <3>1 DEF Init, Conserved
  <2> QED
    BY <2>1, <2>2, <2>3 DEF RunInv
<1> QED
  BY <1>1, <1>2, <1>3 DEF IInv

\* Before the pipes exist only the server can come to hold their ends.
LEMMA SetupPipesKeeps ==
  ASSUME IInv, NEW r \in Runs, SetupPipes(r)
  PROVE  IInv'
<1> USE DEF request, pipes, progress
<1>0. Shape /\ HoldersLive /\ RunInv(r) /\ r # "server"
  BY DEF IInv
<1>h. /\ holders' \in HoldersType
      /\ \A q \in Runs, e \in Ends : \A x :
           x \in holders'[q][e] <=> IF q = r THEN x = "server" ELSE x \in holders[q][e]
  BY <1>0 DEF SetupPipes, Shape, HoldersType, Processes
<1>1. Shape'
  BY <1>0, <1>h DEF SetupPipes, Shape, Places
<1>2. HoldersLive'
  <2> SUFFICES ASSUME NEW p \in Runs, NEW q \in Runs, NEW e \in Ends, p \in holders'[q][e]
               PROVE  child'[p] \in {"forked", "running"}
    BY DEF HoldersLive
  <2>1. p \in holders[q][e]
    BY <1>0, <1>h
  <2> QED
    BY <1>0, <2>1 DEF SetupPipes, Shape, HoldersLive
<1>3. Frame(r)
  BY <1>0, <1>h DEF SetupPipes, SameFields, Shape, Frame
<1>4. RunInv(r)'
  <2>1. ServerEnds(r)'
    <3>1. pc[r] = "pipes" /\ pc'[r] = "fork"
      BY <1>0 DEF SetupPipes, Shape
    <3>2. \A e \in Ends : "server" \in holders[r][e] <=> e \in Kept["pipes"]
      BY <1>0, <3>1 DEF RunInv, ServerEnds
    <3>3. \A e \in Ends : "server" \in holders'[r][e] <=> e \in Kept["fork"]
      BY <1>0, <1>h, <3>2 DEF Kept, Ends
    <3> QED
      BY <3>1, <3>3 DEF ServerEnds
  <2>2. ChildPlace(r)'
    BY <1>0 DEF SetupPipes, RunInv, ChildPlace, Shape
  <2>3. ChildEnds(r)'
    BY <1>0, <1>h DEF SetupPipes, RunInv, ChildPlace, ChildEnds, Shape, Ends
  <2>4. Conserved(r)'
    BY <1>0 DEF SetupPipes, RunInv, Conserved, Shape
  <2>5. Told(r)'
    BY <1>0 DEF SetupPipes, RunInv, ChildPlace, Conserved, Told, Shape
  <2> QED
    BY <2>1, <2>2, <2>3, <2>4, <2>5 DEF RunInv
<1> QED
  BY <1>1, <1>2, <1>3, <1>4, StepOf

\* A call whose pipes cannot be made has nothing to close.
LEMMA SetupFailsKeeps ==
  ASSUME IInv, NEW r \in Runs, SetupFails(r)
  PROVE  IInv'
<1> USE DEF request, pipes, progress
<1>0. Shape /\ HoldersLive /\ RunInv(r)
  BY DEF IInv
<1>1. Shape' /\ HoldersLive' /\ Frame(r)
  BY <1>0 DEF SetupFails, Respond, Shape, Places, HoldersLive, Frame, SameFields
<1>2. ServerEnds(r)' /\ ChildPlace(r)' /\ ChildEnds(r)'
  BY <1>0 DEF SetupFails, Respond, RunInv, ServerEnds, ChildPlace, ChildEnds, Shape, Kept, Ends
<1>3. Conserved(r)'
  BY <1>0 DEF SetupFails, Respond, RunInv, Conserved, Shape
<1>4. Told(r)'
  BY <1>0 DEF SetupFails, Respond, RunInv, ChildPlace, Conserved, Told, Shape
<1> QED
  BY <1>1, <1>2, <1>3, <1>4, StepOf DEF RunInv

\* The child of r inherits what the server holds: all ends of its own pipes, and those
\* of other calls that the server has open, whose invariants do not speak of it.
LEMMA ForkKeeps ==
  ASSUME IInv, NEW r \in Runs, Fork(r)
  PROVE  IInv'
<1> USE DEF request, pipes, progress
<1>0. Shape /\ HoldersLive /\ RunInv(r) /\ r # "server"
  BY DEF IInv
<1>h. /\ holders' \in HoldersType
      /\ \A q \in Runs, e \in Ends : \A x :
           x \in holders'[q][e] <=> x \in holders[q][e] \/ ("server" \in holders[q][e] /\ x = r)
  BY <1>0 DEF Fork, Shape, HoldersType, Processes, Inherit
<1>1. Shape'
  BY <1>0, <1>h DEF Fork, Shape, Places
<1>2. HoldersLive'
  <2> SUFFICES ASSUME NEW p \in Runs, NEW q \in Runs, NEW e \in Ends, p \in holders'[q][e]
               PROVE  child'[p] \in {"forked", "running"}
    BY DEF HoldersLive
  <2>1. p = r \/ p \in holders[q][e]
    BY <1>0, <1>h
  <2> QED
    BY <1>0, <2>1 DEF Fork, Shape, HoldersLive
<1>3. Frame(r)
  BY <1>0, <1>h DEF Fork, SameFields, Shape, Frame
<1>4. RunInv(r)'
  <2>1. ServerEnds(r)'
    <3>1. pc[r] = "fork" /\ pc'[r] = "parent"
      BY <1>0 DEF Fork, Shape
    <3>2. \A e \in Ends : "server" \in holders[r][e] <=> e \in Kept["fork"]
      BY <1>0, <3>1 DEF RunInv, ServerEnds
    <3>3. \A e \in Ends : "server" \in holders'[r][e] <=> e \in Kept["parent"]
      BY <1>0, <1>h, <3>2 DEF Kept, Ends
    <3> QED
      BY <3>1, <3>3 DEF ServerEnds
  <2>2. ChildPlace(r)'
    BY <1>0 DEF Fork, RunInv, ChildPlace, Shape
  <2>3. ChildEnds(r)'
    <3>1. child'[r] = "forked" /\ pc[r] = "fork"
      BY <1>0 DEF Fork, Shape
    <3>2. \A e \in Ends : r \in holders'[r][e]
      <4>1. \A e \in Ends : "server" \in holders[r][e]
        BY <1>0, <3>1 DEF RunInv, ServerEnds, Kept
      <4> QED
        BY <1>h, <4>1
    <3> QED
      BY <3>1, <3>2 DEF ChildEnds, Ends
  <2>4. Conserved(r)'
    BY <1>0 DEF Fork, RunInv, Conserved, Shape
  <2>5. Told(r)'
    BY <1>0 DEF Fork, RunInv, ChildPlace, Conserved, Told, Shape
  <2> QED
    BY <2>1, <2>2, <2>3, <2>4, <2>5 DEF RunInv
<1> QED
  BY <1>1, <1>2, <1>3, <1>4, StepOf

\* All four ends are closed when fork() fails.
LEMMA ForkFailsKeeps ==
  ASSUME IInv, NEW r \in Runs, ForkFails(r)
  PROVE  IInv'
<1> USE DEF request, pipes, progress
<1>0. Shape /\ HoldersLive /\ RunInv(r) /\ r # "server"
  BY DEF IInv
<1>h. /\ holders' \in HoldersType
      /\ \A q \in Runs, e \in Ends : \A x :
           x \in holders'[q][e] <=> x \in holders[q][e] /\ ~(q = r /\ x = "server")
  BY <1>0 DEF ForkFails, Respond, Shape, HoldersType, Processes, Without
<1>1. Shape'
  BY <1>0, <1>h DEF ForkFails, Respond, Shape, Places
<1>2. HoldersLive'
  <2> SUFFICES ASSUME NEW p \in Runs, NEW q \in Runs, NEW e \in Ends, p \in holders'[q][e]
               PROVE  child'[p] \in {"forked", "running"}
    BY DEF HoldersLive
  <2>1. p \in holders[q][e]
    BY <1>0, <1>h
  <2> QED
    BY <1>0, <2>1 DEF ForkFails, Respond, Shape, HoldersLive
<1>3. Frame(r)
  BY <1>0, <1>h DEF ForkFails, Respond, SameFields, Shape, Frame
<1>4. RunInv(r)'
  <2>1. ServerEnds(r)'
    <3>1. pc[r] = "fork" /\ pc'[r] = "done"
      BY <1>0 DEF ForkFails, Respond, Shape
    <3>2. \A e \in Ends : "server" \in holders[r][e] <=> e \in Kept["fork"]
      BY <1>0, <3>1 DEF RunInv, ServerEnds
    <3>3. \A e \in Ends : "server" \in holders'[r][e] <=> e \in Kept["done"]
      BY <1>0, <1>h, <3>2 DEF Kept, Ends
    <3> QED
      BY <3>1, <3>3 DEF ServerEnds
  <2>2. ChildPlace(r)'
    BY <1>0 DEF ForkFails, Respond, RunInv, ChildPlace, Shape
  <2>3. ChildEnds(r)'
    BY <1>0, <1>h DEF ForkFails, Respond, RunInv, ChildPlace, ChildEnds, Shape, Ends
  <2>4. Conserved(r)'
    BY <1>0 DEF ForkFails, Respond, RunInv, Conserved, Shape
  <2>5. Told(r)'
    BY <1>0 DEF ForkFails, Respond, RunInv, ChildPlace, Conserved, Told, Shape
  <2> QED
    BY <2>1, <2>2, <2>3, <2>4, <2>5 DEF RunInv
<1> QED
  BY <1>1, <1>2, <1>3, <1>4, StepOf

\* The parent keeps the write end of the stdin and the read end of the stdout.
LEMMA ParentClosesKeeps ==
  ASSUME IInv, NEW r \in Runs, ParentCloses(r)
  PROVE  IInv'
<1> USE DEF request, pipes, progress
<1>0. Shape /\ HoldersLive /\ RunInv(r) /\ r # "server"
  BY DEF IInv
<1>h. /\ holders' \in HoldersType
      /\ \A q \in Runs, e \in Ends : \A x :
           x \in holders'[q][e] <=>
             /\ x \in holders[q][e]
             /\ ~(q = r /\ e \in {"inR", "outW"} /\ x = "server")
  BY <1>0 DEF ParentCloses, Shape, HoldersType, Processes, Without
<1>1. Shape'
  BY <1>0, <1>h DEF ParentCloses, Shape, Places
<1>2. HoldersLive'
  <2> SUFFICES ASSUME NEW p \in Runs, NEW q \in Runs, NEW e \in Ends, p \in holders'[q][e]
               PROVE  child'[p] \in {"forked", "running"}
    BY DEF HoldersLive
  <2>1. p \in holders[q][e]
    BY <1>0, <1>h
  <2> QED
    BY <1>0, <2>1 DEF ParentCloses, Shape, HoldersLive
<1>3. Frame(r)
  BY <1>0, <1>h DEF ParentCloses, SameFields, Shape, Frame
<1>4. RunInv(r)'
  <2>1. ServerEnds(r)'
    <3>1. pc[r] = "parent" /\ pc'[r] = "write"
      BY <1>0 DEF ParentCloses, Shape
    <3>2. \A e \in Ends : "server" \in holders[r][e] <=> e \in Kept["parent"]
      BY <1>0, <3>1 DEF RunInv, ServerEnds
    <3>3. \A e \in Ends : "server" \in holders'[r][e] <=> e \in Kept["write"]
      BY <1>0, <1>h, <3>2 DEF Kept, Ends
    <3> QED
      BY <3>1, <3>3 DEF ServerEnds
  <2>2. ChildPlace(r)'
    BY <1>0 DEF ParentCloses, RunInv, ChildPlace, Shape
  <2>3. ChildEnds(r)'
    <3>1. child'[r] = child[r]
      BY DEF ParentCloses
    <3>2. \A e \in Ends : r \in holders'[r][e] <=> r \in holders[r][e]
      BY <1>0, <1>h
    <3> QED
      BY <1>0, <3>1, <3>2 DEF RunInv, ChildEnds, Ends
  <2>4. Conserved(r)'
    BY <1>0 DEF ParentCloses, RunInv, Conserved, Shape
  <2>5. Told(r)'
    BY <1>0 DEF ParentCloses, RunInv, ChildPlace, Conserved, Told, Shape
  <2> QED
    BY <2>1, <2>2, <2>3, <2>4, <2>5 DEF RunInv
<1> QED
  BY <1>1, <1>2, <1>3, <1>4, StepOf

\* What leaves the body is in the pipe.
LEMMA WriteBodyKeeps ==
  ASSUME IInv, NEW r \in Runs, NEW n \in 1..PipeCap, WriteBody(r, n)
  PROVE  IInv'
<1> USE DEF request, pipes, progress
<1>0. Shape /\ HoldersLive /\ RunInv(r)
  BY DEF IInv
<1>1. Shape' /\ HoldersLive' /\ Frame(r)
  BY <1>0 DEF WriteBody, Shape, Places, HoldersLive, Frame, SameFields
<1>2. ServerEnds(r)' /\ ChildPlace(r)' /\ ChildEnds(r)'
  BY <1>0 DEF WriteBody, RunInv, ServerEnds, ChildPlace, ChildEnds, Shape, Kept, Ends
<1>3. Conserved(r)'
  BY <1>0 DEF WriteBody, RunInv, Conserved, Shape
<1>4. Told(r)'
  BY <1>0 DEF WriteBody, RunInv, ChildPlace, Conserved, Told, Shape
<1> QED
  BY <1>1, <1>2, <1>3, <1>4, StepOf DEF RunInv

\* After waitpid() the call has closed its last end.
LEMMA ReapKeeps ==
  ASSUME IInv, NEW r \in Runs, Reap(r)
  PROVE  IInv'
<1> USE DEF request, pipes, progress
<1>0. Shape /\ HoldersLive /\ RunInv(r) /\ r # "server"
  BY DEF IInv
<1>h. /\ holders' \in HoldersType
      /\ \A q \in Runs, e \in Ends : \A x :
           x \in holders'[q][e] <=> x \in holders[q][e] /\ ~(q = r /\ e = "outR" /\ x = "server")
  BY <1>0 DEF Reap, Respond, Shape, HoldersType, Processes, Without
<1>1. Shape'
  BY <1>0, <1>h DEF Reap, Respond, Shape, Places
<1>2. HoldersLive'
  <2> SUFFICES ASSUME NEW p \in Runs, NEW q \in Runs, NEW e \in Ends, p \in holders'[q][e]
               PROVE  child'[p] \in {"forked", "running"}
    BY DEF HoldersLive
  <2>1. p \in holders[q][e]
    BY <1>0, <1>h
  <2> QED
    BY <1>0, <2>1 DEF Reap, Respond, Shape, HoldersLive
<1>3. Frame(r)
  BY <1>0, <1>h DEF Reap, Respond, SameFields, Shape, Frame
<1>4. RunInv(r)'
  <2>1. ServerEnds(r)'
    <3>1. pc[r] = "reap" /\ pc'[r] = "done"
      BY <1>0 DEF Reap, Respond, Shape
    <3>2. \A e \in Ends : "server" \in holders[r][e] <=> e \in Kept["reap"]
      BY <1>0, <3>1 DEF RunInv, ServerEnds
    <3>3. \A e \in Ends : "server" \in holders'[r][e] <=> e \in Kept["done"]
      BY <1>0, <1>h, <3>2 DEF Kept, Ends
    <3> QED
      BY <3>1, <3>3 DEF ServerEnds
  <2>2. ChildPlace(r)'
    BY <1>0 DEF Reap, Respond, RunInv, ChildPlace, Shape
  <2>3. ChildEnds(r)'
    BY <1>0, <1>h DEF Reap, Respond, RunInv, ChildPlace, ChildEnds, Shape, Ends
  <2>4. Conserved(r)'
    BY <1>0 DEF Reap, Respond, RunInv, Conserved, Shape
  <2>5. Told(r)'
    BY <1>0 DEF Reap, Respond, RunInv, ChildPlace, Conserved, Told, Shape
  <2> QED
    BY <2>1, <2>2, <2>3, <2>4, <2>5 DEF RunInv
<1> QED
  BY <1>1, <1>2, <1>3, <1>4, StepOf

\* The server is the only holder of its own that could keep the script waiting.
LEMMA CloseStdinKeeps ==
  ASSUME IInv, NEW r \in Runs, CloseStdin(r)
  PROVE  IInv'
<1> USE DEF request, pipes, progress
<1>0. Shape /\ HoldersLive /\ RunInv(r) /\ r # "server"
  BY DEF IInv
<1>h. /\ holders' \in HoldersType
      /\ \A q \in Runs, e \in Ends : \A x :
           x \in holders'[q][e] <=> x \in holders[q][e] /\ ~(q = r /\ e = "inW" /\ x = "server")
  BY <1>0 DEF CloseStdin, Shape, HoldersType, Processes, Without
<1>1. Shape'
  BY <1>0, <1>h DEF CloseStdin, Shape, Places
<1>2. HoldersLive'
  <2> SUFFICES ASSUME NEW p \in Runs, NEW q \in Runs, NEW e \in Ends, p \in holders'[q][e]
               PROVE  child'[p] \in {"forked", "running"}
    BY DEF HoldersLive
  <2>1. p \in holders[q][e]
    BY <1>0, <1>h
  <2> QED
    BY <1>0, <2>1 DEF CloseStdin, Shape, HoldersLive
<1>3. Frame(r)
  BY <1>0, <1>h DEF CloseStdin, SameFields, Shape, Frame
<1>4. RunInv(r)'
  <2>1. ServerEnds(r)'
    <3>1. pc[r] = "write" /\ pc'[r] = "read"
      BY <1>0 DEF CloseStdin, Shape
    <3>2. \A e \in Ends : "server" \in holders[r][e] <=> e \in Kept["write"]
      BY <1>0, <3>1 DEF RunInv, ServerEnds
    <3>3. \A e \in Ends : "server" \in holders'[r][e] <=> e \in Kept["read"]
      BY <1>0, <1>h, <3>2 DEF Kept, Ends
    <3> QED
      BY <3>1, <3>3 DEF ServerEnds
  <2>2. ChildPlace(r)'
    BY <1>0 DEF CloseStdin, RunInv, ChildPlace, Shape
  <2>3. ChildEnds(r)'
    <3>1. child'[r] = child[r]
      BY DEF CloseStdin
    <3>2. \A e \in Ends : r \in holders'[r][e] <=> r \in holders[r][e]
      BY <1>0, <1>h
    <3> QED
      BY <1>0, <3>1, <3>2 DEF RunInv, ChildEnds, Ends
  <2>4. Conserved(r)'
    BY <1>0 DEF CloseStdin, RunInv, Conserved, Shape
  <2>5. Told(r)'
    BY <1>0 DEF CloseStdin, RunInv, ChildPlace, Conserved, Told, Shape
  <2> QED
    BY <2>1, <2>2, <2>3, <2>4, <2>5 DEF RunInv
<1> QED
  BY <1>1, <1>2, <1>3, <1>4, StepOf

\* What leaves the pipe is in the output.
LEMMA ReadOutputKeeps ==
  ASSUME IInv, NEW r \in Runs, ReadOutput(r)
  PROVE  IInv'
<1> USE DEF request, pipes, progress
<1>0. Shape /\ HoldersLive /\ RunInv(r)
  BY DEF IInv
<1>1. Shape' /\ HoldersLive' /\ Frame(r)
  BY <1>0 DEF ReadOutput, Shape, Places, HoldersLive, Frame, SameFields
<1>2. ServerEnds(r)' /\ ChildPlace(r)' /\ ChildEnds(r)'
  BY <1>0 DEF ReadOutput, RunInv, ServerEnds, ChildPlace, ChildEnds, Shape, Kept, Ends
<1>3. Conserved(r)'
  BY <1>0 DEF ReadOutput, RunInv, Conserved, Shape
<1>4. Told(r)'
  BY <1>0 DEF ReadOutput, RunInv, ChildPlace, Conserved, Told, Shape
<1> QED
  BY <1>1, <1>2, <1>3, <1>4, StepOf DEF RunInv

\* The end of the output means that the child is over: wait_for_child cannot block.
LEMMA ReadEndsKeeps ==
  ASSUME IInv, NEW r \in Runs, ReadEnds(r)
  PROVE  IInv'
<1> USE DEF request, pipes, progress
<1>0. Shape /\ HoldersLive /\ RunInv(r) /\ r # "server"
  BY DEF IInv
<1>h. /\ holders' \in HoldersType
      /\ \A q \in Runs, e \in Ends : \A x :
           x \in holders'[q][e] <=> x \in holders[q][e] /\ ~(q = r /\ e = "outR" /\ x = "server")
  BY <1>0 DEF ReadEnds, Shape, HoldersType, Processes, Without
<1>1. Shape'
  BY <1>0, <1>h DEF ReadEnds, Shape, Places
<1>2. HoldersLive'
  <2> SUFFICES ASSUME NEW p \in Runs, NEW q \in Runs, NEW e \in Ends, p \in holders'[q][e]
               PROVE  child'[p] \in {"forked", "running"}
    BY DEF HoldersLive
  <2>1. p \in holders[q][e]
    BY <1>0, <1>h
  <2> QED
    BY <1>0, <2>1 DEF ReadEnds, Shape, HoldersLive
<1>3. Frame(r)
  BY <1>0, <1>h DEF ReadEnds, SameFields, Shape, Frame
<1>4. RunInv(r)'
  <2>1. ServerEnds(r)'
    <3>1. pc[r] = "read" /\ pc'[r] = "wait"
      BY <1>0 DEF ReadEnds, Shape
    <3>2. \A e \in Ends : "server" \in holders[r][e] <=> e \in Kept["read"]
      BY <1>0, <3>1 DEF RunInv, ServerEnds
    <3>3. \A e \in Ends : "server" \in holders'[r][e] <=> e \in Kept["wait"]
      BY <1>0, <1>h, <3>2 DEF Kept, Ends
    <3> QED
      BY <3>1, <3>3 DEF ServerEnds
  <2>2. ChildPlace(r)'
    \* nobody holds the write end of its stdout: the child is over
    <3>1. r \notin holders[r]["outW"]
      BY DEF ReadEnds, EndOfOutput
    <3>2. child[r] = "exited"
      BY <1>0, <3>1 DEF ReadEnds, RunInv, ChildPlace, ChildEnds, Shape
    <3> QED
      BY <1>0, <3>2 DEF ReadEnds, ChildPlace, Shape
  <2>3. ChildEnds(r)'
    BY <1>0, <1>h DEF ReadEnds, RunInv, ChildPlace, ChildEnds, Shape, Ends
  <2>4. Conserved(r)'
    BY <1>0 DEF ReadEnds, EndOfOutput, RunInv, Conserved, Shape
  <2>5. Told(r)'
    BY <1>0 DEF ReadEnds, RunInv, ChildPlace, Conserved, Told, Shape
  <2> QED
    BY <2>1, <2>2, <2>3, <2>4, <2>5 DEF RunInv
<1> QED
  BY <1>1, <1>2, <1>3, <1>4, StepOf

\* Only the exit status "ok" leads to a 200, when all output is read.
LEMMA WaitForChildKeeps ==
  ASSUME IInv, NEW r \in Runs, WaitForChild(r)
  PROVE  IInv'
<1> USE DEF request, pipes, progress
<1>0. Shape /\ HoldersLive /\ RunInv(r)
  BY DEF IInv
<1>1. Shape' /\ HoldersLive' /\ Frame(r)
  BY <1>0 DEF WaitForChild, Respond, Shape, Places, HoldersLive, Frame, SameFields
<1>2. ServerEnds(r)' /\ ChildPlace(r)' /\ ChildEnds(r)'
  BY <1>0 DEF WaitForChild, Respond, RunInv, ServerEnds, ChildPlace, ChildEnds, Shape, Kept, Ends
<1>3. Conserved(r)'
  BY <1>0 DEF WaitForChild, Respond, RunInv, Conserved, Shape
<1>4. Told(r)'
  BY <1>0 DEF WaitForChild, Respond, RunInv, ChildPlace, Conserved, Told, Shape
<1> QED
  BY <1>1, <1>2, <1>3, <1>4, StepOf DEF RunInv

\* The child closes the ends that the server uses.
LEMMA ExecKeeps ==
  ASSUME IInv, NEW r \in Runs, Exec(r)
  PROVE  IInv'
<1> USE DEF request, pipes, progress
<1>0. Shape /\ HoldersLive /\ RunInv(r) /\ r # "server"
  BY DEF IInv
<1>h. /\ holders' \in HoldersType
      /\ \A q \in Runs, e \in Ends : \A x :
           x \in holders'[q][e] <=>
             /\ x \in holders[q][e]
             /\ ~(q = r /\ e \in {"inW", "outR"} /\ x = r)
  BY <1>0 DEF Exec, Shape, HoldersType, Processes, Without
<1>1. Shape'
  BY <1>0, <1>h DEF Exec, Shape, Places
<1>2. HoldersLive'
  <2> SUFFICES ASSUME NEW p \in Runs, NEW q \in Runs, NEW e \in Ends, p \in holders'[q][e]
               PROVE  child'[p] \in {"forked", "running"}
    BY DEF HoldersLive
  <2>1. p \in holders[q][e]
    BY <1>0, <1>h
  <2> QED
    BY <1>0, <2>1 DEF Exec, Shape, HoldersLive
<1>3. Frame(r)
  BY <1>0, <1>h DEF Exec, SameFields, Shape, Frame
<1>4. RunInv(r)'
  <2>1. ServerEnds(r)'
    <3>1. pc'[r] = pc[r]
      BY <1>0 DEF Exec, Shape
    <3> QED
      BY <1>0, <1>h, <3>1 DEF RunInv, ServerEnds
  <2>2. ChildPlace(r)'
    BY <1>0 DEF Exec, RunInv, ChildPlace, Shape
  <2>3. ChildEnds(r)'
    <3>1. child[r] = "forked"
      BY DEF Exec
    <3> QED
      BY <1>0, <1>h, <3>1 DEF RunInv, ChildEnds, Ends
  <2>4. Conserved(r)'
    BY <1>0 DEF Exec, RunInv, Conserved, Shape
  <2>5. Told(r)'
    BY <1>0 DEF Exec, RunInv, ChildPlace, Conserved, Told, Shape
  <2> QED
    BY <2>1, <2>2, <2>3, <2>4, <2>5 DEF RunInv
<1> QED
  BY <1>1, <1>2, <1>3, <1>4, StepOf

\* _exit(1) drops what the child holds.
LEMMA ExecFailsKeeps ==
  ASSUME IInv, NEW r \in Runs, ExecFails(r)
  PROVE  IInv'
<1> USE DEF request, pipes, progress
<1>0. Shape /\ HoldersLive /\ RunInv(r) /\ r # "server"
  BY DEF IInv
<1>h. /\ holders' \in HoldersType
      /\ \A q \in Runs, e \in Ends : \A x :
           x \in holders'[q][e] <=> x \in holders[q][e] /\ x # r
  BY <1>0 DEF ExecFails, Exits, Shape, HoldersType, Processes, DropAll
<1>1. Shape'
  BY <1>0, <1>h DEF ExecFails, Exits, Shape, Places
<1>2. HoldersLive'
  <2> SUFFICES ASSUME NEW p \in Runs, NEW q \in Runs, NEW e \in Ends, p \in holders'[q][e]
               PROVE  child'[p] \in {"forked", "running"}
    BY DEF HoldersLive
  <2>1. p # r /\ p \in holders[q][e]
    BY <1>0, <1>h
  <2> QED
    BY <1>0, <2>1 DEF ExecFails, Exits, Shape, HoldersLive
<1>3. Frame(r)
  BY <1>0, <1>h DEF ExecFails, Exits, SameFields, Shape, Frame
<1>4. RunInv(r)'
  <2>1. ServerEnds(r)'
    <3>1. pc'[r] = pc[r]
      BY <1>0 DEF ExecFails, Exits, Shape
    <3> QED
      BY <1>0, <1>h, <3>1 DEF RunInv, ServerEnds
  <2>2. ChildPlace(r)'
    BY <1>0 DEF ExecFails, Exits, RunInv, ChildPlace, Shape
  <2>3. ChildEnds(r)'
    BY <1>0, <1>h DEF ExecFails, Exits, RunInv, ChildPlace, ChildEnds, Shape, Ends
  <2>4. Conserved(r)'
    BY <1>0 DEF ExecFails, Exits, RunInv, Conserved, Shape
  <2>5. Told(r)'
    BY <1>0 DEF ExecFails, Exits, RunInv, ChildPlace, Conserved, Told, Shape
  <2> QED
    BY <2>1, <2>2, <2>3, <2>4, <2>5 DEF RunInv
<1> QED
  BY <1>1, <1>2, <1>3, <1>4, StepOf

\* What leaves the pipe is eaten.
LEMMA ScriptReadsKeeps ==
  ASSUME IInv, NEW r \in Runs, ScriptReads(r)
  PROVE  IInv'
<1> USE DEF request, pipes, progress
<1>0. Shape /\ HoldersLive /\ RunInv(r)
  BY DEF IInv
<1>1. Shape' /\ HoldersLive' /\ Frame(r)
  BY <1>0 DEF ScriptReads, Shape, Places, HoldersLive, Frame, SameFields
<1>2. ServerEnds(r)' /\ ChildPlace(r)' /\ ChildEnds(r)'
  BY <1>0 DEF ScriptReads, RunInv, ServerEnds, ChildPlace, ChildEnds, Shape, Kept, Ends
<1>3. Conserved(r)'
  BY <1>0 DEF ScriptReads, RunInv, Conserved, Shape
<1>4. Told(r)'
  BY <1>0 DEF ScriptReads, RunInv, ChildPlace, Conserved, Told, Shape
<1> QED
  BY <1>1, <1>2, <1>3, <1>4, StepOf DEF RunInv

\* What the script prints is in the pipe.
LEMMA ScriptPrintsKeeps ==
  ASSUME IInv, NEW r \in Runs, NEW n \in 1..PipeCap, ScriptPrints(r, n)
  PROVE  IInv'
<1> USE DEF request, pipes, progress
<1>0. Shape /\ HoldersLive /\ RunInv(r)
  BY DEF IInv
<1>1. Shape' /\ HoldersLive' /\ Frame(r)
  BY <1>0 DEF ScriptPrints, Shape, Places, HoldersLive, Frame, SameFields
<1>2. ServerEnds(r)' /\ ChildPlace(r)' /\ ChildEnds(r)'
  BY <1>0 DEF ScriptPrints, RunInv, ServerEnds, ChildPlace, ChildEnds, Shape, Kept, Ends
<1>3. Conserved(r)'
  <2>1. /\ toPrint'[r] = toPrint[r] - n /\ outBytes'[r] = outBytes[r] + n /\ child[r] = "running"
        /\ UNCHANGED <<toWrite, inBytes, eaten, body, got, pc>>
    BY <1>0 DEF ScriptPrints, Shape
  <2>2. /\ toPrint[r] \in Nat /\ outBytes[r] \in Nat /\ got[r] \in Nat /\ n \in Nat
        /\ toWrite[r] \in Nat /\ inBytes[r] \in Nat /\ eaten[r] \in Nat
    BY <1>0 DEF Shape
  <2>3. got'[r] + outBytes'[r] + toPrint'[r] = OutLen
    BY <1>0, <2>1, <2>2 DEF RunInv, Conserved
  <2> QED
    BY <1>0, <2>1, <2>3 DEF RunInv, Conserved, ChildPlace
<1>4. Told(r)'
  BY <1>0 DEF ScriptPrints, RunInv, ChildPlace, Conserved, Told, Shape
<1> QED
  BY <1>1, <1>2, <1>3, <1>4, StepOf DEF RunInv

\* EPIPE: the script has exited, as a living child holds the read end of its stdin; so
\* waitpid() cannot block.  SIGPIPE: nothing but the end of the server.
LEMMA WriteFailsKeeps ==
  ASSUME IInv, NEW r \in Runs, WriteFails(r)
  PROVE  IInv'
<1> USE DEF request, pipes, progress
<1>0. Shape /\ HoldersLive /\ RunInv(r) /\ r # "server"
  BY DEF IInv
<1>1. CASE ~sigpipeIgnored
  <2>1. Shape' /\ HoldersLive' /\ Frame(r)
    <3>1. Shape'
      <4>1. /\ UNCHANGED <<script, body, sigpipeIgnored, pc, response, child, status, cause>>
            /\ UNCHANGED <<holders, toWrite, got, inBytes, outBytes, eaten, toPrint>>
            /\ alive' = FALSE
        BY <1>1 DEF WriteFails
      <4> QED
        BY <1>0, <4>1 DEF Shape
    <3>2. HoldersLive' /\ Frame(r)
      BY <1>0, <1>1 DEF WriteFails, Shape, HoldersLive, Frame, SameFields
    <3> QED
      BY <3>1, <3>2
  <2>2. RunInv(r)'
    BY <1>0, <1>1
       DEF WriteFails, RunInv, ServerEnds, ChildPlace, ChildEnds, Conserved, Told
  <2> QED
    BY <2>1, <2>2, StepOf
<1>2. CASE sigpipeIgnored
  <2>h. /\ holders' \in HoldersType
        /\ \A q \in Runs, e \in Ends : \A x :
             x \in holders'[q][e] <=>
               x \in holders[q][e] /\ ~(q = r /\ e = "inW" /\ x = "server")
    <3>1. holders' = Without(holders, r, {"inW"}, "server")
      BY <1>2 DEF WriteFails
    <3> QED
      BY <1>0, <3>1 DEF Shape, HoldersType, Processes, Without
  <2>1. Shape' /\ Frame(r)
    BY <1>0, <1>2, <2>h DEF WriteFails, Shape, Places, SameFields, Frame
  <2>2. HoldersLive'
    BY <1>0, <1>2, <2>h DEF WriteFails, Shape, HoldersLive
  <2>3. ServerEnds(r)'
    <3>1. pc[r] = "write" /\ pc'[r] = "reap"
      BY <1>0, <1>2 DEF WriteFails, Shape
    <3>2. \A e \in Ends : "server" \in holders[r][e] <=> e \in Kept["write"]
      BY <1>0, <3>1 DEF RunInv, ServerEnds
    <3>3. \A e \in Ends : "server" \in holders'[r][e] <=> e \in Kept["reap"]
      BY <1>0, <2>h, <3>2 DEF Kept, Ends
    <3> QED
      BY <3>1, <3>3 DEF ServerEnds
  <2>4. ChildPlace(r)'
    \* without a reader the child is over: while it lives it holds that end
    <3>1. child[r] = "exited"
      BY <1>0 DEF WriteFails, RunInv, ChildPlace, ChildEnds, Shape
    <3> QED
      BY <1>0, <1>2, <3>1 DEF WriteFails, ChildPlace, Shape
  <2>5. ChildEnds(r)'
    BY <1>0, <1>2, <2>h DEF WriteFails, RunInv, ChildEnds, Shape, Ends
  <2>6. Conserved(r)' /\ Told(r)'
    BY <1>0, <1>2 DEF WriteFails, RunInv, ChildPlace, Conserved, Told, Shape
  <2> QED
    BY <2>1, <2>2, <2>3, <2>4, <2>5, <2>6, StepOf DEF RunInv
<1> QED
  BY <1>1, <1>2

\* A timeout of a script that is neither hanging nor slow: some process holds a pipe end
\* that the script or the server waits for, and it is neither the server nor the script.
LEMMA TimeoutHasACause ==
  ASSUME IInv, NEW r \in Runs, Timeout(r)
  PROVE  Cause(r) \in {"hung", "slow", "leak"}
<1>0. Shape /\ HoldersLive /\ RunInv(r)
  BY DEF IInv
<1>1. SUFFICES ASSUME script[r] # "hangs", ~MayMove(r), ~Leaked(r)
               PROVE  FALSE
  BY DEF Cause
<1>2. "server" \notin holders[r]["inW"] /\ "server" \notin holders[r]["outW"]
  BY <1>0 DEF Timeout, RunInv, ServerEnds, Kept, Ends
<1>3. \A e \in {"inW", "outW"} : holders[r][e] \subseteq {r}
  <2>1. \A e \in {"inW", "outW"} : holders[r][e] \subseteq Processes
    BY <1>0 DEF Shape, HoldersType, Ends
  <2> QED
    BY <1>1, <1>2, <2>1 DEF Leaked, Processes
<1>4. r \in holders[r]["outW"]
  BY <1>3 DEF Timeout, EndOfOutput
<1>5. child[r] = "running"
  BY <1>0, <1>1, <1>4 DEF HoldersLive, MayMove, Ends
<1>6. script[r] = "filter"
  <2>1. script[r] \in Scripts
    BY <1>0 DEF Shape
  <2> QED
    BY <1>1, <1>5, <2>1, ScriptsAssumption DEF MayMove
<1>7. holders[r]["inW"] # {}
  BY <1>1, <1>5, <1>6 DEF MayMove
<1>8. r \in holders[r]["inW"]
  BY <1>3, <1>7
<1> QED
  BY <1>0, <1>5, <1>8 DEF RunInv, ChildEnds

\* kill() and waitpid() leave no zombie, whatever other children hold.
LEMMA GiveUpKeeps ==
  ASSUME IInv, NEW r \in Runs, alive, pc[r] = "read",
         NEW why \in {"hung", "slow", "leak", "error"}, GiveUp(r, why)
  PROVE  IInv'
<1> USE DEF request, pipes, progress
<1>0. Shape /\ HoldersLive /\ RunInv(r) /\ r # "server"
  BY DEF IInv
<1>h. /\ holders' \in HoldersType
      /\ \A q \in Runs, e \in Ends : \A x :
           x \in holders'[q][e] <=>
             x \in holders[q][e] /\ x # r /\ ~(q = r /\ e = "outR" /\ x = "server")
  BY <1>0 DEF GiveUp, Respond, Shape, HoldersType, Processes, Without, DropAll
<1>1. Shape'
  <2>1. cause' \in [Runs -> {"none", "hung", "slow", "leak", "error"}]
    BY <1>0 DEF GiveUp, Shape
  <2> QED
    BY <1>0, <1>h, <2>1 DEF GiveUp, Respond, Shape, Places
<1>2. HoldersLive'
  BY <1>0, <1>h DEF GiveUp, Respond, Shape, HoldersLive
<1>3. Frame(r)
  BY <1>0, <1>h DEF GiveUp, Respond, SameFields, Shape, Frame
<1>4. ServerEnds(r)'
  <2>1. pc[r] = "read" /\ pc'[r] = "done"
    BY <1>0 DEF GiveUp, Respond, Shape
  <2>2. \A e \in Ends : "server" \in holders[r][e] <=> e \in Kept["read"]
    BY <1>0, <2>1 DEF RunInv, ServerEnds
  <2>3. \A e \in Ends : "server" \in holders'[r][e] <=> e \in Kept["done"]
    BY <1>0, <1>h, <2>2 DEF Kept, Ends
  <2> QED
    BY <2>1, <2>3 DEF ServerEnds
<1>5. ChildPlace(r)' /\ ChildEnds(r)'
  BY <1>0 DEF GiveUp, Respond, ChildPlace, ChildEnds, Shape
<1>6. Conserved(r)' /\ Told(r)'
  BY <1>0 DEF GiveUp, Respond, RunInv, Conserved, Told, Shape
<1> QED
  BY <1>1, <1>2, <1>3, <1>4, <1>5, <1>6, StepOf DEF RunInv

LEMMA TimeoutKeeps ==
  ASSUME IInv, NEW r \in Runs, Timeout(r)
  PROVE  IInv'
<1>1. /\ alive /\ pc[r] = "read" /\ GiveUp(r, Cause(r))
      /\ Cause(r) \in {"hung", "slow", "leak", "error"}
  BY TimeoutHasACause DEF Timeout
<1> QED
  BY <1>1, GiveUpKeeps

LEMMA ReadFailsKeeps ==
  ASSUME IInv, NEW r \in Runs, ReadFails(r)
  PROVE  IInv'
BY GiveUpKeeps DEF ReadFails

\* A script that reads its input exits with all of it.
LEMMA ScriptExitsKeeps ==
  ASSUME IInv, NEW r \in Runs, ScriptExits(r)
  PROVE  IInv'
<1> USE DEF request, pipes, progress
<1>0. Shape /\ HoldersLive /\ RunInv(r) /\ r # "server"
  BY DEF IInv
<1>a. PICK how \in {"ok", "failed"} : Exits(r, how)
  BY DEF ScriptExits
<1>b. child[r] = "running" /\ Printing(r) /\ toPrint[r] = 0
  BY DEF ScriptExits
<1>h. /\ holders' \in HoldersType
      /\ \A q \in Runs, e \in Ends : \A x :
           x \in holders'[q][e] <=> x \in holders[q][e] /\ x # r
  BY <1>0, <1>a DEF Exits, Shape, HoldersType, Processes, DropAll
<1>1. Shape'
  BY <1>0, <1>h, <1>a DEF Exits, Shape, Places
<1>2. HoldersLive'
  BY <1>0, <1>h, <1>a DEF Exits, Shape, HoldersLive
<1>3. Frame(r)
  BY <1>0, <1>h, <1>a DEF Exits, SameFields, Shape, Frame
<1>4. ServerEnds(r)'
  BY <1>0, <1>h, <1>a DEF Exits, RunInv, ServerEnds
<1>5. ChildPlace(r)' /\ ChildEnds(r)' /\ Conserved(r)'
  BY <1>0, <1>a, <1>b DEF Exits, RunInv, ChildPlace, ChildEnds, Conserved, Shape
<1>6. Told(r)'
  \* a filter that prints has seen the end of its stdin: the body is written
  <2>1. script[r] = "filter" => eaten[r] = body[r]
    <3> SUFFICES ASSUME script[r] = "filter" PROVE eaten[r] = body[r]
      OBVIOUS
    <3>1. inBytes[r] = 0 /\ "server" \notin holders[r]["inW"]
      BY <1>b DEF Printing
    <3>2. pc[r] \notin {"fork", "parent", "write"}
      BY <1>0, <3>1 DEF RunInv, ServerEnds, Kept, Ends
    <3>3. pc[r] = "read"
      BY <1>0, <1>b, <3>2 DEF RunInv, ChildPlace, Shape, Places
    <3> QED
      BY <1>0, <3>1, <3>3 DEF RunInv, Conserved, Shape
  <2>2. status'[r] = how /\ child'[r] = "exited" /\ response'[r] = response[r]
    BY <1>0, <1>a DEF Exits, Shape
  <2>3. response[r] # 200
    BY <1>0, <1>b DEF RunInv, Told
  <2> QED
    BY <1>0, <1>a, <1>b, <2>1, <2>2, <2>3 DEF Exits, RunInv, Told, Shape
<1> QED
  BY <1>1, <1>2, <1>3, <1>4, <1>5, <1>6, StepOf DEF RunInv

\* Every step of every call and of every script preserves the inductive invariant.
LEMMA NextIInv == IInv /\ [Next]_vars => IInv'
<1> SUFFICES ASSUME IInv, [Next]_vars PROVE IInv'
  OBVIOUS
<1>1. CASE UNCHANGED vars
  BY <1>1 DEF IInv, vars, request, pipes, progress, Shape, HoldersLive, RunInv, ServerEnds,
              ChildPlace, ChildEnds, Conserved, Told
<1>2. ASSUME NEW r \in Runs, Server(r) PROVE IInv'
  BY <1>2, SetupPipesKeeps, SetupFailsKeeps, ForkKeeps, ForkFailsKeeps, ParentClosesKeeps,
     WriteBodyKeeps, WriteFailsKeeps, ReapKeeps, CloseStdinKeeps, ReadOutputKeeps, ReadEndsKeeps,
     TimeoutKeeps, WaitForChildKeeps DEF Server
<1>3. ASSUME NEW r \in Runs, Script(r) PROVE IInv'
  BY <1>3, ExecKeeps, ExecFailsKeeps, ScriptReadsKeeps, ScriptPrintsKeeps, ScriptExitsKeeps
     DEF Script
<1>4. ASSUME NEW r \in Runs, ReadFails(r) PROVE IInv'
  BY <1>4, ReadFailsKeeps
<1> QED
  BY <1>1, <1>2, <1>3, <1>4 DEF Next

\* The inductive invariant holds in every state.
THEOREM InvariantHolds == Spec => []IInv
BY InitIInv, NextIInv, PTL DEF Spec

\* The counters of run_cgi stay in their bounds, and the server writes to and selects on
\* ends that it holds.
THEOREM TypeCorrect == Spec => []TypeOK
<1>1. IInv => TypeOK
  <2> SUFFICES ASSUME IInv PROVE TypeOK
    OBVIOUS
  <2>1. ASSUME NEW r \in Runs
        PROVE  /\ toWrite[r] \in 0..body[r] /\ got[r] \in 0..OutLen
               /\ inBytes[r] \in 0..PipeCap /\ outBytes[r] \in 0..PipeCap
               /\ eaten[r] \in 0..body[r] /\ toPrint[r] \in 0..OutLen
    <3>1. /\ toWrite[r] \in Nat /\ inBytes[r] \in 0..PipeCap /\ eaten[r] \in Nat
          /\ got[r] \in Nat /\ outBytes[r] \in 0..PipeCap /\ toPrint[r] \in Nat
          /\ body[r] \in Nat /\ OutLen \in Nat
      <4>1. Shape
        BY DEF IInv
      <4>2. toWrite[r] \in Nat /\ inBytes[r] \in 0..PipeCap /\ eaten[r] \in Nat
        BY <4>1 DEF Shape
      <4>3. got[r] \in Nat /\ outBytes[r] \in 0..PipeCap /\ toPrint[r] \in Nat
        BY <4>1 DEF Shape
      <4>4. body[r] \in Nat /\ OutLen \in Nat
        <5>1. body[r] \in Bodies
          BY <4>1 DEF Shape
        <5> QED
          BY <5>1, SizesAssumption
      <4> QED
        BY <4>2, <4>3, <4>4
    <3>2. toWrite[r] + inBytes[r] + eaten[r] = body[r] /\ got[r] + outBytes[r] + toPrint[r] = OutLen
      BY DEF IInv, RunInv, Conserved
    <3> QED
      BY <3>1, <3>2
  <2>2. ASSUME NEW r \in Runs
        PROVE  /\ pc[r] = "write" => "server" \in holders[r]["inW"]
               /\ pc[r] = "read" => "server" \in holders[r]["outR"]
    BY DEF IInv, RunInv, ServerEnds, Kept, Ends
  <2> QED
    BY <2>1, <2>2 DEF IInv, Shape, Places, HoldersType, Processes, TypeOK
<1> QED
  BY <1>1, InvariantHolds, PTL

\* Whatever fails, run_cgi returns with its four descriptors closed and its child reaped:
\* no sequence of requests makes the server run out of descriptors or processes.
THEOREM NothingIsLeftBehind == Spec => []NothingLeftBehind
<1>1. IInv => NothingLeftBehind
  BY DEF IInv, RunInv, ServerEnds, Kept, ChildPlace, NothingLeftBehind
<1> QED
  BY <1>1, InvariantHolds, PTL

\* A 200 of run_cgi carries the whole output; a script that reads its stdin to the end had
\* the whole body, in however many pieces both went through the pipes.
THEOREM OutputIsWhole == Spec => []OutputWhole
<1>1. IInv => OutputWhole
  BY DEF IInv, RunInv, Told, OutputWhole
<1> QED
  BY <1>1, InvariantHolds, PTL

\* read_child_output gives up only on a script that hangs or is slow, or because a child
\* of an overlapping call inherited an end of the pipes.
THEOREM TimeoutIsExplained == Spec => []TimeoutExplained
<1>1. IInv => TimeoutExplained
  BY DEF IInv, Shape, TimeoutExplained
<1> QED
  BY <1>1, InvariantHolds, PTL
=============================================================================
