------------------------- MODULE ConnectionService -------------------------
(***************************************************************************)
(* What the thread-pool server promises about accepted connections, without *)
(* threads, locks, descriptors or sentinels: every accepted connection is   *)
(* taken into service in the order of acceptance, by at most Capacity       *)
(* workers at once, is finished exactly once, and the server stops only     *)
(* when nothing that it accepted is left unfinished.                        *)
(***************************************************************************)
EXTENDS Naturals, Sequences, FiniteSets

CONSTANTS Conns,      \* the client connections
          Capacity    \* how many connections are served at a time

VARIABLES waiting,    \* accepted connections not yet in service, in order
          serving,    \* connections in service
          finished,   \* connections served and closed
          stopped     \* the server has returned from run_thread_pool

vars == <<waiting, serving, finished, stopped>>

Waiting(c) == \E i \in DOMAIN waiting : waiting[i] = c

Init == waiting = <<>> /\ serving = {} /\ finished = {} /\ stopped = FALSE

Accept(c) ==
  /\ ~stopped
  /\ ~Waiting(c) /\ c \notin serving \cup finished
  /\ waiting' = Append(waiting, c)
  /\ UNCHANGED <<serving, finished, stopped>>

Start ==
  /\ waiting # <<>>
  /\ Cardinality(serving) < Capacity
  /\ waiting' = Tail(waiting)
  /\ serving' = serving \cup {Head(waiting)}
  /\ UNCHANGED <<finished, stopped>>

Finish(c) ==
  /\ c \in serving
  /\ serving' = serving \ {c}
  /\ finished' = finished \cup {c}
  /\ UNCHANGED <<waiting, stopped>>

Stop ==
  /\ ~stopped /\ waiting = <<>> /\ serving = {}
  /\ stopped' = TRUE
  /\ UNCHANGED <<waiting, serving, finished>>

Next == (\E c \in Conns : Accept(c) \/ Finish(c)) \/ Start \/ Stop

Fairness == WF_vars(Start) /\ \A c \in Conns : WF_vars(Finish(c))

Spec == Init /\ [][Next]_vars /\ Fairness
=============================================================================
