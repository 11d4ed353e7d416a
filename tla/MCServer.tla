------------------------------ MODULE MCServer ------------------------------
(* Configuration files of up to four lines for Server. *)
EXTENDS Server

MCLines == {
  [key |-> "<VirtualHost", value |-> 0], [key |-> "</VirtualHost>", value |-> 0],
  [key |-> "DocumentRoot", value |-> 1], [key |-> "DocumentRoot", value |-> 2],
  [key |-> "nThreads", value |-> 0], [key |-> "nThreads", value |-> 2],
  [key |-> "nSelectLoops", value |-> 1],
  [key |-> "TLSCertFile", value |-> 1], [key |-> "TLSKeyFile", value |-> 1],
  [key |-> "Unknown", value |-> 1] }

MCFiles == UNION {[1..n -> MCLines] : n \in 0..4}
=============================================================================
