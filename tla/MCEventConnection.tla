------------------------- MODULE MCEventConnection -------------------------
(* Small request sequences for EventConnection.                             *)
EXTENDS EventConnection

GetClose == <<"GET", "LF", "CC", "LF", "LF">>
Post == <<"POST", "LF", "CL2", "LF", "LF", "x", "LF">>

Sends(requests) ==
  [bytes |-> FlattenSeq(requests),
   ends |-> {Len(FlattenSeq(SubSeq(requests, 1, i))) : i \in DOMAIN requests}]

MCStreams == {
  Sends(<<Post, GetClose>>),
  Sends(<<<<"GET", "LF", "LF">>, Post>>),
  Sends(<<<<"GET", "x", "CR", "LF", "CR", "LF">>, <<"BREW", "LF">>>>),
  Sends(<<<<"POST", "LF", "CLhuge", "LF", "LF">>>>) }
=============================================================================
