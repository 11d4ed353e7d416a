------------------------ MODULE MCHandleConnection ------------------------
(* Small streams for HandleConnection: up to two requests or fragments in a *)
(* row, then possibly a third that asks to close.                           *)
EXTENDS HandleConnection

\* One request, well-formed or not, or the beginning of one.
Shapes == {
  <<"GET", "LF", "LF">>,
  <<"GET", "x", "CR", "LF", "H", "LF", "CR", "LF">>,
  <<"GET", "LF", "CC", "LF", "LF">>,
  <<"GET", "LF", "CL1", "LF", "LF">>,
  <<"POST", "LF", "LF">>,
  <<"POST", "LF", "CL1", "LF", "LF", "x">>,
  <<"POST", "LF", "CL1", "LF", "CL2", "LF", "LF", "LF", "GET">>,
  <<"POST", "LF", "CL2", "LF", "LF", "x">>,
  <<"POST", "LF", "CLhuge", "LF", "LF", "x">>,
  <<"GET", "LF", "CLbad", "LF", "LF">>,
  <<"BREW", "LF", "LF">>,
  <<"x", "LF">>,
  <<"GET", "LF", "x", "LF">>,
  <<"GET", "CR">>,
  <<"GET", "LF", "H", "x", "x", "x", "x", "LF", "LF">> }

MCStreams ==
  LET last == <<"GET", "LF", "CC", "LF", "LF">>
  IN  {s \o t : s \in Shapes, t \in Shapes} \cup {s \o s \o last : s \in Shapes}
=============================================================================
