---------------------------- MODULE PathResolver ----------------------------
(***************************************************************************)
(* From a request to a place on the disk: resolve_vhost and resolve_path    *)
(* (http/routing/vhost_resolver.cpp) and the string functions below them    *)
(* (http/core/request_handler_utils.cpp).  A text is a sequence of          *)
(* characters: "/", ".", "?", ":" and letters, of which "A" and "B" are     *)
(* upper case.                                                              *)
(***************************************************************************)
EXTENDS Naturals, Sequences, FiniteSets, SequencesExt

CONSTANT Characters   \* what paths and host names consist of

ASSUME CharactersAssumption == {"/", "."} \subseteq Characters

Strings == Seq(Characters)

\* F(x), with x evaluated once.
Once(x, F(_)) == CHOOSE y \in {F(v) : v \in {x}} : TRUE

Starts(s, c) == s # <<>> /\ Head(s) = c
Ends(s, c) == s # <<>> /\ Last(s) = c

\* s up to the first c: substr(0, find(c)), or all of it.
Before(s, c) ==
  LET i == SelectInSeq(s, LAMBDA x : x = c)
  IN  IF i = 0 THEN s ELSE SubSeq(s, 1, i - 1)

trim_trailing_slash(s) == IF Ends(s, "/") THEN Front(s) ELSE s
trim_leading_slash(s) == IF Starts(s, "/") THEN Tail(s) ELSE s
LowerCase == [A |-> "a", B |-> "b"]
to_lower(s) == [i \in DOMAIN s |-> IF s[i] \in DOMAIN LowerCase THEN LowerCase[s[i]] ELSE s[i]]

\* What lies between the slashes: the loop of normalize_path over the characters.
Character(segments, c) ==
  IF c = "/" THEN Append(segments, <<>>)
  ELSE [segments EXCEPT ![Len(segments)] = Append(@, c)]

Segments(path) ==
  LET after[n \in 0..Len(path)] ==
        IF n = 0 THEN << <<>> >>
        ELSE Once(after[n - 1], LAMBDA segments : Character(segments, path[n]))
  IN  after[Len(path)]

Up(segment) == segment = <<".", ".">>
Name(segment) == ~Up(segment) /\ segment \notin {<<>>, <<".">>}

\* normalize_path at the end of a segment; Front leaves an empty stack as it is.
EndSegment(parts, segment) ==
  CASE Up(segment) -> Front(parts)
    [] Name(segment) -> Append(parts, segment)
    [] OTHER -> parts

\* The stack that the segments leave.
Stack(segments) ==
  LET after[n \in 0..Len(segments)] ==
        IF n = 0 THEN <<>> ELSE EndSegment(after[n - 1], segments[n])
  IN  after[Len(segments)]

Parts(path) == Once(Segments(path), Stack)

\* The names, each behind a slash; "/" for none.
Joined(names) ==
  LET after[n \in 0..Len(names)] == IF n = 0 THEN <<>> ELSE after[n - 1] \o <<"/">> \o names[n]
  IN  after[Len(names)]

Written(names) == IF names = <<>> THEN <<"/">> ELSE Joined(names)

normalize_path(path) ==
  LET Text(parts) == IF parts = <<>> \/ Starts(path, "/") THEN Written(parts) ELSE Tail(Written(parts))
  IN  Once(Parts(path), Text)

\* Mutant of path_under_root: a bare prefix is enough.
path_under_root_prefix(canonical_path, document_root) ==
  IsPrefix(trim_trailing_slash(normalize_path(document_root)), normalize_path(canonical_path))

path_under_root(canonical_path, document_root) ==
  LET path == normalize_path(canonical_path)
      root == trim_trailing_slash(normalize_path(document_root))
  IN  path = root \/ IsPrefix(root \o <<"/">>, path)

\* The canonical path and TRUE, or nothing and FALSE.
resolve_path(root, uri) ==
  LET combined == IF uri \in {<<>>, <<"/">>} THEN root
                  ELSE trim_trailing_slash(root) \o <<"/">> \o trim_leading_slash(uri)
      Place(canonical) == IF path_under_root(canonical, root) THEN [path |-> canonical, under |-> TRUE]
                          ELSE [path |-> <<>>, under |-> FALSE]
  IN  Once(normalize_path(combined), Place)

\* phase_find_config: the path without its query, in origin form.
OriginForm(uri) ==
  LET path == Before(uri, "?")
  IN  IF path = <<>> \/ Head(path) = "/" THEN path ELSE <<"/">> \o path

\* The first virtual host of that name in any case, or else the first one; 0 for
\* none.
resolve_vhost(virtual_hosts, host) ==
  LET name == to_lower(Before(host, ":"))
      match == SelectInSeq(virtual_hosts, LAMBDA v : to_lower(v.server_name) = name)
  IN  CASE virtual_hosts = <<>> -> 0
        [] virtual_hosts # <<>> /\ (name = <<>> \/ match = 0) -> 1
        [] OTHER -> match
-----------------------------------------------------------------------------
(***************************************************************************)
(* The reference: a name in a path survives unless somewhere behind it ".." *)
(* has occurred more often than names.                                      *)
(***************************************************************************)
Survives(segments, i) ==
  /\ Name(segments[i])
  /\ \A j \in i + 1..Len(segments) :
       Cardinality({k \in i + 1..j : Up(segments[k])})
         <= Cardinality({k \in i + 1..j : Name(segments[k])})

\* The segments that survive, in order.
Surviving(segments) ==
  LET places == {i \in DOMAIN segments : Survives(segments, i)}
      Place(n) == CHOOSE i \in places : Cardinality({j \in places : j <= i}) = n
  IN  [n \in 1..Cardinality(places) |-> segments[Place(n)]]

\* The names that lead from "/" to where the path ends.
Walk(path) == Surviving(Segments(path))

\* Where a URI leads below an absolute root, if it does not lead out of it.
Resolved(root, uri) ==
  LET place == Walk(root \o <<"/">> \o uri)
  IN  IF IsPrefix(Walk(root), place) THEN [path |-> Written(place), under |-> TRUE]
                                     ELSE [path |-> <<>>, under |-> FALSE]
=============================================================================
