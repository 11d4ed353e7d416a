-------------------------- MODULE MCRequestHandler --------------------------
(* A small site for RequestHandler: /r holds a file "a", a script "c", a pipe *)
(* "p" and a protected directory "d" with an index file; /b, the root of a    *)
(* second virtual host, the index files "i" and "m".                          *)
EXTENDS RequestHandler

MCCharacters == {"/", ".", "?", ":", "a", "b", "c", "d", "i", "l", "m", "p", "r", "x"}

P(names) == FlattenSeq([i \in DOMAIN names |-> <<"/", names[i]>>])

MCVirtualHosts ==
  << [server_name |-> <<"A">>, document_root |-> P(<<"r">>)],
     [server_name |-> <<"b">>, document_root |-> P(<<"b">>)] >>

MCHtaccess ==
  P(<<"r", "d">>) :> << [key |-> "AuthType Basic", value |-> <<>>],
                        [key |-> "User", value |-> <<"u">>],
                        [key |-> "Password", value |-> <<"p">>] >>

Dir == [Nothing EXCEPT !.kind = "dir"]
File(ino, mtime, size) ==
  [kind |-> "file", exec |-> FALSE, ino |-> ino, mtime |-> mtime, bytes |-> [i \in 1..size |-> i]]

Site ==
  P(<<"r">>) :> Dir @@ P(<<"r", "d">>) :> Dir @@ P(<<"r", "d", "i">>) :> File(1, 0, 1)
  @@ P(<<"r", "a">>) :> File(2, 0, 2) @@ P(<<"r", "c">>) :> [File(3, 0, 1) EXCEPT !.exec = TRUE]
  @@ P(<<"r", "p">>) :> [Nothing EXCEPT !.kind = "other"]
  @@ P(<<"b">>) :> Dir @@ P(<<"b", "i">>) :> File(4, 0, 1) @@ P(<<"b", "m">>) :> File(5, 0, 1)

\* The others write two bytes: the first file keeps its size, the second one shrinks.
MCDisks == {[Site EXCEPT ![P(<<"r", "a">>)] = File(2, 0, n)] : n \in {2, 3}}

MCMutable == {P(<<"r", "a">>)}

Get == [method |-> "GET", uri |-> P(<<"a">>), host |-> <<>>, mobile |-> FALSE,
        auth |-> [scheme |-> "none", value |-> <<>>], accept |-> <<>>, range |-> NoRange,
        inm |-> FALSE, ims |-> FALSE, tls |-> FALSE]
Range2(form, first, last) == [form |-> form, start |-> first, end |-> last]
Login(scheme, value) == [Get EXCEPT !.uri = P(<<"d">>), !.auth = [scheme |-> scheme, value |-> value]]

MCRequests ==
  { Get, [Get EXCEPT !.method = "HEAD"], [Get EXCEPT !.method = "POST"],
    [Get EXCEPT !.method = "OPTIONS"] }
  \cup {[Get EXCEPT !.inm = a, !.ims = b, !.method = m] :
          a \in BOOLEAN, b \in BOOLEAN, m \in {"GET", "HEAD"}}
  \cup {[Get EXCEPT !.uri = u] :
          u \in {P(<<"l">>), <<"a">>, P(<<"x">>), P(<<".", ".">>), P(<<".">>), P(<<"c">>), P(<<"p">>),
                 P(<<"d", "i">>), <<"/">>, <<"/", "?", "a">>}}
  \cup {[Get EXCEPT !.uri = u, !.method = m] :
          u \in {<<"/">>, P(<<"c">>)}, m \in {"HEAD", "POST"}}
  \cup {[Get EXCEPT !.uri = <<"/">>, !.host = <<"b">>, !.mobile = TRUE],
        [Get EXCEPT !.uri = P(<<"d">>), !.mobile = TRUE],
        [Get EXCEPT !.uri = P(<<"p">>), !.method = "POST"],
        [Get EXCEPT !.host = <<"B", ":", "a">>], [Get EXCEPT !.host = <<"b">>, !.uri = <<"/">>],
        [Get EXCEPT !.accept = << [type |-> "image", sub |-> "*"] >>],
        [Get EXCEPT !.accept = << [type |-> "x", sub |-> "y"], [type |-> "text", sub |-> "*"] >>]}
  \cup {[Get EXCEPT !.range = r] :
          r \in {Range2("bytes", <<0>>, <<0>>), Range2("bytes", <<1>>, <<>>),
                 Range2("bytes", <<>>, <<1>>), Range2("bytes", <<0>>, <<2>>),
                 Range2("bytes", <<9>>, <<>>), Range2("other", <<>>, <<>>)}}
  \cup {[Get EXCEPT !.method = "HEAD", !.range = Range2("bytes", <<>>, <<1>>)],
        [Get EXCEPT !.tls = TRUE], [Get EXCEPT !.tls = TRUE, !.range = Range2("bytes", <<1>>, <<>>)]}
  \cup {Login("basic", <<"u", ":", "p">>), Login("basic", <<"u", ":", "x">>),
        Login("basic", <<"u">>), Login("basic", <<>>), Login("basic", <<"u", "!">>), Login("other", <<"u", ":", "p">>),
        Login("none", <<>>)}

MCScriptOutputs == { <<"404", "LF", "LF", "x">>, <<"x">> }

Texts(n, chars) == UNION {[1..k -> chars] : k \in 0..n}

MCTestRoots == {<<"/">>, P(<<"a">>), P(<<"a">>) \o <<"/">>, P(<<"a", "b">>)}
MCTestUris == Texts(5, {"/", ".", "a", "b"})
MCTestNumbers == {<<>>} \cup {<<n>> : n \in 0..5}
MCTestSizes == 0..3
MCTestHeaders == Texts(2, {"404", "H", "T", "x"}) \ {<<>>}
MCTestBodies == Texts(5, {"CR", "LF", "x"})
=============================================================================
