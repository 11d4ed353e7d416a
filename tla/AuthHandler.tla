---------------------------- MODULE AuthHandler ----------------------------
(***************************************************************************)
(* Basic authentication: AuthHandler::check_htaccess_and_auth               *)
(* (http/handlers/auth_handler.cpp) with parse_htaccess and decode_base64   *)
(* (http/core/request_handler_utils.cpp).  A base64 text is represented by  *)
(* the characters that it stands for, and "!" for one that is not base64.   *)
(***************************************************************************)
EXTENDS Naturals, Sequences, SequencesExt

decode_base64(text) == IF "!" \in Range(text) THEN <<>> ELSE text

\* parse_htaccess: the directives in order, later ones over earlier ones.
NoAuth == [basic |-> FALSE, user |-> <<>>, password |-> <<>>]

Directive(auth, line) ==
  CASE line.key = "AuthType Basic" -> [auth EXCEPT !.basic = TRUE]
    [] line.key = "User" -> [auth EXCEPT !.user = line.value]
    [] line.key = "Password" -> [auth EXCEPT !.password = line.value]
    [] OTHER -> auth

parse_htaccess(lines) == FoldLeft(Directive, NoAuth, lines)

\* Without both of these parse_htaccess gives nullptr: the file protects nothing.
Protects(auth) == auth.basic /\ auth.user # <<>>

\* header is [scheme, value]; scheme "none" for no header.
check_htaccess_and_auth(lines, header) ==
  LET auth == parse_htaccess(lines)
      credentials == decode_base64(header.value)
      colon == SelectInSeq(credentials, LAMBDA c : c = ":")
      client_user == SubSeq(credentials, 1, colon - 1)
      client_password == SubSeq(credentials, colon + 1, Len(credentials))
      given == header.scheme = "basic" /\ credentials # <<>>
      valid == /\ colon # 0 /\ client_user = decode_base64(auth.user)
               /\ client_password = decode_base64(auth.password)
  IN  CASE ~Protects(auth) \/ (given /\ valid) -> "Ok"
        [] Protects(auth) /\ ~given -> "MissingAuth"
        [] Protects(auth) /\ given /\ ~valid -> "InvalidAuth"
=============================================================================
