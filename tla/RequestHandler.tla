--------------------------- MODULE RequestHandler ---------------------------
(***************************************************************************)
(* RequestHandler::handle (http/handlers/request_handler.cpp) with          *)
(* StaticFileHandler and DirectoryHandler, one system call at a time, and   *)
(* the sending of its response, on a disk that others write to meanwhile.   *)
(* A client keeps what it got and asks again with its validators.           *)
(*                                                                          *)
(* A byte tells which change wrote it where.  CgiHandler is the module Cgi; *)
(* here it only gives its answer.  phase_log writes one line of text and is *)
(* left out, as is the HTML of a listing.                                   *)
(***************************************************************************)
EXTENDS PathResolver, StaticFile, AuthHandler, CgiOutput, FiniteSetsExt

CONSTANTS
  VirtualHosts,     \* sequence of [server_name, document_root]
  Htaccess,         \* the lines of .htaccess, by directory
  Disks,            \* what the disk may be at first: nodes by canonical path
  Mutable,          \* the files that others write
  Requests,         \* what clients ask
  ScriptOutputs,    \* what scripts print
  Sizes,            \* how long a file is that others write
  MaxRequests, MaxChanges, MaxTime   \* bounds of the model

\* What stat() and the bytes of a place are.
Nodes == [kind : {"none", "file", "dir", "other"}, exec : BOOLEAN, ino : Nat, mtime : Nat,
          bytes : Seq(Nat)]

ASSUME BoundsAssumption == {MaxRequests, MaxChanges, MaxTime} \subseteq Nat /\ Sizes \subseteq Nat
ASSUME VirtualHostsAssumption == VirtualHosts \in Seq(Range(VirtualHosts))
ASSUME PathsAssumption ==
  /\ {"i", "m"} \subseteq Characters   \* the names of the index files
  /\ \A v \in Range(VirtualHosts) : v.document_root \in Strings
  /\ \A r \in Requests : r.uri \in Strings
\* A file has an inode, which a place that others write shares with no other (no hard
\* links), and keeps while it is free; inodes from 10 on are free (Replace).
ASSUME DisksAssumption ==
  \A d \in Disks :
    /\ Mutable \subseteq DOMAIN d /\ <<>> \notin DOMAIN d
    /\ \A p \in DOMAIN d : /\ d[p] \in Nodes /\ d[p].ino < 10
                           /\ d[p].kind = "file" \/ p \in Mutable => d[p].ino # 0
    /\ \A p \in Mutable, q \in DOMAIN d : p # q => d[p].ino # d[q].ino
\* The methods the parser knows.
ASSUME RequestsAssumption ==
  \A r \in Requests :
    /\ r.method \in {"GET", "HEAD", "POST", "OPTIONS"} /\ r.range \in Headers(Numbers)
    /\ r.inm \in BOOLEAN /\ r.ims \in BOOLEAN
    /\ r.tls \in BOOLEAN   \* on which port it comes

VARIABLES
  disk, now, changes,
  versions,    \* history: inode, size and time of all files that a place has had
  quiet,       \* history: "etag" or "date", if a change gave a place old ones
  steady,      \* history: no change since serve_static_file called stat()
  served,      \* how many requests were answered
  request, accepting_new_connections,
  pc, vhost, path, st,      \* where the handler is, and the fields of PhaseContext
  candidates,  \* index files not yet looked for
  resp,        \* the response, its body_fd, offset and bytes left, and what was sent
  file,        \* the open file that body_fd refers to
  open,        \* how many descriptors are open
  cache        \* the client's copy of a resource

world == <<disk, now, changes, versions, quiet>>
context == <<request, accepting_new_connections, vhost>>
vars == <<world, steady, served, context, pc, path, st, candidates, resp, file, open, cache>>

Nothing == [kind |-> "none", exec |-> FALSE, ino |-> 0, mtime |-> 0, bytes |-> <<>>]
Node(p) == IF p \in DOMAIN disk THEN disk[p] ELSE Nothing

Version(p, node) == <<p, node.ino, Len(node.bytes), node.mtime>>

NoCopy == [uri |-> <<>>, path |-> <<>>, etag |-> NoEtag, date |-> 0, bytes |-> <<>>]
NoRequest == [method |-> "none", inm |-> FALSE, ims |-> FALSE, tls |-> FALSE]

\* An HttpResponse without a body_fd.
Response(status, body) ==
  [status |-> status, body |-> body, fd |-> FALSE, off |-> 0, left |-> 0,
   etag |-> NoEtag, date |-> 0, sent |-> <<>>]
NoResponse == Response(0, "none")

Init ==
  /\ disk \in Disks /\ now = 0 /\ changes = 0 /\ steady = TRUE
  /\ versions = {Version(p, disk[p]) : p \in Mutable} /\ quiet = {}
  /\ served = 0 /\ request = NoRequest /\ accepting_new_connections = TRUE
  /\ pc = "idle" /\ vhost = 0 /\ path = <<>> /\ st = Nothing /\ candidates = <<>>
  /\ resp = NoResponse /\ file = Nothing /\ open = 0 /\ cache = NoCopy

(***************************************************************************)
(* The others: time passes, and files are written in place, replaced or     *)
(* removed, with any time (cp -p, tar, rsync).                               *)
(***************************************************************************)
Change(p, node) ==
  /\ changes < MaxChanges /\ changes' = changes + 1
  /\ disk' = [disk EXCEPT ![p] = node] /\ versions' = versions \cup {Version(p, node)}
  /\ quiet' = quiet \cup {v \in {"etag"} : Version(p, node) \in versions}
                    \cup {v \in {"date"} : node.kind = "file" /\ node.mtime <= disk[p].mtime}
  /\ steady' = FALSE
  /\ UNCHANGED <<served, context, pc, path, st, candidates, resp, open, cache>>

NewBytes(n) == [i \in 1..n |-> 10 * (changes + 1) + i]

WriteInPlace(p, n, t) ==
  /\ disk[p].kind = "file"
  /\ Change(p, [disk[p] EXCEPT !.mtime = t, !.bytes = NewBytes(n)])
  /\ file' = IF file.ino = disk[p].ino THEN [file EXCEPT !.bytes = NewBytes(n)] ELSE file

\* rename() of another file to p, or a new file where one was removed, which may
\* get the same inode again.
Replace(p, n, t) ==
  /\ disk[p].kind \in {"none", "file"}
  /\ \E ino \in {10 + changes} \cup {i \in {disk[p].ino} : disk[p].kind = "none" /\ i # file.ino} :
       Change(p, [kind |-> "file", exec |-> FALSE, ino |-> ino, mtime |-> t, bytes |-> NewBytes(n)])
  /\ UNCHANGED file

\* The place keeps the inode and the time of what was there.
Unlink(p) ==
  /\ disk[p].kind = "file"
  /\ Change(p, [disk[p] EXCEPT !.kind = "none", !.bytes = <<>>])
  /\ UNCHANGED file

Others ==
  /\ now' \in now..MaxTime
  /\ \E p \in Mutable :
       \/ \E n \in Sizes, t \in 0..MaxTime : WriteInPlace(p, n, t) \/ Replace(p, n, t)
       \/ Unlink(p)

(***************************************************************************)
(* A request, and what leads to the resource.                               *)
(***************************************************************************)
\* A client asks again, with or without its validators, for what it has a copy of:
\* nothing else is left over from a request.
Arrive(r, accepting) ==
  /\ pc = "idle" /\ served < MaxRequests
  /\ (served > 0 \/ r.inm \/ r.ims => cache.uri = r.uri)
  /\ request' = r /\ accepting_new_connections' = accepting
  /\ pc' = "find_config"
  /\ UNCHANGED <<world, steady, served, vhost, path, st, candidates, resp, file, open, cache>>

\* The phase ends the request with a response without a body_fd.
Respond(response) == resp' = response /\ pc' = "done"

phase_find_config ==
  /\ pc = "find_config"
  /\ vhost' = resolve_vhost(VirtualHosts, request.host)
  /\ IF vhost' = 0 THEN Respond(Response(503, "none")) /\ UNCHANGED path
     ELSE path' = OriginForm(request.uri) /\ pc' = "access" /\ UNCHANGED resp
  /\ UNCHANGED <<world, steady, served, request, accepting_new_connections, st, candidates,
                 file, open, cache>>

\* phase_access as far as it needs no file: GET /load, and the path.
Load == <<"/", "l">>

ResolvePath ==
  /\ pc = "access"
  /\ \E place \in {resolve_path(VirtualHosts[vhost].document_root, path)} :
         IF request.method = "GET" /\ path = Load
         THEN /\ Respond(Response(IF accepting_new_connections THEN 200 ELSE 503, "none"))
              /\ UNCHANGED path
         ELSE /\ path' = place.path
              /\ IF place.under THEN pc' = "stat" /\ UNCHANGED resp
                                ELSE Respond(Response(403, "none"))
  /\ UNCHANGED <<world, steady, served, context, st, candidates, file, open, cache>>

Stat ==
  /\ pc = "stat" /\ st' = Node(path)
  /\ IF st'.kind = "none" THEN Respond(Response(404, "none"))
                          ELSE pc' = "auth" /\ UNCHANGED resp
  /\ UNCHANGED <<world, steady, served, context, path, candidates, file, open, cache>>

\* The directory a path lies in: up to the last slash.
Directory(p) == SubSeq(p, 1, SelectLastInSeq(p, LAMBDA c : c = "/") - 1)

\* Mutant of dir_of_resource: the directory above, also for a directory.
dir_above(p, kind) == Directory(p)

dir_of_resource(p, kind) == trim_trailing_slash(IF kind = "dir" THEN p ELSE Directory(p))

Lines(dir) == IF dir \in DOMAIN Htaccess THEN Htaccess[dir] ELSE <<>>

Authenticate ==
  /\ pc = "auth"
  /\ IF check_htaccess_and_auth(Lines(dir_of_resource(path, st.kind)), request.auth) = "Ok"
     THEN pc' = "content" /\ UNCHANGED resp
     ELSE Respond(Response(401, "none"))
  /\ UNCHANGED <<world, steady, served, context, path, st, candidates, file, open, cache>>

(***************************************************************************)
(* phase_content.                                                           *)
(***************************************************************************)
is_doc_root(dir_path) ==
  normalize_path(trim_trailing_slash(dir_path))
    = normalize_path(trim_trailing_slash(VirtualHosts[vhost].document_root))

\* OPTIONS, and everything that is no regular file; a file is looked at again.
DispatchContent ==
  /\ pc = "content"
  /\ CASE request.method = "OPTIONS" -> Respond(Response(204, "none"))
       [] request.method # "OPTIONS" /\ st.kind = "file" -> pc' = "is_executable" /\ UNCHANGED resp
       [] request.method = "POST" /\ st.kind # "file" -> Respond(Response(405, "none"))
       [] request.method \in {"GET", "HEAD"} /\ st.kind = "dir" -> pc' = "index" /\ UNCHANGED resp
       [] OTHER -> Respond(Response(404, "none"))
  /\ candidates' = (IF request.mobile /\ is_doc_root(path) THEN <<"m", "i">> ELSE <<"i">>)
  /\ UNCHANGED <<world, steady, served, context, path, st, file, open, cache>>

IsExecutable ==
  /\ pc = "is_executable"
  /\ CASE Node(path).kind = "file" /\ Node(path).exec -> pc' = "cgi" /\ UNCHANGED resp
       [] request.method = "POST" /\ ~(Node(path).kind = "file" /\ Node(path).exec) ->
            Respond(Response(405, "none"))
       [] OTHER -> pc' = "serve" /\ UNCHANGED resp
  /\ UNCHANGED <<world, steady, served, context, path, st, candidates, file, open, cache>>

\* run_cgi returns: what the script printed, or one of its errors.
RunCgi ==
  /\ pc = "cgi"
  /\ \/ \E output \in ScriptOutputs : Respond(Response(parse_cgi_output(output).status, "cgi"))
     \/ \E status \in {500, 502, 504} : Respond(Response(status, "none"))
  /\ UNCHANGED <<world, steady, served, context, path, st, candidates, file, open, cache>>

\* Mutant of TryIndex: a candidate that is not there is tried again.
TryIndexAgain ==
  /\ pc = "index" /\ candidates # <<>>
  /\ LET p == trim_trailing_slash(path) \o <<"/", Head(candidates)>>
     IN  IF Node(p).kind = "file" THEN path' = p /\ pc' = "serve" ELSE UNCHANGED <<path, pc>>
  /\ UNCHANGED <<world, steady, served, context, st, candidates, resp, file, open, cache>>

\* serve_directory_index: stat() the next index file ("i", on a phone "m" first).
TryIndex ==
  /\ pc = "index" /\ candidates # <<>>
  /\ LET p == trim_trailing_slash(path) \o <<"/", Head(candidates)>>
     IN  IF Node(p).kind = "file" THEN path' = p /\ pc' = "serve" ELSE UNCHANGED <<path, pc>>
  /\ candidates' = Tail(candidates)
  /\ UNCHANGED <<world, steady, served, context, st, resp, file, open, cache>>

\* build_listing, unless opendir() fails; HEAD clears the body.
List ==
  /\ pc = "index" /\ candidates = <<>>
  /\ \/ Respond(Response(200, IF request.method = "HEAD" THEN "none" ELSE "listing"))
     \/ Respond(Response(403, "none"))
  /\ UNCHANGED <<world, steady, served, context, path, st, candidates, file, open, cache>>

(***************************************************************************)
(* serve_static_file.                                                       *)
(***************************************************************************)
IfNoneMatch == IF request.inm THEN cache.etag ELSE NoEtag
IfModifiedSince == IF request.ims THEN {cache.date} ELSE {}

\* stat() and all that follows from it before open().
ServeStatic ==
  /\ pc = "serve" /\ st' = Node(path) /\ steady' = TRUE
  /\ CASE st'.kind # "file" -> Respond(Response(404, "none"))
       [] st'.kind = "file" /\ NotModified(IfNoneMatch, IfModifiedSince, st', now) ->
            Respond([Response(304, "none") EXCEPT !.etag = Etag(st')])
       [] st'.kind = "file" /\ ~NotModified(IfNoneMatch, IfModifiedSince, st', now)
            /\ ~check_accept(request.accept) -> Respond(Response(406, "none"))
       [] OTHER -> pc' = "open" /\ UNCHANGED resp
  /\ UNCHANGED <<world, served, context, path, candidates, file, open, cache>>

\* A response with a body_fd, by the result of stat().
FileResponse(status, first, size) ==
  [Response(status, "file") EXCEPT !.fd = TRUE, !.off = first, !.left = size,
                                   !.etag = Etag(st), !.date = st.mtime]

\* Mutant of PartialContent: sent from the start of the file.
PartialContentFromStart(range) == FileResponse(206, 0, range.end - range.start + 1)

PartialContent(range) == FileResponse(206, range.start, range.end - range.start + 1)

OpenFails ==
  /\ pc = "open" /\ Respond(Response(500, "none"))
  /\ UNCHANGED <<world, steady, served, context, path, st, candidates, file, open, cache>>

\* The exception of a Range that stoull() rejects is not caught: the process ends.
Open ==
  /\ pc = "open" /\ Node(path).kind = "file"
  /\ LET range == parse_range(request.range, Len(st.bytes))
     IN  \/ /\ request.range = NoRange
            /\ resp' = FileResponse(200, 0, Len(st.bytes)) /\ pc' = "opened"
            /\ file' = Node(path) /\ open' = open + 1
         \/ /\ request.range # NoRange /\ RangeThrows(request.range)
            /\ pc' = "terminated" /\ open' = open + 1
            /\ UNCHANGED <<resp, file>>
         \/ /\ request.range # NoRange /\ ~RangeThrows(request.range) /\ range.valid
            /\ resp' = PartialContent(range) /\ pc' = "opened"
            /\ file' = Node(path) /\ open' = open + 1
         \/ /\ request.range # NoRange /\ ~RangeThrows(request.range) /\ ~range.valid
            /\ Respond(Response(416, "none"))
            /\ UNCHANGED <<file, open>>
  /\ UNCHANGED <<world, steady, served, context, path, st, candidates, cache>>

\* Mutant of Opened: HEAD forgets the descriptor instead of closing it.
OpenedForgetting ==
  /\ pc = "opened"
  /\ IF request.method = "HEAD"
     THEN resp' = [resp EXCEPT !.fd = FALSE, !.body = "none"] /\ pc' = "done"
     ELSE pc' = "send" /\ UNCHANGED resp
  /\ UNCHANGED <<world, steady, served, context, path, st, candidates, file, open, cache>>

\* Back in phase_content: HEAD closes the file, a GET passes it on.
Opened ==
  /\ pc = "opened"
  /\ IF request.method = "HEAD"
     THEN /\ open' = open - 1 /\ file' = Nothing /\ pc' = "done"
          /\ resp' = [resp EXCEPT !.fd = FALSE, !.body = "none"]
     ELSE pc' = "send" /\ UNCHANGED <<resp, open, file>>
  /\ UNCHANGED <<world, steady, served, context, path, st, candidates, cache>>

(***************************************************************************)
(* write_response, process_writable or ssl_write_response, byte by byte as   *)
(* sendfile() or read() may, and the end.                                    *)
(***************************************************************************)
\* Mutant of SendByte: what is left is not counted down.
SendByteUncounted ==
  /\ pc = "send" /\ resp.left > 0 /\ resp.off < Len(file.bytes)
  /\ resp' = [resp EXCEPT !.off = @ + 1, !.sent = Append(@, file.bytes[resp.off + 1])]
  /\ UNCHANGED <<world, steady, served, context, pc, path, st, candidates, file, open, cache>>

SendByte ==
  /\ pc = "send" /\ resp.left > 0 /\ resp.off < Len(file.bytes)
  /\ resp' = [resp EXCEPT !.off = @ + 1, !.left = @ - 1,
                          !.sent = Append(@, file.bytes[resp.off + 1])]
  /\ UNCHANGED <<world, steady, served, context, pc, path, st, candidates, file, open, cache>>

\* At the end of a file that shrank only ssl_write_response breaks off: there read()
\* returns 0.  The loops around sendfile() go round until the file has grown again.
BreaksOff == request.tls /\ resp.off >= Len(file.bytes)

SendDone ==
  /\ pc = "send" /\ (resp.left = 0 \/ BreaksOff)
  /\ resp' = [resp EXCEPT !.fd = FALSE] /\ pc' = "done"
  /\ open' = open - 1 /\ file' = Nothing
  /\ UNCHANGED <<world, steady, served, context, path, st, candidates, cache>>

\* The client has the response, and keeps a whole one; the PhaseContext is gone.
Receive ==
  /\ pc = "done" /\ pc' = "idle" /\ served' = served + 1
  /\ cache' = IF resp.status = 200 /\ resp.body = "file" /\ resp.left = 0
              THEN [uri |-> request.uri, path |-> path, etag |-> resp.etag,
                    date |-> resp.date, bytes |-> resp.sent]
              ELSE cache
  /\ request' = NoRequest /\ accepting_new_connections' = TRUE /\ vhost' = 0
  /\ path' = <<>> /\ st' = Nothing /\ candidates' = <<>> /\ resp' = NoResponse /\ steady' = TRUE
  /\ UNCHANGED <<world, file, open>>

phase_access == ResolvePath \/ Stat \/ Authenticate
serve_static_file == ServeStatic \/ Open \/ OpenFails
serve_directory_index == TryIndex \/ List
phase_content ==
  DispatchContent \/ IsExecutable \/ RunCgi \/ serve_directory_index \/ serve_static_file \/ Opened
write_response == SendByte \/ SendDone
Server == phase_find_config \/ phase_access \/ phase_content \/ write_response \/ Receive

Next == Others \/ Server \/ \E r \in Requests, a \in BOOLEAN : Arrive(r, a)

\* A worker goes on with its request; run_cgi returns (Cgi).
Spec == Init /\ [][Next]_vars /\ WF_vars(Server)
-----------------------------------------------------------------------------
\* Types of the state; what is left to send lies within the file that stat() saw.
TypeOK ==
  /\ now \in 0..MaxTime /\ changes \in 0..MaxChanges /\ served \in 0..MaxRequests
  /\ quiet \subseteq {"etag", "date"} /\ steady \in BOOLEAN
  /\ pc \in {"idle", "find_config", "access", "stat", "auth", "content", "is_executable",
             "cgi", "index", "serve", "open", "opened", "send", "done", "terminated"}
  /\ vhost \in 0..Len(VirtualHosts)
  /\ st.kind \in {"none", "file", "dir", "other"}
  /\ resp.fd \in BOOLEAN /\ resp.off \in Nat /\ resp.left \in Nat
  /\ (resp.fd => resp.off + resp.left <= Len(st.bytes))

\* However a request ends (HEAD, 304, 406, 416, an error or a whole response) its
\* file is closed once: a descriptor is open exactly while the response has it.
DescriptorOwned ==
  pc # "terminated" => open = (IF resp.fd THEN 1 ELSE 0) /\ (resp.fd => pc \in {"opened", "send"})

\* A file is only opened if it lies under the document root of its virtual host
\* and the .htaccess of its own directory lets the client in, also where an index
\* file stands for a directory.
OpenedIsAuthorised ==
  resp.fd =>
    /\ IsPrefix(Walk(VirtualHosts[vhost].document_root), Walk(path))
    /\ check_htaccess_and_auth(Lines(Directory(path)), request.auth) = "Ok"

\* Unless the file changes after serve_static_file has called stat(), the body is
\* what Content-Length and Content-Range announce: the whole file, or exactly the
\* bytes that the Range header names, and only a GET gets one.
BodyAsAnnounced ==
  pc = "done" /\ steady /\ resp.body = "file" =>
    /\ request.method = "GET"
    /\ LET named == IF resp.status = 200 THEN 0..Len(st.bytes) - 1
                    ELSE Named(request.range, Len(st.bytes))
       IN  resp.sent = [i \in 1..Cardinality(named) |-> st.bytes[Min(named) + i]]

\* After a 304 the client's copy of the file is the one that stat() saw, even if
\* the file changed between stat(), open() and the last byte of the response that
\* the copy is from.  A change that leaves inode, size and time as they were
\* defeats the ETag, and one that does not make the file younger defeats
\* If-Modified-Since, which is looked at although the ETag differs.  (A response with a
\* body is a script's own.)
NotModifiedIsCurrent ==
  pc = "done" /\ resp.status = 304 /\ resp.body = "none" /\ cache.path = path
    /\ "etag" \notin quiet /\ (request.ims => "date" \notin quiet)
  => cache.bytes = st.bytes

\* sendfile() has nothing to give, and is called again and again.
Spins == pc = "send" /\ ~request.tls /\ resp.left > 0 /\ resp.off >= Len(file.bytes)

\* Every request is answered, whatever happens to the files meanwhile, with two
\* exceptions that the code has: a number in its Range that is none to stoull() ends
\* the process, and on a plain connection the loop of write_response or
\* process_writable spins from then on, for good, if the file has become shorter than
\* stat() said and stays so.
RequestIsAnswered ==
  (pc = "find_config") ~>
    (pc = "done" \/ (pc = "terminated" /\ RangeThrows(request.range)) \/ []Spins)

(***************************************************************************)
(* Pure functions, over bounded inputs: what they return does not depend on *)
(* the state, so they are evaluated where nothing has happened yet.          *)
(***************************************************************************)
CONSTANTS TestRoots, TestUris, TestNumbers, TestSizes, TestHeaders, TestBodies

Fresh == pc = "idle" /\ served = 0 /\ changes = 0

\* resolve_path goes where the names of the path lead, "." and ".." resolved, and
\* refuses exactly what leads out of the document root.
ResolvesLikeWalk ==
  Fresh =>
    \A root \in TestRoots, uri \in TestUris : resolve_path(root, uri) = Resolved(root, uri)

\* parse_range gives exactly the bytes that the header names, and refuses if there
\* are none, or if the last one would lie behind the end of the file.
RangesAreExact ==
  Fresh =>
    \A size \in TestSizes, first \in TestNumbers, last \in TestNumbers :
      LET header == [form |-> "bytes", start |-> first, end |-> last]
          range == parse_range(header, size)
      IN  ~RangeThrows(header) =>
            IF range.valid THEN range.start..range.end = Named(header, size)
            ELSE Named(header, size) = {} \/ (first # <<>> /\ last # <<>> /\ last[1] >= size)

\* What a script prints after its header lines arrives as the body, byte for byte,
\* whichever line end it uses (but a body with an empty CRLF line needs CRLF in the
\* header too), and Status and headers come from the header lines alone.
CgiOutputSplit ==
  Fresh =>
    \A headers \in TestHeaders, eol \in {CrLf, <<"LF">>}, body \in TestBodies :
      LET response == parse_cgi_output(Output(headers, eol, body))
      IN  eol = CrLf \/ Find(body, CrLf \o CrLf) = 0 =>
            /\ response.body = body /\ response.chunked
            /\ response.status = IF "404" \in Range(headers) THEN 404 ELSE 200
            /\ response.headers = Range(headers) \cap {"H"}
=============================================================================
