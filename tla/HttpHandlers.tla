---------------------------- MODULE HttpHandlers ----------------------------
(***************************************************************************)
(* What src/src/mongoose.c and src/src/http.cpp do with one request, as    *)
(* operators: a handler is the set of the replies it may give, one for     *)
(* every way in which the files, descriptors and processes it asks for may *)
(* fail.  A reply says                                                     *)
(*   by        the handler it is of, by its route;                         *)
(*   lines     the final status lines that were sent;                      *)
(*   status    conn->status_code when the handler returns;                 *)
(*   delimited whether as many bytes follow as its Content-Length says;    *)
(*   close     conn->must_close;                                           *)
(*   body      what became of the request's body: "left" where it is,      *)
(*             "read" to its end, or "cut" on the way;                     *)
(*   awaits    whether it reads the output of a program to its end;        *)
(*   opened    the descriptors and processes it acquired;                  *)
(*   closed    its calls of close(), fclose() and kill(), in their order.  *)
(***************************************************************************)
EXTENDS Integers, Sequences, TLC

Method == {"GET", "POST", "HEAD", "CONNECT", "PUT", "DELETE", "OPTIONS", "PROPFIND"}

Plain(code) ==
    [by |-> "", lines |-> <<code>>, status |-> code, delimited |-> TRUE, close |-> FALSE,
     body |-> "left", awaits |-> FALSE, opened |-> {}, closed |-> << >>]

Open(r)      == [r EXCEPT !.delimited = FALSE]
WithFile(r)  == [r EXCEPT !.opened = {"file"}, !.closed = <<"file">>]

(* send_http_error(), where the callback leaves MG_HTTP_ERROR to mongoose. *)
SendHttpError(code) == Plain(code)
-----------------------------------------------------------------------------
(* HttpService::handle().  prepare_http_xml() sends the status line; a     *)
(* dev_id that is no number is noticed before it is called.                *)
LocationGet(devIsNumber) ==
    [Open(Plain(200)) EXCEPT !.status = -1,
                             !.lines = IF devIsNumber THEN @ ELSE << >>]

SpatialQueryReply == [Open(Plain(200)) EXCEPT !.status = -1]

ServiceHandle(query) ==
    CASE query = "location_get"       -> {LocationGet(TRUE)}
      [] query = "location_get dirty" -> {LocationGet(FALSE)}
      [] query = "spatial_query"      -> {SpatialQueryReply}
      [] query = "other"              -> {SendHttpError(500)}
-----------------------------------------------------------------------------
(* Passwords.  A file is a sequence of lines [user, domain, ha1]; a        *)
(* Digest header is a record [user, response], or None when the request    *)
(* has none or names no user.                                              *)
None == [user |-> "", response |-> ""]

(* The first line of the user in the domain decides.                       *)
Authorize(file, digest, domain) ==
    LET mine == {i \in DOMAIN file :
                    file[i].user = digest.user /\ file[i].domain = domain}
    IN  /\ digest # None /\ mine # {}
        /\ LET first == CHOOSE i \in mine : \A j \in mine : i <= j
           IN  digest.response = file[first].ha1

(* The passwords files that apply: of the protected location, else the     *)
(* global one, else that of the directory; without any, all may enter.     *)
CheckAuthorization(files, digest, domain) ==
    LET there == {i \in DOMAIN files : files[i] # << >>}
    IN  there = {} \/
        LET first == CHOOSE i \in there : \A j \in there : i <= j
        IN  Authorize(files[first], digest, domain)

SendAuthorizationRequest == Plain(401)
-----------------------------------------------------------------------------
(* Files and directories.                                                  *)

SendOptions == Open(Plain(200))

MovedPermanently == [Open(Plain(301)) EXCEPT !.status = -1]

Delete == {SendHttpError(200), SendHttpError(500)}

HandleDirectoryRequest ==
    {SendHttpError(500), [Open(Plain(200)) EXCEPT !.close = TRUE]}

HandlePropfind == [Open(Plain(207)) EXCEPT !.close = TRUE]

(* send_file_data() ends with the file.                                    *)
Sent(length, offset, size) ==
    LET there == IF offset < size THEN size - offset ELSE 0
    IN  IF length < there THEN (IF length > 0 THEN length ELSE 0) ELSE there

(* Ranges are taken as they come: << >>, <<first>> or <<first, last>>.     *)
HandleFileRequest(method, range, size) ==
    LET r1     == IF range = << >> THEN 0 ELSE range[1]
        length == IF Len(range) = 2 THEN range[2] - r1 + 1 ELSE size - r1
        ok     == Plain(IF range = << >> THEN 200 ELSE 206)
    IN  {SendHttpError(500),
         WithFile([ok EXCEPT !.delimited =
             method = "HEAD" \/ Sent(length, r1, size) = length])}

(* #exec in the file, or in one it includes, runs a program.               *)
HandleSsiFileRequest ==
    {SendHttpError(500)}
    \union {WithFile([Open(Plain(200)) EXCEPT !.close = TRUE, !.awaits = exec]) :
               exec \in BOOLEAN}
-----------------------------------------------------------------------------
(* forward_body_data(): what it sends itself, and what became of the body. *)
(* 100 Continue is not a final status line.                                *)
Refused(code) == [ok |-> FALSE, lines |-> <<code>>, status |-> code, body |-> "left"]

ForwardBodyData(length, expect) ==
    IF length = -1 THEN {Refused(411)}
    ELSE IF expect = "other" THEN {Refused(417)}
    ELSE {[ok |-> TRUE, lines |-> << >>, status |-> -1, body |-> "read"],
          [Refused(577) EXCEPT !.body = "cut"]}

(* put_dir() finds a directory, fails, or has made those on the way.       *)
PutFile(length, expect, ranged) ==
    LET done(code) == Open(Plain(code))
        told(code, f) ==
            IF f.ok THEN [WithFile(done(code)) EXCEPT !.body = f.body]
            ELSE [WithFile(SendHttpError(f.status)) EXCEPT !.body = f.body]
    IN  {done(s) : s \in {200, 201}}
        \union {SendHttpError(500)}
        \union {told(s, f) : s \in (IF ranged THEN {206} ELSE {200, 201}),
                             f \in ForwardBodyData(length, expect)}
-----------------------------------------------------------------------------
(* handle_cgi_request(), up to the call that fails, if one does.           *)
CgiFailure == {"pipe_in", "pipe_out", "fork", "fdopen_in", "fdopen_out", "body",
               "headers", "none"}

BeforePipes == {"pipe_in", "pipe_out"}
BeforeChild == BeforePipes \union {"fork"}

CgiOpened(fail) ==
    (IF fail = "pipe_in" THEN {} ELSE {"in0", "in1"})
    \union (IF fail \in BeforePipes THEN {} ELSE {"out0", "out1"})
    \union (IF fail \in BeforeChild THEN {} ELSE {"child"})

(* spawn_process() closes the child's ends, also when fork() has failed.   *)
SpawnCloses(fail) == IF fail \in BeforePipes THEN << >> ELSE <<"in0", "out1">>

(* Mutant of LeftToClose: the ends closed by spawn_process() are not marked*)
(* as closed.                                                              *)
LeftToCloseUnmarked(fail) == CgiOpened(fail) \intersect {"in0", "out1"}

(* What fd_stdin[0] and fd_stdout[1] still name at the end.                *)
LeftToClose(fail) ==
    IF fail \in BeforeChild THEN CgiOpened(fail) \intersect {"in0", "out1"} ELSE {}

(* done:, and fclose(in) on the way to it when the body is through.        *)
CgiCloses(fail) ==
    LET one(d, set) == IF d \in set THEN <<d>> ELSE << >>
        early       == IF fail \in {"headers", "none"} THEN <<"in1">> ELSE << >>
        ends        == CgiOpened(fail) \ {early[i] : i \in DOMAIN early}
    IN  SpawnCloses(fail) \o early
        \o one("child", CgiOpened(fail))
        \o one("in0", LeftToClose(fail)) \o one("out1", LeftToClose(fail))
        \o one("in1", ends) \o one("out0", ends)

(* Both spawn_process() and its caller report that fork() has failed.      *)
CgiErrors(fail) == IF fail = "fork" THEN <<500, 500>> ELSE <<500>>

(* The program's own headers: its status, whether it tells a length, and   *)
(* "Connection: keep-alive", upon which the connection is closed.          *)
CgiReply(code, len, k) == [Plain(code) EXCEPT !.delimited = len, !.close = k]
CgiReplies == {CgiReply(code, len, k) : code \in {200, 302}, len \in BOOLEAN, k \in BOOLEAN}

CgiDone(r, fail) == [r EXCEPT !.opened = CgiOpened(fail), !.closed = CgiCloses(fail)]
CgiRead(r, f)    == [r EXCEPT !.body = f.body, !.awaits = TRUE]
CgiFailed(fail)  == CgiDone([Plain(500) EXCEPT !.lines = CgiErrors(fail)], fail)
CgiUnsent(f)     == CgiDone([Plain(f.status) EXCEPT !.body = f.body], "body")

HandleCgiRequest(method, length, expect) ==
    LET posted == IF method = "POST" THEN ForwardBodyData(length, expect)
                  ELSE {[ok |-> TRUE, lines |-> << >>, status |-> -1, body |-> "left"]}
        through == {f \in posted : f.ok}
    IN  {CgiFailed(fail) : fail \in CgiFailure \ {"body", "headers", "none"}}
        \union {CgiUnsent(f) : f \in posted \ through}
        \union {CgiDone(CgiRead(Plain(500), f), "headers") : f \in through}
        \union {CgiDone(CgiRead(r, f), "none") : r \in CgiReplies, f \in through}
-----------------------------------------------------------------------------
(* handle_request(): the first condition that holds decides.  file says    *)
(* what the path leads to.                                                 *)
FileKind == {"none", "hidden", "directory", "directory/", "index", "cgi", "ssi",
             "unmodified", "file"}

Route(method, service, authorized, mayPut, listing, file) ==
    LET table == <<
            [if |-> ~authorized,                            to |-> "unauthorized"],
            [if |-> service,                                to |-> "service"],
            [if |-> method = "OPTIONS",                     to |-> "options"],
            [if |-> method \in {"PUT", "DELETE"} /\ ~mayPut, to |-> "unauthorized"],
            [if |-> method = "PUT",                         to |-> "put"],
            [if |-> method = "DELETE",                      to |-> "delete"],
            [if |-> file \in {"none", "hidden"},            to |-> "not found"],
            [if |-> file = "directory",                     to |-> "moved"],
            [if |-> method = "PROPFIND",                    to |-> "propfind"],
            [if |-> file = "directory/" /\ listing,         to |-> "directory"],
            [if |-> file = "directory/",                    to |-> "denied"],
            [if |-> file = "cgi" /\ method \notin {"GET", "POST"},
                                                            to |-> "not implemented"],
            [if |-> file = "cgi",                           to |-> "cgi"],
            [if |-> file = "ssi",                           to |-> "ssi"],
            [if |-> file = "unmodified",                    to |-> "unmodified"],
            [if |-> TRUE,                                   to |-> "file"] >>
        first == CHOOSE i \in DOMAIN table :
                    table[i].if /\ \A j \in 1 .. i - 1 : ~table[j].if
    IN  table[first].to

(* What else a request may say, and the passwords files there may be.      *)
Query   == {"location_get", "location_get dirty", "spatial_query", "other"}
Expect  == {"none", "100-continue", "other"}
Ranges  == {<< >>, <<1>>, <<1, 1>>, <<1, 5>>, <<5, 6>>}
Line    == [user |-> "u", domain |-> "d", ha1 |-> "h"]
Files   == {<< << >>, << >> >>, << << >>, <<Line>> >>,
            << <<[Line EXCEPT !.domain = "e"], Line>>, << >> >>}
Digest  == {None, [user |-> "u", response |-> "h"], [user |-> "u", response |-> "x"]}
Allowed == {CheckAuthorization(f, g, "d") : f \in Files, g \in Digest}

PutReplies(length) ==
    UNION {PutFile(length, e, ranged) : e \in Expect, ranged \in BOOLEAN}

FileReplies(method) ==
    UNION {HandleFileRequest(method, range, size) : range \in Ranges, size \in {0, 3}}

(* The handler that a route leads to.                                      *)
Respond(route, method, length) ==
    CASE route = "unauthorized"    -> {SendAuthorizationRequest}
      [] route = "service"         -> UNION {ServiceHandle(q) : q \in Query}
      [] route = "options"         -> {SendOptions}
      [] route = "put"             -> PutReplies(length)
      [] route = "delete"          -> Delete
      [] route = "not found"       -> {SendHttpError(404)}
      [] route = "moved"           -> {MovedPermanently}
      [] route = "propfind"        -> {HandlePropfind}
      [] route = "directory"       -> HandleDirectoryRequest
      [] route = "denied"          -> {SendHttpError(403)}
      [] route = "not implemented" -> {SendHttpError(501)}
      [] route = "cgi"             -> UNION {HandleCgiRequest(method, length, e) :
                                                e \in Expect}
      [] route = "ssi"             -> HandleSsiFileRequest
      [] route = "unmodified"      -> {SendHttpError(304)}
      [] OTHER                     -> FileReplies(method)

HandleRequest(method, length, service) ==
    LET routes == {Route(method, service, a, p, l, f) :
                      a \in Allowed, p \in BOOLEAN, l \in BOOLEAN, f \in FileKind}
    IN  UNION {{[r EXCEPT !.by = route] : r \in Respond(route, method, length)} :
                  route \in routes}

(* All of them; a length that is known is known enough.                    *)
Replies ==
    {[method |-> m, told |-> t, service |-> s,
      any |-> HandleRequest(m, IF t THEN 0 ELSE -1, s)] :
        m \in Method, t \in BOOLEAN, s \in BOOLEAN}
=============================================================================
