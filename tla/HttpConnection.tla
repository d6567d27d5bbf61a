--------------------------- MODULE HttpConnection ---------------------------
(***************************************************************************)
(* One worker of src/src/mongoose.c and the connections it serves one after*)
(* the other: worker_thread(), process_new_connection(), read_request()    *)
(* and pull().  The worker keeps one struct mg_connection for all of them, *)
(* and with it the buffer of what was received and not yet processed.      *)
(*                                                                         *)
(* What clients send is cut into tokens, of which recv() returns any       *)
(* number at a time: the start of a request (its request line), the end of *)
(* its head (the other header lines and the blank one), one for each unit  *)
(* of its body, and text with a control character, or without end.         *)
(***************************************************************************)
EXTENDS HttpHandlers, SequencesExt

CONSTANTS
    KeepAlive,  \* values of the option enable_keep_alive
    Service,    \* whether there is a callback
    Lengths,    \* values of Content-Length
    BufSize,    \* MAX_REQUEST_SIZE
    MaxConns,   \* bound: connections
    MaxMsgs     \* bound: messages of all clients together

ASSUME ConfigAssumption == KeepAlive \subseteq BOOLEAN /\ Service \subseteq BOOLEAN
ASSUME RequestAssumption == Lengths \subseteq Nat
ASSUME SizeAssumption == BufSize \in Nat /\ BufSize >= 2     \* a head fits
ASSUME BoundsAssumption == MaxConns \in Nat /\ MaxMsgs \in Nat

VARIABLES
    config, stop,    \* configuration; ctx->stop_flag
    pc,              \* the worker
    conn,            \* number of the connection that was taken last
    sent,            \* bound: number of messages so far
    buf,             \* conn->buf up to conn->data_len
    requestLen, contentLen, mustClose, status, persist,
                     \* fields of conn; should_keep_alive() of the headers
    wire, patient,   \* the client: what it has still to send; whether it waits
                     \* for an answer before it sends the next request
    answers,         \* history: of the connection, the requests answered
    reply,           \* history: what the last handler did
    orderly          \* history: no client has left a request unfinished

client == <<sent, wire, patient>>
fields == <<requestLen, contentLen, mustClose, status, persist>>
vars   == <<config, stop, pc, conn, buf, fields, client, answers, reply, orderly>>

NoReply == [by |-> "none"]
Nobody  == <<0, 0>>
-----------------------------------------------------------------------------
(* Clients.  Message n of connection c, in tokens; posts says whether its  *)
(* method is one that has a body, POST or PUT.                             *)

Shape == [form : {"whole"}, posts : BOOLEAN, length : Lengths \union {-1}, persist : BOOLEAN]
         \union [form : {"half", "bad", "strange", "endless"}]

Token(c, n, part) == [of |-> <<c, n>>, part |-> part]
Start(c, n, posts) == [of |-> <<c, n>>, part |-> "start", posts |-> posts]
End(c, n, length, p) == [of |-> <<c, n>>, part |-> "end", length |-> length, persist |-> p]

Body(c, n, length) == [i \in 1 .. (IF length > 0 THEN length ELSE 0) |-> Token(c, n, "body")]

Message(c, n, m) ==
    CASE m.form = "whole" ->
            <<Start(c, n, m.posts), End(c, n, m.length, m.persist)>> \o Body(c, n, m.length)
      [] m.form = "half"    -> <<Start(c, n, FALSE)>>
      [] m.form = "bad"     -> <<Token(c, n, "bad")>>
      [] m.form = "strange" -> <<Token(c, n, "strange"), End(c, n, -1, TRUE)>>
      [] m.form = "endless" -> Body(c, n, BufSize)

(* What of the wire the client has sent.                                   *)
Arrived ==
    IF ~patient THEN Len(wire)
    ELSE Cardinality({i \in DOMAIN wire : wire[i].of[2] <= Len(answers) + 1})

Init ==
    /\ config \in [keepAlive : KeepAlive, service : Service]
    /\ stop = FALSE
    /\ pc = "idle"
    /\ conn = 0
    /\ buf = << >>
    /\ requestLen = 0 /\ contentLen = 0 /\ mustClose = FALSE /\ status = 0
    /\ persist = FALSE
    /\ sent = 0 /\ wire = << >> /\ patient = TRUE
    /\ answers = << >> /\ reply = NoReply /\ orderly = TRUE

(* mg_stop().                                                              *)
Stop ==
    /\ ~stop
    /\ stop' = TRUE
    /\ UNCHANGED <<config, pc, conn, buf, fields, client, answers, reply, orderly>>

(* reset_per_request_attributes(): contentLen is not among them.           *)
ResetAttributes ==
    /\ requestLen' = 0 /\ mustClose' = FALSE /\ status' = -1
    /\ UNCHANGED contentLen

(* A socket comes out of the queue; the client may be any.                 *)
Take ==
    /\ pc = "idle" /\ ~stop
    /\ conn < MaxConns
    /\ conn' = conn + 1
    /\ \E n \in 0 .. MaxMsgs - sent : \E m \in [1 .. n -> Shape], p \in BOOLEAN :
          /\ sent' = sent + n
          /\ wire' = FlattenSeq([i \in 1 .. n |-> Message(conn', i, m[i])])
          /\ patient' = p
          /\ orderly' = (orderly /\ p /\ \A i \in 1 .. n : m[i].form = "whole")
    /\ answers' = << >>
    /\ ResetAttributes
    /\ pc' = "read"
    /\ UNCHANGED <<config, stop, buf, persist, reply>>

(* consume_socket() returns 0.                                             *)
Leave ==
    /\ pc = "idle" /\ stop
    /\ pc' = "done"
    /\ UNCHANGED <<config, stop, conn, buf, fields, client, answers, reply, orderly>>
-----------------------------------------------------------------------------
(* read_request().                                                         *)

(* get_request_len(): 0 if there is no blank line yet, -1 if there is a    *)
(* control character before it.                                            *)
RequestLen ==
    LET at(part) == {i \in DOMAIN buf : buf[i].part = part}
        first(set) == CHOOSE i \in set : \A j \in set : i <= j
    IN  IF at("bad") # {} /\ (at("end") = {} \/ first(at("bad")) < first(at("end"))) THEN -1
        ELSE IF at("end") = {} THEN 0 ELSE first(at("end"))

Reading == pc = "read" /\ RequestLen = 0 /\ Len(buf) < BufSize

Pull ==
    /\ Reading /\ ~stop
    /\ \E k \in 1 .. Arrived :
          /\ Len(buf) + k <= BufSize
          /\ buf' = buf \o SubSeq(wire, 1, k)
          /\ wire' = SubSeq(wire, k + 1, Len(wire))
    /\ UNCHANGED <<config, stop, pc, conn, fields, sent, patient, answers, reply, orderly>>

(* recv() returns 0: the client has closed.                                *)
EndOfFile ==
    /\ Reading /\ ~stop
    /\ wire = << >>
    /\ pc' = "close"
    /\ UNCHANGED <<config, stop, conn, buf, fields, client, answers, reply, orderly>>

(* recv() fails.                                                           *)
Broken ==
    /\ Reading
    /\ pc' = "close"
    /\ orderly' = FALSE
    /\ UNCHANGED <<config, stop, conn, buf, fields, client, answers, reply>>

(* Mutant of GivesUp: only the client ends a wait.                         *)
GivesUpNever == FALSE

(* wait_until_socket_is_readable() looks at the stop flag every 300 ms, and*)
(* pull() once more: what was received by then is lost.                    *)
GivesUp == stop

GiveUp ==
    /\ Reading /\ GivesUp
    /\ pc' = "close"
    /\ UNCHANGED <<config, stop, conn, buf, fields, client, answers, reply, orderly>>
-----------------------------------------------------------------------------
(* process_new_connection().                                               *)

(* Neither of the two returns takes anything out of the buffer.            *)
TooLarge ==
    /\ pc = "read"
    /\ RequestLen = 0 /\ Len(buf) = BufSize
    /\ answers' = Append(answers, Nobody)
    /\ status' = 413
    /\ pc' = "refusing"
    /\ UNCHANGED <<config, stop, conn, buf, requestLen, contentLen, mustClose,
                   persist, client, reply, orderly>>

Malformed ==
    /\ pc = "read" /\ RequestLen = -1
    /\ requestLen' = -1
    /\ pc' = "close"
    /\ UNCHANGED <<config, stop, conn, buf, contentLen, mustClose, status, persist,
                   client, answers, reply, orderly>>

(* parse_http_request() needs a request line where the buffer begins; the  *)
(* headers are those before the blank line.                                *)
RequestLine == buf[1]
HeadersEnd == buf[RequestLen]

BadRequest ==
    /\ pc = "read" /\ RequestLen > 0
    /\ RequestLine.part \notin {"start", "strange"}
    /\ requestLen' = RequestLen
    /\ answers' = Append(answers, Nobody)
    /\ status' = 400 /\ mustClose' = TRUE
    /\ persist' = FALSE
    /\ pc' = "sending"
    /\ UNCHANGED <<config, stop, conn, buf, contentLen, client, reply, orderly>>

VersionNotSupported ==
    /\ pc = "read" /\ RequestLen > 0
    /\ RequestLine.part = "strange"
    /\ requestLen' = RequestLen
    /\ answers' = Append(answers, RequestLine.of)
    /\ status' = 505
    /\ persist' = HeadersEnd.persist
    /\ pc' = "sending"
    /\ UNCHANGED <<config, stop, conn, buf, contentLen, mustClose, client, reply,
                   orderly>>

(* Content-Length, or -1 for a method that needs one, or 0.                *)
ContentLen(posts, length) ==
    IF length >= 0 THEN length ELSE IF posts THEN -1 ELSE 0

RepliesTo(posts, told) ==
    {x \in Replies : /\ x.method \in {"POST", "PUT"} <=> posts
                     /\ x.told = told /\ x.service = config.service}

(* A handler that wants the body takes what the buffer holds of it and     *)
(* pulls the rest; "cut" if that fails on the way, or cannot be written.   *)
(* The clients that came so far keep being orderly if nothing of the body  *)
(* can come after its request is over.                                     *)
Handle ==
    /\ pc = "read" /\ RequestLen > 0
    /\ RequestLine.part = "start"
    /\ requestLen' = RequestLen
    /\ contentLen' = ContentLen(RequestLine.posts, HeadersEnd.length)
    /\ LET rest == contentLen' - (Len(buf) - RequestLen)
       IN  \E x \in RepliesTo(RequestLine.posts, contentLen' # -1) :
              \E r \in x.any, k \in 0 .. Arrived :
                 /\ r.body = "left" => k = 0
                 /\ r.body = "read" => k = IF rest > 0 THEN rest ELSE 0
                 /\ r.body = "cut"  => rest > 0 /\ k <= rest
                 /\ wire' = SubSeq(wire, k + 1, Len(wire))
                 /\ reply' = r
                 /\ status' = r.status /\ mustClose' = r.close
                 /\ orderly' = (orderly /\ (rest <= k \/ ~config.keepAlive))
                 /\ pc' = IF r.awaits THEN "program" ELSE "sending"
    /\ persist' = HeadersEnd.persist
    /\ answers' = Append(answers, RequestLine.of)
    /\ UNCHANGED <<config, stop, conn, buf, sent, patient>>

(* The program has ended: reads from its pipe do not look at stop.         *)
ProgramEnds ==
    /\ pc = "program"
    /\ pc' = "sending"
    /\ reply' = NoReply
    /\ UNCHANGED <<config, stop, conn, buf, fields, client, answers, orderly>>

(* push(): send() has no time-out and its loop does not look at stop: it   *)
(* lasts until the client has taken what is sent, or has gone.             *)
Taken ==
    /\ \/ pc = "sending" /\ pc' = "handled"
       \/ pc = "refusing" /\ pc' = "close"
    /\ reply' = NoReply
    /\ UNCHANGED <<config, stop, conn, buf, fields, client, answers, orderly>>

(* Mutant of DiscardLen: the body is forgotten.                            *)
DiscardHead == requestLen

DiscardLen ==
    IF contentLen >= 0 /\ requestLen + contentLen < Len(buf)
    THEN requestLen + contentLen ELSE Len(buf)

ShouldKeepAlive == ~mustClose /\ status # 401 /\ config.keepAlive /\ persist

(* The end of the loop: what was processed is discarded.                   *)
Finish ==
    /\ pc = "handled"
    /\ buf' = SubSeq(buf, DiscardLen + 1, Len(buf))
    /\ reply' = NoReply
    /\ IF ~stop /\ contentLen >= 0 /\ ShouldKeepAlive
       THEN pc' = "read" /\ ResetAttributes
       ELSE pc' = "close" /\ UNCHANGED <<requestLen, contentLen, mustClose, status>>
    /\ UNCHANGED <<config, stop, conn, persist, client, answers, orderly>>

(* close_connection(): what was not received is lost, the buffer stays.    *)
CloseConnection ==
    /\ pc = "close"
    /\ pc' = "idle"
    /\ wire' = << >> /\ patient' = TRUE
    /\ UNCHANGED <<config, stop, conn, buf, fields, sent, answers, reply, orderly>>
-----------------------------------------------------------------------------
Worker ==
    \/ Pull \/ EndOfFile \/ GiveUp \/ TooLarge \/ Malformed \/ BadRequest
    \/ VersionNotSupported \/ Handle \/ Finish \/ CloseConnection \/ Leave

Next == Stop \/ Take \/ Broken \/ ProgramEnds \/ Taken \/ Worker

Spec == Init /\ [][Next]_vars

(* Once it is told to stop the thread goes on where its own steps or the   *)
(* stop flag let it.  Nothing makes a client send, take what is sent to it,*)
(* or close, nor a program end.                                            *)
Fairness == WF_vars(stop /\ (\/ GiveUp \/ TooLarge \/ Malformed \/ BadRequest
                             \/ VersionNotSupported \/ Handle \/ Finish
                             \/ CloseConnection \/ Leave))

FairSpec == Spec /\ Fairness
-----------------------------------------------------------------------------
(* Clients that finish the requests they begin, and wait for the answer    *)
(* before they send the next, get answers to their own requests, one each  *)
(* and in their order, and leave nothing behind in the buffer that the next*)
(* connection is served from.                                              *)
OrderlyServed ==
    orderly =>
        /\ \A i \in DOMAIN answers : answers[i] = <<conn, i>>
        /\ pc = "idle" /\ ~stop => buf = << >>

(* A request is answered with one final status line, but for location_get  *)
(* with a dev_id that is no number, which gets none, and a CGI request for *)
(* which fork() fails, which gets two.                                     *)
OneAnswer ==
    Len(reply.lines) # 1 =>
        \/ reply.by = "service" /\ reply.lines = << >>
        \/ reply.by = "cgi" /\ reply.lines = <<500, 500>>

(* What a handler opened it closes, and once: a descriptor closed twice may*)
(* by then be that of another thread.  That happens after a failed fork(). *)
ClosedOnce ==
    \A d \in reply.opened \union {reply.closed[i] : i \in DOMAIN reply.closed} :
        LET n == Cardinality({i \in DOMAIN reply.closed : reply.closed[i] = d})
        IN  /\ d \in reply.opened
            /\ \/ n = 1
               \/ n = 2 /\ d \in {"in0", "out1"} /\ reply.lines = <<500, 500>>

(* The handlers that keep a connection alive behind a reply of which the   *)
(* client cannot tell where it ends.                                       *)
Delimited ==
    ~reply.delimited /\ ~reply.close =>
        reply.by \in {"service", "moved", "options", "put", "cgi", "file"}

(* Every reply of every handler, whatever fails on the way.                *)
HandlersTidy == reply # NoReply => OneAnswer /\ ClosedOnce /\ Delimited

(* A worker that is told to stop comes to its end, whatever its client has *)
(* not sent, or it waits for ever in one of the two places where the stop  *)
(* flag is not looked at: for a program it reads from, or in send(), for a *)
(* client that does not take what it is sent.                              *)
WorkerEnds ==
    stop ~> pc = "done" \/ [](pc \in {"program", "sending", "refusing"})

(* src/src/mongoose.h:55: the callback is called when a new request has    *)
(* arrived from the client.  The client is the one of the connection.      *)
FromTheClient ==
    \A i \in DOMAIN answers : answers[i] # Nobody => answers[i][1] = conn
=============================================================================
