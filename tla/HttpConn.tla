------------------------------ MODULE HttpConn ------------------------------
(***************************************************************************)
(* One connection, from its thread's first step to its last.  The client   *)
(* sends the tokens of its messages (method, URL, header names and values, *)
(* pieces of a body, the end of a message) in order; they arrive one by    *)
(* one.  The thread creates a parser, reads ONCE what has arrived, feeds   *)
(* it to llhttp, whose callbacks collect the request, hands the request to *)
(* the handler of its route, builds the response, sends it and closes.     *)
(*                                                                         *)
(* Connections share only what the other modules are about (the store, the *)
(* router), so one of them is enough here.  llhttp itself is external: it  *)
(* calls back once for each token of the buffer, goes on with the next     *)
(* message after a complete one, and gives up at a token it cannot accept. *)
(***************************************************************************)
EXTENDS Integers, Sequences

CONSTANTS
    None,           \* no parser, request, response or string
    Words,          \* what the texts of a message can be
    Streams,        \* what the client may mean to send: sequences of tokens
    Routes,         \* the <<method, URL>> pairs that have a handler
    Statuses,       \* the statuses a handler may answer with
    BufferTokens,   \* request_buffer: the tokens one recv returns at most
    Pieces,         \* the parts in which a response leaves, ...
    Window,         \* ... and how many of them wait for the client at most
    Faults          \* what may fail: "parser", "alloc", "oversize"

Methods == {"GET", "POST", "PUT", "DELETE", "PATCH", "HEAD", "OPTIONS"}
Headers == {"Content-Type", "Content-Length", "Host"}

\* A piece of message number "of"; "long": over the buffer it is copied to.  A
\* body may be cut anywhere: a piece that holds a NUL begins with it.
Token == [part: {"method", "url", "field", "value", "body", "end", "junk"},
          of: Nat, what: Words, long: BOOLEAN]

\* http_parser_context_t.  local is FALSE when local_request is NULL.  url_buf
\* and url hold tokens, body the positions of its tokens in the stream.
Context ==
    [local: BOOLEAN, llmethod: Words, ofMethod: Nat, url_buf: Token \cup {None},
     method: Words, url: Token \cup {None}, body: Seq(Nat),
     headers: SUBSET Headers, header_key: Words, parsing_header: BOOLEAN]

Request == [method: Words, ofMethod: Nat, url: Token, body: Seq(Nat)]

\* Messages follow one another, each with its URL before its end.
WellFormed(s) ==
    \A i \in DOMAIN s : s[i].part = "end" =>
        /\ \A j \in DOMAIN s : s[j].of = s[i].of => j <= i
        /\ \E j \in 1..i : /\ s[j].part = "url"
                          /\ s[j].of = s[i].of
                          /\ \A k \in (j + 1)..i : s[k].part # "url"

ASSUME StreamAssumption ==
    /\ Streams \subseteq Seq(Token)
    /\ \A s \in Streams : WellFormed(s)

ASSUME WordAssumption ==
    /\ Methods \cup Headers \cup {"", "other", "nul"} \subseteq Words
    /\ None \notin Nat \cup Token \cup Context \cup Request

ASSUME SizeAssumption ==
    /\ Statuses \subseteq 200..599
    /\ BufferTokens \in Nat \ {0}
    /\ Pieces \in Nat \ {0}
    /\ Window \in Nat \ {0}

VARIABLES
    stream,     \* what the client means to send
    sent,       \* how much of it has arrived
    peer,       \* the client's end: "open", "closed" (no more data), "reset"
    pc,         \* where the thread is
    ctx,        \* the parser, or None
    got,        \* tokens in request_buffer
    pos,        \* tokens parsed
    request,    \* what http_parser_get_request returned
    response,   \* the response as built so far
    outcome,    \* history: the status a handler (or OPTIONS) has decided on
    reply,      \* status of the response that is being sent
    left,       \* parts of it that are still to be sent
    unread,     \* parts the client has not read yet
    delivered,  \* parts it has read
    lost        \* strings of the parser that nothing points to any more

conn == <<stream, sent, peer, pc, ctx, got, pos, request, response, outcome,
          reply, left, unread, delivered, lost>>

Labels == {"create", "recv", "execute", "get", "dispatch", "build", "oversize",
           "send", "free", "done", "crashed"}

\* status 0: nothing has set it; size: does the text fit response_buf?
Response == [status: {0} \cup 200..599, json: BOOLEAN, fits: BOOLEAN]

PositionType ==
    /\ stream \in Streams
    /\ sent \in 0..Len(stream)
    /\ got \in 0..sent
    /\ pos \in 0..got
    /\ lost \in Nat

ParserType ==
    /\ ctx \in Context \cup {None}
    /\ request \in Request \cup {None}

ResponseType ==
    /\ response \in Response
    /\ outcome \in 200..599 \cup {None}
    /\ reply \in 200..599 \cup {None}

PieceType ==
    /\ left \in 0..Pieces
    /\ unread \in 0..Pieces
    /\ delivered \in 0..Pieces

TypeOK ==
    /\ pc \in Labels
    /\ peer \in {"open", "closed", "reset"}
    /\ PositionType
    /\ ParserType
    /\ ResponseType
    /\ PieceType

Nothing == [status |-> 0, json |-> FALSE, fits |-> TRUE]

Init ==
    /\ stream \in Streams
    /\ sent = 0
    /\ peer = "open"
    /\ pc = "create"
    /\ ctx = None
    /\ got = 0
    /\ pos = 0
    /\ request = None
    /\ response = Nothing
    /\ outcome = None
    /\ reply = None
    /\ left = 0
    /\ unread = 0
    /\ delivered = 0
    /\ lost = 0

GoTo(from, to) == pc = from /\ pc' = to

client == <<stream, sent, peer>>
answer == <<reply, left, unread, delivered>>

\* json_response_error: without memory it leaves a bare 500.
Errors(status) ==
    {[status |-> status, json |-> TRUE, fits |-> TRUE]} \cup
    IF "alloc" \in Faults THEN {[status |-> 500, json |-> FALSE, fits |-> TRUE]}
    ELSE {}

-----------------------------------------------------------------------------
(***************************************************************************)
(* Reading and parsing.                                                    *)
(***************************************************************************)
NewParser(local) ==
    [local |-> local, llmethod |-> "DELETE", ofMethod |-> 0, url_buf |-> None,
     method |-> "GET", url |-> None, body |-> <<>>, headers |-> {},
     header_key |-> "", parsing_header |-> FALSE]

http_parser_create ==
    /\ GoTo("create", "recv")
    /\ \/ ctx' = NewParser(TRUE)
       \/ "parser" \in Faults /\ ctx' \in {None, NewParser(FALSE)}
    /\ UNCHANGED <<client, got, pos, request, response, outcome, answer, lost>>

\* The only recv: it waits for something, and returns what is there.
read_http_request ==
    /\ pc = "recv"
    /\ sent > 0
    /\ peer # "reset"
    /\ pc' = IF ctx = None THEN "build" ELSE "execute"
    /\ got' = IF sent < BufferTokens THEN sent ELSE BufferTokens
    /\ UNCHANGED <<client, ctx, pos, request, response, outcome, answer, lost>>

\* The client has closed before it sent anything, or is gone.
ReadFails ==
    /\ GoTo("recv", "build")
    /\ peer = "reset" \/ (peer = "closed" /\ sent = 0)
    /\ response' \in Errors(400)
    /\ UNCHANGED <<client, ctx, got, pos, request, outcome, answer, lost>>

\* The next token of the buffer.
Next1 == stream[pos + 1]

AtToken(part) == pc = "execute" /\ pos < got /\ Next1.part = part

Parsed == pos' = pos + 1 /\ UNCHANGED pc

ParseUnchanged ==
    UNCHANGED <<client, got, request, response, outcome, answer>>

on_method ==
    /\ AtToken("method")
    /\ Parsed
    /\ ctx' = [ctx EXCEPT !.llmethod = Next1.what, !.ofMethod = Next1.of]
    /\ UNCHANGED lost
    /\ ParseUnchanged

\* Mutant: the URL is the request's as soon as it has been seen.
on_urlAtOnce ==
    /\ AtToken("url")
    /\ ~Next1.long
    /\ Parsed
    /\ ctx' = [ctx EXCEPT !.url_buf = Next1, !.url = Next1]
    /\ UNCHANGED lost
    /\ ParseUnchanged

on_url ==
    /\ AtToken("url")
    /\ ~Next1.long
    /\ Parsed
    /\ ctx' = [ctx EXCEPT !.url_buf = Next1]
    /\ UNCHANGED lost
    /\ ParseUnchanged

\* Names are copied; a second piece of one name is added to the first.
on_header_field ==
    /\ AtToken("field")
    /\ ~Next1.long
    /\ Parsed
    /\ ctx' = [ctx EXCEPT !.parsing_header = TRUE,
                          !.header_key = IF ctx.parsing_header
                                         THEN "other" ELSE Next1.what]
    /\ UNCHANGED lost
    /\ ParseUnchanged

KeptHeader == ctx.header_key \in Headers

\* Three headers are kept: the string of an earlier one of that name is lost.
on_header_value ==
    /\ AtToken("value")
    /\ ~Next1.long
    /\ ctx.local \/ ~KeptHeader
    /\ Parsed
    /\ ctx' = [ctx EXCEPT !.parsing_header = FALSE,
                          !.headers = @ \cup ({ctx.header_key} \cap Headers)]
    /\ lost' = IF ctx.header_key \in ctx.headers THEN lost + 1 ELSE lost
    /\ ParseUnchanged

on_body ==
    /\ AtToken("body")
    /\ ctx.local
    /\ Parsed
    /\ ctx' = [ctx EXCEPT !.body = Append(@, pos + 1)]
    /\ UNCHANGED lost
    /\ ParseUnchanged

\* The URL becomes the request's; that of an earlier message is lost.
on_message_complete ==
    /\ AtToken("end")
    /\ ctx.local
    /\ Parsed
    /\ ctx' = [ctx EXCEPT !.url = ctx.url_buf]
    /\ lost' = IF ctx.url = None THEN lost ELSE lost + 1
    /\ ParseUnchanged

\* Callbacks that store a string in local_request.
Allocates ==
    \/ Next1.part \in {"body", "end"}
    \/ Next1.part = "value" /\ KeptHeader

\* A callback reports an error (too long, no memory), or llhttp does.
ParseError ==
    /\ GoTo("execute", "build")
    /\ pos < got
    /\ \/ Next1.part = "junk"
       \/ Next1.part \in {"url", "field", "value"} /\ Next1.long
       \/ "alloc" \in Faults /\ ctx.local /\ Allocates
    /\ response' \in Errors(400)
    /\ UNCHANGED <<client, ctx, got, pos, request, outcome, answer, lost>>

\* local_request is NULL, and used: by a callback, or at the end of execute.
NullDereference ==
    /\ GoTo("execute", "crashed")
    /\ ~ctx.local
    /\ pos < got => Allocates /\ ~Next1.long
    /\ UNCHANGED <<client, ctx, got, pos, request, response, outcome, answer,
                   lost>>

Callback ==
    \/ on_method \/ on_url \/ on_header_field \/ on_header_value \/ on_body
    \/ on_message_complete \/ ParseError \/ NullDereference

llhttp_method_to_local(m) == IF m \in Methods THEN m ELSE "GET"

\* llhttp has taken the whole buffer.
http_parser_execute ==
    /\ pos = got
    /\ GoTo("execute", "get")
    /\ ctx.local
    /\ ctx' = [ctx EXCEPT !.method = llhttp_method_to_local(ctx.llmethod)]
    /\ UNCHANGED <<client, got, pos, request, response, outcome, answer, lost>>

-----------------------------------------------------------------------------
(***************************************************************************)
(* The request, its handler and its response.                              *)
(***************************************************************************)
\* Mutant: nobody asks whether a message was complete.
GetRequestUnchecked ==
    /\ GoTo("get", "dispatch")
    /\ request' = [method |-> ctx.method, ofMethod |-> ctx.ofMethod,
                   url |-> ctx.url, body |-> ctx.body]
    /\ UNCHANGED <<client, ctx, got, pos, response, outcome, answer, lost>>

HasNul(i) == stream[i].what = "nul"

\* The first n pieces are the body as a C string.
UpToNul(body, n) ==
    /\ \A k \in 1..n : ~HasNul(body[k])
    /\ n < Len(body) => HasNul(body[n + 1])

\* A copy of what was collected: of the body as far as its first NUL (strdup;
\* no handler looks at body_len).  One that cannot be copied is left out.
http_parser_get_request ==
    /\ GoTo("get", "dispatch")
    /\ ctx.url # None
    /\ \E n \in 0..Len(ctx.body) :
          /\ UpToNul(ctx.body, n) \/ ("alloc" \in Faults /\ n = 0)
          /\ request' = [method |-> ctx.method, ofMethod |-> ctx.ofMethod,
                         url |-> ctx.url, body |-> SubSeq(ctx.body, 1, n)]
    /\ UNCHANGED <<client, ctx, got, pos, response, outcome, answer, lost>>

\* Mutant: the error is forgotten.
GetRequestFailsSilently ==
    /\ GoTo("get", "build")
    /\ ctx.url = None \/ "alloc" \in Faults
    /\ UNCHANGED <<client, ctx, got, pos, request, response, outcome, answer,
                   lost>>

\* No message is complete, or there is no memory.
GetRequestFails ==
    /\ GoTo("get", "build")
    /\ ctx.url = None \/ "alloc" \in Faults
    /\ response' \in Errors(500)
    /\ UNCHANGED <<client, ctx, got, pos, request, outcome, answer, lost>>

router_match == <<request.method, request.url.what>> \in Routes

Options ==
    /\ GoTo("dispatch", "build")
    /\ request.method = "OPTIONS"
    /\ response' = [status |-> 204, json |-> FALSE, fits |-> TRUE]
    /\ outcome' = 204
    /\ UNCHANGED <<client, ctx, got, pos, request, answer, lost>>

NotFound ==
    /\ GoTo("dispatch", "build")
    /\ request.method # "OPTIONS"
    /\ ~router_match
    /\ response' \in Errors(404)
    /\ UNCHANGED <<client, ctx, got, pos, request, outcome, answer, lost>>

\* What a handler leaves: a status with a text, or (out of memory) a bare 500,
\* which the thread tries once more to give a text.
Handler ==
    /\ GoTo("dispatch", "build")
    /\ request.method # "OPTIONS"
    /\ router_match
    /\ \/ \E s \in Statuses, fits \in BOOLEAN :
             /\ fits \/ "oversize" \in Faults
             /\ response' = [status |-> s, json |-> TRUE, fits |-> fits]
             /\ outcome' = s
       \/ "alloc" \in Faults /\ response' \in Errors(500) /\ outcome' = 500
    /\ UNCHANGED <<client, ctx, got, pos, request, answer, lost>>

\* The status that is sent: 0 stands for 200.
StatusLine(r) == IF r.status = 0 THEN 200 ELSE r.status

StartSend(status) == reply' = status /\ left' = Pieces

http_build_response ==
    /\ GoTo("build", "send")
    /\ response.fits
    /\ StartSend(StatusLine(response))
    /\ UNCHANGED <<client, ctx, got, pos, request, response, outcome, unread,
                   delivered, lost>>

\* The text cannot be printed, or is too long for the buffer.
BuildFails ==
    /\ GoTo("build", "oversize")
    /\ response.json
    /\ ~response.fits \/ "alloc" \in Faults
    /\ UNCHANGED <<client, ctx, got, pos, request, response, outcome, answer,
                   lost>>

\* A 413 instead (or a 500, when there is no memory for that either).
SendOversize ==
    /\ GoTo("oversize", "send")
    /\ \E r \in Errors(413) : StartSend(r.status)
    /\ UNCHANGED <<client, ctx, got, pos, request, response, outcome, unread,
                   delivered, lost>>

\* Mutant: one call of send is taken to have sent everything.
SendOnce ==
    /\ GoTo("send", "free")
    /\ left > 0
    /\ peer # "reset"
    /\ \E n \in 1..left : unread + n <= Window /\ unread' = unread + n
    /\ left' = 0
    /\ UNCHANGED <<client, ctx, got, pos, request, response, outcome, reply,
                   delivered, lost>>

\* The kernel takes a part of what is left, as far as there is room.
send_http_response ==
    /\ pc = "send"
    /\ left > 0
    /\ peer # "reset"
    /\ \E n \in 1..left :
          /\ unread + n <= Window
          /\ unread' = unread + n
          /\ left' = left - n
    /\ UNCHANGED <<client, pc, ctx, got, pos, request, response, outcome,
                   reply, delivered, lost>>

\* Mutant: every error of send is tried again.
SendRetries ==
    /\ GoTo("send", "free")
    /\ left = 0
    /\ UNCHANGED <<client, ctx, got, pos, request, response, outcome, answer,
                   lost>>

\* All is sent, or the client is gone: send fails (SIGPIPE is ignored).
SendEnds ==
    /\ GoTo("send", "free")
    /\ left = 0 \/ peer = "reset"
    /\ UNCHANGED <<client, ctx, got, pos, request, response, outcome, answer,
                   lost>>

\* The kernel resets a connection that is closed with data nobody has read, or
\* that data reach afterwards: what waits for the client may be dropped.
MayDrop(isReset) == unread' \in IF isReset THEN 0..unread ELSE {unread}

\* Everything is freed, and the connection closed.
Free ==
    /\ GoTo("free", "done")
    /\ ctx' = None
    /\ request' = None
    /\ response' = Nothing
    /\ MayDrop(got < sent)
    /\ UNCHANGED <<client, got, pos, outcome, reply, left, delivered, lost>>

Thread ==
    \/ http_parser_create \/ read_http_request \/ ReadFails \/ Callback
    \/ http_parser_execute \/ http_parser_get_request \/ GetRequestFails
    \/ Options \/ NotFound \/ Handler \/ http_build_response \/ BuildFails
    \/ SendOversize \/ send_http_response \/ SendEnds \/ Free

-----------------------------------------------------------------------------
(***************************************************************************)
(* The client.                                                             *)
(***************************************************************************)
server == <<pc, ctx, got, pos, request, response, outcome, reply, left, lost>>

Arrive ==
    /\ sent < Len(stream)
    /\ peer = "open"
    /\ sent' = sent + 1
    /\ MayDrop(pc = "done")
    /\ UNCHANGED <<stream, peer, delivered, server>>

\* The client sends no more, with all or some of its stream sent.
CloseSending ==
    /\ peer = "open"
    /\ peer' = "closed"
    /\ UNCHANGED <<stream, sent, unread, delivered, server>>

\* The client is gone: what it has not read is dropped.
Reset ==
    /\ peer # "reset"
    /\ peer' = "reset"
    /\ UNCHANGED <<stream, sent, unread, delivered, server>>

Read ==
    /\ unread > 0
    /\ peer # "reset"
    /\ unread' = unread - 1
    /\ delivered' = delivered + 1
    /\ UNCHANGED <<client, server>>

Next == Thread \/ Arrive \/ CloseSending \/ Reset \/ Read

Spec == Init /\ [][Next]_conn

\* The thread is scheduled, and a client that is there reads its answer.  It
\* need not send anything.
FairSpec == Spec /\ WF_conn(Thread) /\ WF_conn(Read)

-----------------------------------------------------------------------------
(***************************************************************************)
(* What a connection keeps, and what the documents promise of it.          *)
(***************************************************************************)
PiecesOf(m) == {i \in 1..Len(stream) : stream[i].part = "body" /\ stream[i].of = m}

\* No handler runs on half a request, however the bytes were cut into
\* segments and whatever follows them: its URL is that of a message that was
\* read to its end, and the body has every piece of that message before which
\* no NUL was read (or was left out, for want of memory).  A request whose end
\* had not arrived when recv returned gets a 500, not a handler.
WholeRequest ==
    request # None =>
        /\ \E i \in 1..got :
              stream[i].part = "end" /\ stream[i].of = request.url.of
        /\ \/ request.body = <<>> /\ "alloc" \in Faults
           \/ \A i \in PiecesOf(request.url.of) :
                 \/ \E k \in DOMAIN request.body : request.body[k] = i
                 \/ \E j \in 1..i : stream[j].part = "body" /\ HasNul(j)

\* A status that says success is the one the handler (or OPTIONS) decided on,
\* whatever failed before or after it: a request that was cut, refused or not
\* found, and a response that could not be built, is never reported as done.
\* This needs a parser (without one nothing is parsed): OutOfMemoryIsAnError.
SuccessIsDecided ==
    reply # None /\ reply < 400 /\ pos > 0 => outcome = reply

\* Nobody is left with half a response, though send takes only what fits:
\* unless it is gone, the client of a finished connection has the whole of it,
\* or finds it in the kernel.  Except one that has sent more than the only recv
\* took: CLOSE_SOCKET resets its connection.
AnsweredWhole ==
    pc = "done" /\ peer # "reset" /\ got = sent =>
        delivered + unread = Pieces

\* Every thread ends, once its client has sent anything, has closed or is gone.
ConnectionEnds == sent > 0 \/ peer # "open" ~> pc \in {"done", "crashed"}

\* lmjcore_web.md: pipelining is supported.  What a handler is given then
\* comes from one of the messages that were sent one after the other.
OneMessage ==
    request # None =>
        /\ request.ofMethod = request.url.of
        /\ \A k \in DOMAIN request.body :
              stream[request.body[k]].of = request.url.of

\* lmjcore_web.md: a failed allocation is a 500.  So it is no success when no
\* handler has run for want of a parser.
OutOfMemoryIsAnError ==
    reply # None /\ outcome = None => reply >= 400

\* http_parser.c: the strings of a request are released by
\* http_parser_destroy.  None is out of its reach by then.
DestroyReleasesAll == pc = "done" => lost = 0

=============================================================================
