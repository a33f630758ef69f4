--------------------------- MODULE HttpConnProofs ---------------------------
(***************************************************************************)
(* Theorems about one connection, for any stream of messages, any size of  *)
(* the buffer, of the response and of the kernel's window, and any fault.  *)
(***************************************************************************)
EXTENDS HttpConn, TLAPS

\* The body has the position of every piece that has been parsed, in order;
\* url_buf has the last URL; and the request has a URL only once its message
\* has ended.
BodyKept ==
    /\ \A i \in 1..pos : stream[i].part = "body" =>
          \E k \in DOMAIN ctx.body : ctx.body[k] = i
    /\ \A k \in DOMAIN ctx.body :
          ctx.body[k] \in 1..pos /\ stream[ctx.body[k]].part = "body"
    /\ \A k, l \in DOMAIN ctx.body : k < l => ctx.body[k] < ctx.body[l]

LastUrl ==
    \A i \in 1..pos :
        /\ stream[i].part = "url"
        /\ \A k \in (i + 1)..pos : stream[k].part # "url"
        => ctx.url_buf = stream[i]

UrlEnded ==
    ctx.url # None =>
        \E i \in 1..pos : stream[i].part = "end" /\ stream[i].of = ctx.url.of

Collected ==
    /\ pc \in {"create", "recv"} => pos = 0 /\ got = 0
    /\ pc \in {"execute", "get"} => ctx # None
    /\ pc = "get" => pos = got
    /\ pc = "dispatch" => request # None
    /\ ctx # None => BodyKept /\ LastUrl /\ UrlEnded

\* A response is what a handler has decided on, an error, or (when nothing was
\* parsed) nothing at all.
Decided ==
    /\ pc \in {"create", "recv", "execute", "get", "dispatch"} =>
          response = Nothing /\ outcome = None /\ reply = None
    /\ pc = "build" /\ pos > 0 => response.status # 0
    /\ /\ pc \in {"build", "oversize"}
       /\ response.status # 0
       /\ response.status < 400
       => outcome = response.status

\* The parts of a response are with the server, the kernel or the client.
Sum ==
    /\ pc \notin {"send", "free", "done"} => unread = 0 /\ delivered = 0
    /\ pc = "send" => left + unread + delivered = Pieces
    /\ pc \in {"free", "done"} /\ peer # "reset" =>
          /\ left = 0
          /\ unread + delivered <= Pieces
          /\ pc = "free" \/ got = sent => unread + delivered = Pieces

Invariant == TypeOK /\ Collected /\ WholeRequest /\ Decided /\ SuccessIsDecided /\ Sum

-----------------------------------------------------------------------------
LEMMA RecordType ==
    \A n \in {0} \cup 200..599, b, f \in BOOLEAN :
        [status |-> n, json |-> b, fits |-> f] \in Response
BY DEF Response

\* An error is a response that reports an error.
IsError(r) ==
    /\ r \in Response
    /\ r.status \in 200..599
    /\ r.status >= 400

LEMMA ErrorType ==
    ASSUME NEW s \in 400..599
    PROVE  \A r \in Errors(s) : IsError(r)
<1>1. SUFFICES ASSUME NEW r \in Errors(s)
      PROVE  IsError(r)
  OBVIOUS
<1>2. \E n \in {s, 500}, b \in BOOLEAN :
         r = [status |-> n, json |-> b, fits |-> TRUE]
  BY <1>1, ZenonT(40) DEF Errors
<1>3. r \in Response /\ r.status \in 400..599
  BY <1>2 DEF Response
<1>4. \A n \in 400..599 : n \in 200..599 /\ n >= 400
  OBVIOUS
<1>5. QED
  BY <1>3, <1>4 DEF IsError

LEMMA ErrorTypes ==
    \A r : \/ r \in Errors(400) \/ r \in Errors(404)
           \/ r \in Errors(413) \/ r \in Errors(500)
           => IsError(r)
<1>1. \A r \in Errors(400) : IsError(r)
  <2>1. 400 \in 400..599
    OBVIOUS
  <2>2. QED
    BY <2>1, ErrorType, Zenon
<1>2. \A r \in Errors(404) : IsError(r)
  <2>1. 404 \in 400..599
    OBVIOUS
  <2>2. QED
    BY <2>1, ErrorType, Zenon
<1>3. \A r \in Errors(413) : IsError(r)
  <2>1. 413 \in 400..599
    OBVIOUS
  <2>2. QED
    BY <2>1, ErrorType, Zenon
<1>4. \A r \in Errors(500) : IsError(r)
  <2>1. 500 \in 400..599
    OBVIOUS
  <2>2. QED
    BY <2>1, ErrorType, ZenonT(40)
<1>5. QED
  BY <1>1, <1>2, <1>3, <1>4, SMT

LEMMA NoneApart == None \notin Context /\ None \notin Request /\ None \notin Token
BY WordAssumption

LEMMA NothingType == Nothing \in Response /\ Nothing.status = 0
BY DEF Nothing, Response

\* The callbacks get tokens.
LEMMA TokenType ==
    ASSUME PositionType, pos < got
    PROVE  /\ pos + 1 \in 1..Len(stream)
           /\ Next1 \in Token
           /\ Next1.what \in Words
           /\ Next1.of \in Nat
<1>1. stream \in Seq(Token)
  BY StreamAssumption DEF PositionType
<1>2. Len(stream) \in Nat /\ DOMAIN stream = 1..Len(stream)
  BY <1>1
<1>3. pos + 1 \in 1..Len(stream)
  BY <1>2 DEF PositionType
<1>4. Next1 \in Token
  BY <1>1, <1>2, <1>3 DEF Next1
<1>5. QED
  BY <1>3, <1>4 DEF Token

LEMMA Lengths ==
    ASSUME PositionType
    PROVE  /\ Len(stream) \in Nat
           /\ sent \in Nat /\ got \in Nat /\ pos \in Nat /\ lost \in Nat
           /\ pos <= got /\ got <= sent /\ sent <= Len(stream)
<1>1. stream \in Seq(Token)
  BY StreamAssumption DEF PositionType
<1>2. Len(stream) \in Nat
  BY <1>1
<1>3. QED
  BY <1>2 DEF PositionType

LEMMA NewParserType ==
    ASSUME NEW b \in BOOLEAN
    PROVE  /\ NewParser(b) \in Context
           /\ NewParser(b).url = None
<1>1. "DELETE" \in Words /\ "GET" \in Words /\ "" \in Words
  BY WordAssumption DEF Methods
<1>2. <<>> \in Seq(Nat) /\ {} \in SUBSET Headers
  OBVIOUS
<1>3. NewParser(b) \in Context
  BY <1>1, <1>2, Zenon DEF NewParser, Context
<1>4. QED
  BY <1>3 DEF NewParser

-----------------------------------------------------------------------------
\* What is dropped leaves fewer parts, and takes none from those read.
LEMMA DropType ==
    ASSUME PieceType, unread' \in 0..unread, delivered' = delivered
    PROVE  unread' \in 0..Pieces /\ unread' + delivered' <= unread + delivered
<1>1. PICK n, u, v, d :
         n = Pieces /\ u = unread /\ v = unread' /\ d = delivered
  OBVIOUS
<1>2. n \in Nat /\ u \in 0..n /\ v \in 0..u /\ d \in 0..n
  BY <1>1, SizeAssumption DEF PieceType
<1>3. v \in 0..n /\ v + d <= u + d
  BY <1>2
<1>4. QED
  BY <1>1, <1>3

\* No part of a response is lost, but by a reset.
LEMMA PiecesKept ==
    ASSUME PositionType, PieceType, Sum, Next
    PROVE  PieceType' /\ Sum'
<1> USE SizeAssumption DEF MayDrop, GoTo, client, answer, server, IsError, PieceType, Sum
<1>1. CASE http_parser_create
  BY <1>1 DEF http_parser_create
<1>2. CASE read_http_request
  BY <1>2 DEF read_http_request
<1>3. CASE ReadFails
  BY <1>3 DEF ReadFails
<1>4. CASE on_method
  BY <1>4 DEF on_method, AtToken, Parsed, ParseUnchanged
<1>5. CASE on_url
  BY <1>5 DEF on_url, AtToken, Parsed, ParseUnchanged
<1>6. CASE on_header_field
  BY <1>6 DEF on_header_field, AtToken, Parsed, ParseUnchanged
<1>7. CASE on_header_value
  BY <1>7 DEF on_header_value, AtToken, Parsed, ParseUnchanged
<1>8. CASE on_body
  BY <1>8 DEF on_body, AtToken, Parsed, ParseUnchanged
<1>9. CASE on_message_complete
  BY <1>9 DEF on_message_complete, AtToken, Parsed, ParseUnchanged
<1>10. CASE ParseError
  BY <1>10 DEF ParseError
<1>11. CASE NullDereference
  BY <1>11 DEF NullDereference
<1>12. CASE http_parser_execute
  BY <1>12 DEF http_parser_execute
<1>13. CASE http_parser_get_request
  BY <1>13 DEF http_parser_get_request
<1>14. CASE GetRequestFails
  BY <1>14 DEF GetRequestFails
<1>15. CASE Options
  BY <1>15 DEF Options
<1>16. CASE NotFound
  BY <1>16 DEF NotFound
<1>17. CASE Handler
  BY <1>17 DEF Handler
<1>18. CASE http_build_response
  BY <1>18 DEF http_build_response, StartSend, StatusLine
<1>19. CASE BuildFails
  BY <1>19 DEF BuildFails
<1>20. CASE SendOversize
  BY <1>20 DEF SendOversize, StartSend
<1>21. CASE send_http_response
  BY <1>21 DEF send_http_response
<1>22. CASE SendEnds
  BY <1>22 DEF SendEnds
<1>23. CASE Free
  <2>1. /\ pc = "free" /\ pc' = "done" /\ peer' = peer /\ left' = left
        /\ got' = got /\ sent' = sent /\ delivered' = delivered
        /\ unread' \in 0..unread
        /\ ~(got < sent) => unread' = unread
    BY <1>23 DEF Free
  <2>2. got' = sent' => ~(got < sent)
    BY <2>1, Lengths
  <2>3. unread' \in 0..Pieces /\ unread' + delivered' <= unread + delivered
    BY <2>1, DropType
  <2>4. peer # "reset" => left = 0 /\ unread + delivered = Pieces
    BY <2>1
  <2>5. peer' # "reset" => left' = 0 /\ unread' + delivered' <= Pieces
    BY <2>1, <2>3, <2>4
  <2>6. peer' # "reset" /\ got' = sent' => unread' + delivered' = Pieces
    BY <2>1, <2>2, <2>4
  <2>7. QED
    BY <2>1, <2>3, <2>5, <2>6
<1>24. CASE Arrive
  <2>1. /\ sent' = sent + 1 /\ got' = got /\ pc' = pc /\ peer' = peer
        /\ left' = left /\ delivered' = delivered
        /\ pc # "done" => unread' = unread
        /\ unread' \in 0..unread
    BY <1>24 DEF Arrive
  <2>2. got' # sent'
    BY <2>1, Lengths
  <2>3. unread' \in 0..Pieces /\ unread' + delivered' <= unread + delivered
    BY <2>1, DropType
  <2>4. CASE pc = "done"
    <3>1. peer # "reset" => left = 0 /\ unread + delivered <= Pieces
      BY <2>4
    <3>2. peer' # "reset" => left' = 0 /\ unread' + delivered' <= Pieces
      <4>1. PICK a, b : a = unread + delivered /\ b = unread' + delivered'
        OBVIOUS
      <4>2. a \in Int /\ b \in Int /\ b <= a
        <5>1. /\ unread \in Int /\ delivered \in Int
              /\ unread' \in Int /\ delivered' \in Int
          BY <2>1, <2>3
        <5>2. a \in Int /\ b \in Int
          BY <4>1, <5>1
        <5>3. b <= a
          BY <2>3, <4>1, Zenon
        <5>4. QED
          BY <5>2, <5>3
      <4>3. peer # "reset" => b <= Pieces
        BY <3>1, <4>1, <4>2
      <4>4. QED
        BY <2>1, <3>1, <4>1, <4>3
    <3>3. QED
      BY <2>1, <2>2, <2>3, <2>4, <3>2
  <2>5. CASE pc # "done"
    BY <2>1, <2>3, <2>5
  <2>6. QED
    BY <2>4, <2>5
<1>25. CASE CloseSending
  BY <1>25 DEF CloseSending
<1>26. CASE Reset
  BY <1>26 DEF Reset
<1>27. CASE Read
  <2>1. /\ unread > 0 /\ unread' = unread - 1 /\ delivered' = delivered + 1
        /\ pc' = pc /\ peer' = peer /\ left' = left /\ got' = got
        /\ sent' = sent
    BY <1>27 DEF Read
  <2>2. unread' + delivered' = unread + delivered
    BY <2>1
  <2>3. pc \in {"send", "free", "done"}
    BY <2>1
  <2>4. unread + delivered <= Pieces
    \* once the client is gone it reads nothing
    BY <1>27, <2>3 DEF Read
  <2>5. unread' \in 0..Pieces /\ delivered' \in 0..Pieces
    BY <2>1, <2>4
  <2>6. QED
    BY <2>1, <2>2, <2>3, <2>5
<1>28. QED
  BY <1>1, <1>2, <1>3, <1>4, <1>5, <1>6, <1>7, <1>8, <1>9, <1>10, <1>11, <1>12, <1>13, <1>14, <1>15, <1>16, <1>17, <1>18, <1>19, <1>20, <1>21, <1>22, <1>23, <1>24, <1>25, <1>26, <1>27 DEF Next, Thread, Callback

\* What is answered has been decided on.
LEMMA DecidedKept ==
    ASSUME PositionType, Collected, Decided, ResponseType, Next
    PROVE  Decided'
<1> USE DEF GoTo, client, answer, server, IsError, Decided
<1>1. pos \in Nat
  BY Lengths
<1>2. CASE http_parser_create
  BY <1>2, <1>1 DEF http_parser_create
<1>3. CASE read_http_request
  BY <1>3, <1>1, NothingType DEF read_http_request, Collected
<1>4. CASE ReadFails
  BY <1>4, <1>1, ErrorTypes DEF ReadFails
<1>5. CASE on_method
  BY <1>5, <1>1 DEF on_method, AtToken, Parsed, ParseUnchanged
<1>6. CASE on_url
  BY <1>6, <1>1 DEF on_url, AtToken, Parsed, ParseUnchanged
<1>7. CASE on_header_field
  BY <1>7, <1>1 DEF on_header_field, AtToken, Parsed, ParseUnchanged
<1>8. CASE on_header_value
  BY <1>8, <1>1 DEF on_header_value, AtToken, Parsed, ParseUnchanged
<1>9. CASE on_body
  BY <1>9, <1>1 DEF on_body, AtToken, Parsed, ParseUnchanged
<1>10. CASE on_message_complete
  BY <1>10, <1>1 DEF on_message_complete, AtToken, Parsed, ParseUnchanged
<1>11. CASE ParseError
  BY <1>11, <1>1, ErrorTypes DEF ParseError
<1>12. CASE NullDereference
  BY <1>12, <1>1 DEF NullDereference
<1>13. CASE http_parser_execute
  BY <1>13, <1>1 DEF http_parser_execute
<1>14. CASE http_parser_get_request
  BY <1>14, <1>1 DEF http_parser_get_request
<1>15. CASE GetRequestFails
  BY <1>15, <1>1, ErrorTypes DEF GetRequestFails
<1>16. CASE Options
  BY <1>16, <1>1, NothingType DEF Options
<1>17. CASE NotFound
  BY <1>17, <1>1, ErrorTypes DEF NotFound
<1>18. CASE Handler
  <2>1. pc' = "build" /\ reply' = reply /\ pos' = pos
    BY <1>18 DEF Handler
  <2>2. CASE response' \in Errors(500) /\ outcome' = 500
    BY <2>1, <2>2, ErrorTypes
  <2>3. ASSUME NEW n \in Statuses, NEW fits \in BOOLEAN, outcome' = n,
               response' = [status |-> n, json |-> TRUE, fits |-> fits]
        PROVE  Decided'
    <3>1. response'.status = n /\ n # 0
      BY <2>3, SizeAssumption
    <3>2. QED
      BY <2>1, <2>3, <3>1
  <2>4. QED
    BY <1>18, <2>2, <2>3 DEF Handler
<1>19. CASE http_build_response
  BY <1>19, <1>1 DEF http_build_response, StartSend, StatusLine, ResponseType
<1>20. CASE BuildFails
  BY <1>20, <1>1 DEF BuildFails
<1>21. CASE SendOversize
  BY <1>21, <1>1, ErrorTypes DEF SendOversize, StartSend
<1>22. CASE send_http_response
  BY <1>22, <1>1 DEF send_http_response
<1>23. CASE SendEnds
  BY <1>23, <1>1 DEF SendEnds
<1>24. CASE Free
  BY <1>24, <1>1, NothingType DEF Free
<1>25. CASE Arrive
  BY <1>25, <1>1 DEF Arrive
<1>26. CASE CloseSending
  BY <1>26, <1>1 DEF CloseSending
<1>27. CASE Reset
  BY <1>27, <1>1 DEF Reset
<1>28. CASE Read
  BY <1>28, <1>1 DEF Read
<1>29. QED
  BY <1>2, <1>3, <1>4, <1>5, <1>6, <1>7, <1>8, <1>9, <1>10, <1>11, <1>12, <1>13, <1>14, <1>15, <1>16, <1>17, <1>18, <1>19, <1>20, <1>21, <1>22, <1>23, <1>24, <1>25, <1>26, <1>27, <1>28 DEF Next, Thread, Callback

\* A success that is sent has been decided on.
LEMMA SuccessKept ==
    ASSUME PositionType, Decided, SuccessIsDecided, ResponseType, Next
    PROVE  SuccessIsDecided'
<1> USE DEF GoTo, client, answer, server, IsError, Decided, SuccessIsDecided
<1>1. pos \in Nat
  BY Lengths
<1>2. CASE http_parser_create
  BY <1>2, <1>1 DEF http_parser_create
<1>3. CASE read_http_request
  BY <1>3, <1>1 DEF read_http_request
<1>4. CASE ReadFails
  BY <1>4, <1>1 DEF ReadFails
<1>5. CASE on_method
  BY <1>5, <1>1 DEF on_method, AtToken, Parsed, ParseUnchanged
<1>6. CASE on_url
  BY <1>6, <1>1 DEF on_url, AtToken, Parsed, ParseUnchanged
<1>7. CASE on_header_field
  BY <1>7, <1>1 DEF on_header_field, AtToken, Parsed, ParseUnchanged
<1>8. CASE on_header_value
  BY <1>8, <1>1 DEF on_header_value, AtToken, Parsed, ParseUnchanged
<1>9. CASE on_body
  BY <1>9, <1>1 DEF on_body, AtToken, Parsed, ParseUnchanged
<1>10. CASE on_message_complete
  BY <1>10, <1>1 DEF on_message_complete, AtToken, Parsed, ParseUnchanged
<1>11. CASE ParseError
  BY <1>11, <1>1 DEF ParseError
<1>12. CASE NullDereference
  BY <1>12, <1>1 DEF NullDereference
<1>13. CASE http_parser_execute
  BY <1>13, <1>1 DEF http_parser_execute
<1>14. CASE http_parser_get_request
  BY <1>14, <1>1 DEF http_parser_get_request
<1>15. CASE GetRequestFails
  BY <1>15, <1>1 DEF GetRequestFails
<1>16. CASE Options
  BY <1>16, <1>1 DEF Options
<1>17. CASE NotFound
  BY <1>17, <1>1 DEF NotFound
<1>18. CASE Handler
  BY <1>18, <1>1 DEF Handler
<1>19. CASE http_build_response
  BY <1>19, <1>1 DEF http_build_response, StartSend, StatusLine, ResponseType, Response
<1>20. CASE BuildFails
  BY <1>20, <1>1 DEF BuildFails
<1>21. CASE SendOversize
  BY <1>21, <1>1, ErrorTypes DEF SendOversize, StartSend
<1>22. CASE send_http_response
  BY <1>22, <1>1 DEF send_http_response
<1>23. CASE SendEnds
  BY <1>23, <1>1 DEF SendEnds
<1>24. CASE Free
  BY <1>24, <1>1 DEF Free
<1>25. CASE Arrive
  BY <1>25, <1>1 DEF Arrive
<1>26. CASE CloseSending
  BY <1>26, <1>1 DEF CloseSending
<1>27. CASE Reset
  BY <1>27, <1>1 DEF Reset
<1>28. CASE Read
  BY <1>28, <1>1 DEF Read
<1>29. QED
  BY <1>2, <1>3, <1>4, <1>5, <1>6, <1>7, <1>8, <1>9, <1>10, <1>11, <1>12, <1>13, <1>14, <1>15, <1>16, <1>17, <1>18, <1>19, <1>20, <1>21, <1>22, <1>23, <1>24, <1>25, <1>26, <1>27, <1>28 DEF Next, Thread, Callback

\* The response has its type.
LEMMA ResponseKept ==
    ASSUME ResponseType, Decided, Next
    PROVE  ResponseType'
<1> USE DEF GoTo, client, answer, server, IsError, ResponseType, Decided
<1>1. CASE http_parser_create
  BY <1>1 DEF http_parser_create
<1>2. CASE read_http_request
  BY <1>2 DEF read_http_request
<1>3. CASE ReadFails
  BY <1>3, ErrorTypes DEF ReadFails
<1>4. CASE on_method
  BY <1>4 DEF on_method, AtToken, Parsed, ParseUnchanged
<1>5. CASE on_url
  BY <1>5 DEF on_url, AtToken, Parsed, ParseUnchanged
<1>6. CASE on_header_field
  BY <1>6 DEF on_header_field, AtToken, Parsed, ParseUnchanged
<1>7. CASE on_header_value
  BY <1>7 DEF on_header_value, AtToken, Parsed, ParseUnchanged
<1>8. CASE on_body
  BY <1>8 DEF on_body, AtToken, Parsed, ParseUnchanged
<1>9. CASE on_message_complete
  BY <1>9 DEF on_message_complete, AtToken, Parsed, ParseUnchanged
<1>10. CASE ParseError
  BY <1>10, ErrorTypes DEF ParseError
<1>11. CASE NullDereference
  BY <1>11 DEF NullDereference
<1>12. CASE http_parser_execute
  BY <1>12 DEF http_parser_execute
<1>13. CASE http_parser_get_request
  BY <1>13 DEF http_parser_get_request
<1>14. CASE GetRequestFails
  BY <1>14, ErrorTypes DEF GetRequestFails
<1>15. CASE Options
  <2>1. [status |-> 204, json |-> FALSE, fits |-> TRUE] \in Response
    <3>1. 204 \in {0} \cup 200..599
      OBVIOUS
    <3>2. QED
      BY <3>1, ZenonT(40) DEF Response
  <2>2. QED
    BY <1>15, <2>1 DEF Options
<1>16. CASE NotFound
  BY <1>16, ErrorTypes DEF NotFound
<1>17. CASE Handler
  <2>1. reply' = reply
    BY <1>17 DEF Handler
  <2>2. CASE response' \in Errors(500) /\ outcome' = 500
    BY <2>1, <2>2, ErrorTypes
  <2>3. ASSUME NEW n \in Statuses, NEW fits \in BOOLEAN, outcome' = n,
               response' = [status |-> n, json |-> TRUE, fits |-> fits]
        PROVE  ResponseType'
    <3>1. n \in 200..599
      BY SizeAssumption
    <3>2. QED
      BY <2>1, <2>3, <3>1, RecordType, ZenonT(40)
  <2>4. QED
    BY <1>17, <2>2, <2>3 DEF Handler
<1>18. CASE http_build_response
  BY <1>18 DEF http_build_response, StartSend, StatusLine, Response
<1>19. CASE BuildFails
  BY <1>19 DEF BuildFails
<1>20. CASE SendOversize
  BY <1>20, ErrorTypes DEF SendOversize, StartSend
<1>21. CASE send_http_response
  BY <1>21 DEF send_http_response
<1>22. CASE SendEnds
  BY <1>22 DEF SendEnds
<1>23. CASE Free
  BY <1>23, NothingType DEF Free
<1>24. CASE Arrive
  BY <1>24 DEF Arrive
<1>25. CASE CloseSending
  BY <1>25 DEF CloseSending
<1>26. CASE Reset
  BY <1>26 DEF Reset
<1>27. CASE Read
  BY <1>27 DEF Read
<1>28. QED
  BY <1>1, <1>2, <1>3, <1>4, <1>5, <1>6, <1>7, <1>8, <1>9, <1>10, <1>11, <1>12, <1>13, <1>14, <1>15, <1>16, <1>17, <1>18, <1>19, <1>20, <1>21, <1>22, <1>23, <1>24, <1>25, <1>26, <1>27 DEF Next, Thread, Callback

\* The positions in the stream stay in order.
LEMMA PositionKept ==
    ASSUME PositionType, Collected, pc \in Labels, peer \in {"open", "closed", "reset"}, Next
    PROVE  PositionType' /\ pc' \in Labels /\ peer' \in {"open", "closed", "reset"}
<1> USE SizeAssumption DEF GoTo, client, answer, server, IsError, Collected, Labels, PositionType
<1>1. /\ Len(stream) \in Nat /\ sent \in Nat /\ got \in Nat /\ pos \in Nat
      /\ lost \in Nat /\ pos <= got /\ got <= sent /\ sent <= Len(stream)
  BY Lengths
<1>2. stream \in Streams
  BY DEF PositionType
<1>3. CASE http_parser_create
  BY <1>3, <1>1, <1>2 DEF http_parser_create
<1>4. CASE read_http_request
  BY <1>4, <1>1, <1>2 DEF read_http_request
<1>5. CASE ReadFails
  BY <1>5, <1>1, <1>2 DEF ReadFails
<1>6. CASE on_method
  BY <1>6, <1>1, <1>2 DEF on_method, AtToken, Parsed, ParseUnchanged
<1>7. CASE on_url
  BY <1>7, <1>1, <1>2 DEF on_url, AtToken, Parsed, ParseUnchanged
<1>8. CASE on_header_field
  BY <1>8, <1>1, <1>2 DEF on_header_field, AtToken, Parsed, ParseUnchanged
<1>9. CASE on_header_value
  BY <1>9, <1>1, <1>2 DEF on_header_value, AtToken, Parsed, ParseUnchanged
<1>10. CASE on_body
  BY <1>10, <1>1, <1>2 DEF on_body, AtToken, Parsed, ParseUnchanged
<1>11. CASE on_message_complete
  BY <1>11, <1>1, <1>2 DEF on_message_complete, AtToken, Parsed, ParseUnchanged
<1>12. CASE ParseError
  BY <1>12, <1>1, <1>2 DEF ParseError
<1>13. CASE NullDereference
  BY <1>13, <1>1, <1>2 DEF NullDereference
<1>14. CASE http_parser_execute
  BY <1>14, <1>1, <1>2 DEF http_parser_execute
<1>15. CASE http_parser_get_request
  BY <1>15, <1>1, <1>2 DEF http_parser_get_request
<1>16. CASE GetRequestFails
  BY <1>16, <1>1, <1>2 DEF GetRequestFails
<1>17. CASE Options
  BY <1>17, <1>1, <1>2 DEF Options
<1>18. CASE NotFound
  BY <1>18, <1>1, <1>2 DEF NotFound
<1>19. CASE Handler
  BY <1>19, <1>1, <1>2 DEF Handler
<1>20. CASE http_build_response
  BY <1>20, <1>1, <1>2 DEF http_build_response, StartSend, StatusLine
<1>21. CASE BuildFails
  BY <1>21, <1>1, <1>2 DEF BuildFails
<1>22. CASE SendOversize
  BY <1>22, <1>1, <1>2 DEF SendOversize, StartSend
<1>23. CASE send_http_response
  BY <1>23, <1>1, <1>2 DEF send_http_response
<1>24. CASE SendEnds
  BY <1>24, <1>1, <1>2 DEF SendEnds
<1>25. CASE Free
  BY <1>25, <1>1, <1>2 DEF Free
<1>26. CASE Arrive
  BY <1>26, <1>1, <1>2 DEF Arrive
<1>27. CASE CloseSending
  BY <1>27, <1>1, <1>2 DEF CloseSending
<1>28. CASE Reset
  BY <1>28, <1>1, <1>2 DEF Reset
<1>29. CASE Read
  BY <1>29, <1>1, <1>2 DEF Read
<1>30. QED
  BY <1>3, <1>4, <1>5, <1>6, <1>7, <1>8, <1>9, <1>10, <1>11, <1>12, <1>13, <1>14, <1>15, <1>16, <1>17, <1>18, <1>19, <1>20, <1>21, <1>22, <1>23, <1>24, <1>25, <1>26, <1>27, <1>28, <1>29 DEF Next, Thread, Callback

\* The parser and the request have their types.
LEMMA ParserKept ==
    ASSUME PositionType, ParserType, Collected, Next
    PROVE  /\ ParserType'
           /\ pc' \in {"execute", "get"} => ctx' \in Context
           /\ pc' = "dispatch" => request' \in Request
<1> USE DEF GoTo, client, answer, server, IsError, ParserType, Collected
<1>1. pos \in Nat
  BY Lengths
<1>2. ctx # None => ctx.body \in Seq(Nat) /\ Append(ctx.body, pos + 1) \in Seq(Nat)
  BY <1>1 DEF ParserType, Context
<1>3. ctx # None => /\ ctx.method \in Words /\ ctx.ofMethod \in Nat
                    /\ (ctx.url # None => ctx.url \in Token)
  BY DEF ParserType, Context
<1>4. CASE http_parser_create
  BY <1>4, <1>1, <1>2, <1>3, NewParserType DEF http_parser_create
<1>5. CASE read_http_request
  BY <1>5, <1>1, <1>2, <1>3 DEF read_http_request
<1>6. CASE ReadFails
  BY <1>6, <1>1, <1>2, <1>3 DEF ReadFails
<1>7. CASE on_method
  BY <1>7, <1>1, <1>2, <1>3, TokenType DEF on_method, AtToken, Parsed, ParseUnchanged, Context
<1>8. CASE on_url
  BY <1>8, <1>1, <1>2, <1>3, TokenType DEF on_url, AtToken, Parsed, ParseUnchanged, Context
<1>9. CASE on_header_field
  BY <1>9, <1>1, <1>2, <1>3, TokenType, WordAssumption DEF on_header_field, AtToken, Parsed, ParseUnchanged, Context
<1>10. CASE on_header_value
  BY <1>10, <1>1, <1>2, <1>3, TokenType DEF on_header_value, AtToken, Parsed, ParseUnchanged, Context, Headers
<1>11. CASE on_body
  BY <1>11, <1>1, <1>2, <1>3, TokenType DEF on_body, AtToken, Parsed, ParseUnchanged, Context
<1>12. CASE on_message_complete
  BY <1>12, <1>1, <1>2, <1>3, TokenType DEF on_message_complete, AtToken, Parsed, ParseUnchanged, Context
<1>13. CASE ParseError
  BY <1>13, <1>1, <1>2, <1>3 DEF ParseError
<1>14. CASE NullDereference
  BY <1>14, <1>1, <1>2, <1>3 DEF NullDereference
<1>15. CASE http_parser_execute
  BY <1>15, <1>1, <1>2, <1>3, WordAssumption DEF http_parser_execute, Context, llhttp_method_to_local, Methods
<1>16. CASE http_parser_get_request
  <2>1. ctx # None /\ ctx.url # None /\ ctx' = ctx /\ <<>> \in Seq(Nat)
    BY <1>16 DEF http_parser_get_request
  <2>2. \E body \in Seq(Nat) :
            request' = [method |-> ctx.method, ofMethod |-> ctx.ofMethod,
                        url |-> ctx.url, body |-> body]
    <3>1. PICK n \in 0..Len(ctx.body) :
             /\ UpToNul(ctx.body, n) \/ ("alloc" \in Faults /\ n = 0)
             /\ request' = [method |-> ctx.method, ofMethod |-> ctx.ofMethod,
                            url |-> ctx.url, body |-> SubSeq(ctx.body, 1, n)]
      BY <1>16, Zenon DEF http_parser_get_request
    <3>2. SubSeq(ctx.body, 1, n) \in Seq(Nat)
      BY <2>1, <1>2, <1>3
    <3>3. QED
      BY <3>1, <3>2, Zenon
  <2>3. \A body \in Seq(Nat) :
            [method |-> ctx.method, ofMethod |-> ctx.ofMethod,
             url |-> ctx.url, body |-> body] \in Request
    <3>1. ctx.method \in Words /\ ctx.ofMethod \in Nat /\ ctx.url \in Token
      BY <2>1, <1>3
    <3>2. QED
      BY <3>1, Zenon DEF Request
  <2>4. QED
    BY <1>16, <2>1, <2>2, <2>3 DEF http_parser_get_request
<1>17. CASE GetRequestFails
  BY <1>17, <1>1, <1>2, <1>3 DEF GetRequestFails
<1>18. CASE Options
  BY <1>18, <1>1, <1>2, <1>3 DEF Options
<1>19. CASE NotFound
  BY <1>19, <1>1, <1>2, <1>3 DEF NotFound
<1>20. CASE Handler
  BY <1>20, <1>1, <1>2, <1>3 DEF Handler
<1>21. CASE http_build_response
  BY <1>21, <1>1, <1>2, <1>3 DEF http_build_response, StartSend, StatusLine
<1>22. CASE BuildFails
  BY <1>22, <1>1, <1>2, <1>3 DEF BuildFails
<1>23. CASE SendOversize
  BY <1>23, <1>1, <1>2, <1>3 DEF SendOversize, StartSend
<1>24. CASE send_http_response
  BY <1>24, <1>1, <1>2, <1>3 DEF send_http_response
<1>25. CASE SendEnds
  BY <1>25, <1>1, <1>2, <1>3 DEF SendEnds
<1>26. CASE Free
  BY <1>26, <1>1, <1>2, <1>3 DEF Free
<1>27. CASE Arrive
  BY <1>27, <1>1, <1>2, <1>3 DEF Arrive
<1>28. CASE CloseSending
  BY <1>28, <1>1, <1>2, <1>3 DEF CloseSending
<1>29. CASE Reset
  BY <1>29, <1>1, <1>2, <1>3 DEF Reset
<1>30. CASE Read
  BY <1>30, <1>1, <1>2, <1>3 DEF Read
<1>31. QED
  BY <1>4, <1>5, <1>6, <1>7, <1>8, <1>9, <1>10, <1>11, <1>12, <1>13, <1>14, <1>15, <1>16, <1>17, <1>18, <1>19, <1>20, <1>21, <1>22, <1>23, <1>24, <1>25, <1>26, <1>27, <1>28, <1>29, <1>30 DEF Next, Thread, Callback

-----------------------------------------------------------------------------
\* What one callback stores of its token.
LEMMA Stored ==
    ASSUME PositionType, ParserType, Collected, Callback, pos' = pos + 1
    PROVE  /\ pc = "execute" /\ pc' = pc /\ pos < got /\ got' = got
           /\ stream' = stream /\ request' = request /\ ctx # None
           /\ Next1.part = "body" => ctx'.body = Append(ctx.body, pos + 1)
           /\ Next1.part # "body" => ctx'.body = ctx.body
           /\ Next1.part = "url" => ctx'.url_buf = Next1
           /\ Next1.part # "url" => ctx'.url_buf = ctx.url_buf
           /\ Next1.part = "end" => ctx'.url = ctx.url_buf
           /\ Next1.part # "end" => ctx'.url = ctx.url
<1> USE DEF Parsed, ParseUnchanged, client
<1>1. pc = "execute" /\ pos < got /\ ctx # None /\ ~ParseError /\ ~NullDereference
  <2>1. pos \in Nat
    BY Lengths
  <2>2. ~ParseError /\ ~NullDereference
    BY <2>1 DEF ParseError, NullDereference
  <2>3. QED
    BY <2>2 DEF Callback, on_method, on_url, on_header_field, on_header_value, on_body,
       on_message_complete, AtToken, Collected
<1>2. ctx \in Context /\ ctx = [f \in DOMAIN ctx |-> ctx[f]]
      /\ DOMAIN ctx = {"local", "llmethod", "ofMethod", "url_buf", "method", "url",
                       "body", "headers", "header_key", "parsing_header"}
  BY <1>1 DEF ParserType, Context
<1>3. CASE on_method
  BY <1>1, <1>2, <1>3 DEF on_method, AtToken
<1>4. CASE on_url
  BY <1>1, <1>2, <1>4 DEF on_url, AtToken
<1>5. CASE on_header_field
  BY <1>1, <1>2, <1>5 DEF on_header_field, AtToken
<1>6. CASE on_header_value
  BY <1>1, <1>2, <1>6 DEF on_header_value, AtToken
<1>7. CASE on_body
  BY <1>1, <1>2, <1>7 DEF on_body, AtToken
<1>8. CASE on_message_complete
  BY <1>1, <1>2, <1>8 DEF on_message_complete, AtToken
<1>9. QED
  BY <1>1, <1>3, <1>4, <1>5, <1>6, <1>7, <1>8 DEF Callback

\* So the body, the last URL and the request's URL are up to date.
LEMMA TokenKept ==
    ASSUME PositionType, ParserType, Collected, Callback, pos' = pos + 1
    PROVE  BodyKept' /\ LastUrl' /\ UrlEnded'
<1>1. /\ pos \in Nat /\ pos' = pos + 1 /\ pos < got /\ stream' = stream /\ ctx # None
      /\ pos + 1 \in 1..Len(stream) /\ Len(stream) \in Nat /\ pos' \in Nat
  BY Stored, Lengths, TokenType
<1>2. BodyKept /\ LastUrl /\ UrlEnded
  BY <1>1 DEF Collected
<1>3. ctx.body \in Seq(Nat)
  BY <1>1 DEF ParserType, Context
<1>4. BodyKept'
  <2>1. CASE Next1.part = "body"
    <3>1. ctx'.body = Append(ctx.body, pos + 1)
      BY <2>1, Stored
    <3>2. \A k \in DOMAIN ctx.body : k \in DOMAIN ctx'.body /\ ctx'.body[k] = ctx.body[k]
      BY <3>1, <1>3
    <3>3. Len(ctx.body) + 1 \in DOMAIN ctx'.body /\ ctx'.body[Len(ctx.body) + 1] = pos + 1
      BY <3>1, <1>3
    <3> DEFINE b == ctx.body
               t == ctx'.body
               n == Len(b)
    <3>4. /\ n \in Nat /\ DOMAIN b = 1..n /\ DOMAIN t = 1..(n + 1)
          /\ t[n + 1] = pos + 1
          /\ \A k \in 1..n : t[k] = b[k]
      BY <3>1, <3>2, <3>3, <1>3
    <3>5. /\ \A k \in 1..n : b[k] \in 1..pos /\ stream[b[k]].part = "body"
          /\ \A k, l \in 1..n : k < l => b[k] < b[l]
      BY <1>2, <3>4 DEF BodyKept
    <3>6. stream[pos + 1].part = "body"
      BY <2>1 DEF Next1
    <3> HIDE DEF b, t, n
    <3>7. /\ \A k \in DOMAIN t : t[k] \in 1..pos' /\ stream'[t[k]].part = "body"
          /\ \A k, l \in DOMAIN t : k < l => t[k] < t[l]
      <4>1. \A k \in 1..(n + 1) : k \in 1..n \/ k = n + 1
        BY <3>4
      <4>2. \A k \in 1..n : t[k] \in 1..pos /\ stream[t[k]].part = "body"
        BY <3>4, <3>5
      <4>3. \A k \in DOMAIN t : t[k] \in 1..pos' /\ stream'[t[k]].part = "body"
        BY <1>1, <3>4, <3>6, <4>1, <4>2
      <4>4. ASSUME NEW k \in DOMAIN t, NEW l \in DOMAIN t, k < l
            PROVE  t[k] < t[l]
        <5>1. k \in 1..n
          BY <3>4, <4>4
        <5>2. CASE l \in 1..n
          BY <3>4, <3>5, <4>4, <5>1, <5>2
        <5>3. CASE l = n + 1
          BY <1>1, <3>4, <4>2, <5>1, <5>3
        <5>4. QED
          BY <3>4, <4>1, <5>2, <5>3
      <4>5. QED
        BY <4>3, <4>4
    <3>8. \A i \in 1..pos' : stream'[i].part = "body" =>
             \E k \in DOMAIN ctx'.body : ctx'.body[k] = i
      BY <1>1, <1>2, <3>2, <3>3 DEF BodyKept
    <3>9. QED
      BY <3>7, <3>8 DEF BodyKept, t
  <2>2. CASE Next1.part # "body"
    <3>1. ctx'.body = ctx.body
      BY <2>2, Stored
    <3>2. QED
      BY <1>1, <1>2, <2>2, <3>1 DEF BodyKept, Next1
  <2>3. QED
    BY <2>1, <2>2
<1>5. LastUrl'
  <2>1. CASE Next1.part = "url"
    <3>1. ctx'.url_buf = stream[pos + 1] /\ stream[pos + 1].part = "url"
      BY <2>1, Stored DEF Next1
    <3>2. \A i \in 1..pos : pos + 1 \in (i + 1)..(pos + 1)
      BY <1>1
    <3>3. QED
      BY <1>1, <3>1, <3>2 DEF LastUrl
  <2>2. CASE Next1.part # "url"
    <3>1. ctx'.url_buf = ctx.url_buf /\ stream[pos + 1].part # "url"
      BY <2>2, Stored DEF Next1
    <3>2. QED
      BY <1>1, <1>2, <3>1 DEF LastUrl
  <2>3. QED
    BY <2>1, <2>2
<1>6. UrlEnded'
  <2>1. CASE Next1.part = "end"
    <3>1. /\ ctx'.url = ctx.url_buf
          /\ stream[pos + 1].part = "end"
      BY <2>1, Stored DEF Next1
    <3>2. WellFormed(stream) /\ stream \in Seq(Token) /\ pos + 1 \in DOMAIN stream
      BY <1>1, StreamAssumption DEF PositionType
    <3>3. PICK j \in 1..(pos + 1) :
             /\ stream[j].part = "url"
             /\ stream[j].of = stream[pos + 1].of
             /\ \A k \in (j + 1)..(pos + 1) : stream[k].part # "url"
      BY <3>1, <3>2 DEF WellFormed
    <3>4. j \in 1..pos
      BY <1>1, <3>1, <3>3
    <3>5. ctx.url_buf = stream[j]
      <4>1. \A k \in (j + 1)..pos : stream[k].part # "url"
        BY <1>1, <3>3, <3>4
      <4>2. QED
        BY <1>2, <3>3, <3>4, <4>1 DEF LastUrl
    <3>6. pos + 1 \in 1..pos'
      BY <1>1
    <3>7. QED
      BY <1>1, <3>1, <3>3, <3>5, <3>6 DEF UrlEnded
  <2>2. CASE Next1.part # "end"
    <3>1. ctx'.url = ctx.url
      BY <2>2, Stored
    <3>2. \A i \in 1..pos : i \in 1..pos'
      BY <1>1
    <3>3. QED
      BY <1>1, <1>2, <3>1, <3>2 DEF UrlEnded
  <2>3. QED
    BY <2>1, <2>2
<1>7. QED
  BY <1>4, <1>5, <1>6

\* The parser keeps what it has been given until it is freed.
LEMMA CollectedKept ==
    ASSUME PositionType, ParserType, Collected, Next
    PROVE  Collected'
<1>1. pc' \in {"execute", "get"} => ctx' # None
  BY ParserKept, NoneApart
<1>2. CASE Callback /\ pos' = pos + 1
  BY <1>1, <1>2, Stored, TokenKept DEF Collected
<1>3. CASE http_parser_create
  <2>1. /\ pos' = 0 /\ got' = 0 /\ pc' = "recv"
    BY <1>3 DEF http_parser_create, GoTo, Collected
  <2>2. ctx' # None => ctx'.url = None /\ ctx'.body = <<>>
    <3>1. \A b \in BOOLEAN : NewParser(b).url = None /\ NewParser(b).body = <<>>
      BY DEF NewParser
    <3>2. QED
      BY <1>3, <3>1 DEF http_parser_create
  <2>3. QED
    BY <2>1, <2>2 DEF Collected, BodyKept, LastUrl, UrlEnded
<1>4. CASE Free
  BY <1>4 DEF Free, GoTo, Collected
<1>5. CASE http_parser_execute
  <2>1. ctx \in Context /\ ctx # None /\ pos = got
    BY <1>5, NoneApart DEF http_parser_execute, GoTo, Collected, ParserType
  <2>2. /\ ctx'.body = ctx.body
        /\ ctx'.url = ctx.url
        /\ ctx'.url_buf = ctx.url_buf
    BY <1>5, <2>1 DEF http_parser_execute, Context
  <2>3. pos' = pos /\ got' = got /\ stream' = stream /\ pc' = "get"
    BY <1>5 DEF http_parser_execute, GoTo, client
  <2>4. QED
    BY <1>1, <2>1, <2>2, <2>3 DEF Collected, BodyKept, LastUrl, UrlEnded
<1>6. CASE /\ ~(Callback /\ pos' = pos + 1)
           /\ ~http_parser_create /\ ~Free /\ ~http_parser_execute
  <2>1. pos' = pos /\ stream' = stream /\ ctx' = ctx
    BY <1>6 DEF Next, Thread, Callback, read_http_request, ReadFails, on_method,
       on_url, on_header_field, on_header_value, on_body, on_message_complete, ParseError,
       NullDereference, http_parser_get_request, GetRequestFails,
       Options, NotFound, Handler, http_build_response, BuildFails, SendOversize,
       send_http_response, SendEnds, Arrive, CloseSending, Reset, Read,
       Parsed, client, server
  <2>2. (BodyKept /\ LastUrl /\ UrlEnded)' <=> BodyKept /\ LastUrl /\ UrlEnded
    BY <2>1 DEF BodyKept, LastUrl, UrlEnded
  <2>3. pc' \in {"create", "recv"} => pc' = pc /\ got' = got
    BY <1>6 DEF Next, Thread, Callback, read_http_request, ReadFails, on_method,
       on_url, on_header_field, on_header_value, on_body, on_message_complete, ParseError,
       NullDereference, http_parser_get_request, GetRequestFails,
       Options, NotFound, Handler, http_build_response, BuildFails, SendOversize,
       send_http_response, SendEnds, Arrive, CloseSending, Reset, Read,
       Parsed, server, GoTo
  <2>4. pc' = "get" => pc' = pc /\ got' = got
    BY <1>6 DEF Next, Thread, Callback, read_http_request, ReadFails, on_method,
       on_url, on_header_field, on_header_value, on_body, on_message_complete, ParseError,
       NullDereference, http_parser_get_request, GetRequestFails,
       Options, NotFound, Handler, http_build_response, BuildFails, SendOversize,
       send_http_response, SendEnds, Arrive, CloseSending, Reset, Read,
       Parsed, server, GoTo
  <2>5. pc' = "dispatch" => request' # None
    <3>1. CASE http_parser_get_request
      BY <3>1, ParserKept, NoneApart DEF http_parser_get_request, Request
    <3>2. CASE ~http_parser_get_request
      BY <1>6, <3>2 DEF Collected, Next, Thread, Callback, read_http_request, ReadFails, on_method,
       on_url, on_header_field, on_header_value, on_body, on_message_complete, ParseError,
       NullDereference, GetRequestFails,
       Options, NotFound, Handler, http_build_response, BuildFails, SendOversize,
       send_http_response, SendEnds, Arrive, CloseSending, Reset, Read,
       Parsed, server, GoTo
    <3>3. QED
      BY <3>1, <3>2
  <2>6. QED
    BY <1>1, <2>1, <2>2, <2>3, <2>4, <2>5 DEF Collected
<1>7. QED
  BY <1>2, <1>3, <1>4, <1>5, <1>6

\* A request is made of a message that has ended, and of all its pieces.
LEMMA WholeKept ==
    ASSUME PositionType, ParserType, Collected, WholeRequest, Next
    PROVE  WholeRequest'
<1>1. stream' = stream
  BY DEF Next, Thread, Callback, http_parser_create, read_http_request, ReadFails, on_method,
     on_url, on_header_field, on_header_value, on_body, on_message_complete,
     ParseError, NullDereference, http_parser_execute, http_parser_get_request,
     GetRequestFails, Options, NotFound, Handler, http_build_response, BuildFails,
     SendOversize, send_http_response, SendEnds, Free, Arrive, CloseSending, Reset, Read,
     ParseUnchanged, client
<1>2. CASE http_parser_get_request
  <2>1. /\ ctx # None /\ ctx.url # None /\ pos = got /\ got' = got
        /\ UrlEnded /\ BodyKept
    BY <1>2 DEF http_parser_get_request, GoTo, Collected
  <2>2. PICK e \in 1..got : stream[e].part = "end" /\ stream[e].of = ctx.url.of
    BY <2>1 DEF UrlEnded
  <2>3. PICK n \in 0..Len(ctx.body) :
           /\ UpToNul(ctx.body, n) \/ ("alloc" \in Faults /\ n = 0)
           /\ request' = [method |-> ctx.method, ofMethod |-> ctx.ofMethod,
                          url |-> ctx.url, body |-> SubSeq(ctx.body, 1, n)]
    BY <1>2, Zenon DEF http_parser_get_request
  <2>6. /\ request'.url = ctx.url
        /\ request'.body = SubSeq(ctx.body, 1, n)
    BY <2>3
  <2>7. ctx.body \in Seq(Nat)
    BY <2>1 DEF ParserType, Context
  <2>8. /\ DOMAIN ctx.body = 1..Len(ctx.body) /\ Len(ctx.body) \in Nat
        /\ DOMAIN request'.body = 1..n
        /\ \A k \in 1..n : request'.body[k] = ctx.body[k]
    BY <2>6, <2>7
  <2>9. CASE "alloc" \in Faults /\ n = 0
    <3>1. request'.body = <<>>
      BY <2>6, <2>7, <2>9
    <3>2. QED
      BY <1>1, <2>1, <2>2, <2>6, <2>9, <3>1 DEF WholeRequest
  <2>4. ASSUME NEW i \in 1..Len(stream), stream[i].part = "body",
               stream[i].of = ctx.url.of
        PROVE  \E k \in DOMAIN ctx.body : ctx.body[k] = i
    <3>1. WellFormed(stream) /\ stream \in Seq(Token)
      BY StreamAssumption DEF PositionType
    <3>2. e \in 1..Len(stream)
      BY Lengths
    <3>3. i <= e
      BY <2>2, <2>4, <3>1, <3>2 DEF WellFormed
    <3>4. i \in 1..pos
      BY <2>1, <3>2, <3>3, Lengths
    <3>5. QED
      BY <2>1, <2>4, <3>4 DEF BodyKept
  <2>10. ASSUME UpToNul(ctx.body, n),
                NEW i \in 1..Len(stream), stream[i].part = "body",
                stream[i].of = ctx.url.of
         PROVE  \/ \E k \in DOMAIN request'.body : request'.body[k] = i
                \/ \E j \in 1..i : stream[j].part = "body" /\ HasNul(j)
    <3>1. PICK k \in DOMAIN ctx.body : ctx.body[k] = i
      BY <2>4, <2>10
    <3>2. CASE k \in 1..n
      BY <2>8, <3>1, <3>2
    <3>3. CASE k > n
      <4>1. n + 1 \in DOMAIN ctx.body /\ n < Len(ctx.body)
        BY <2>8, <3>1, <3>3
      <4>2. HasNul(ctx.body[n + 1])
        BY <2>10, <4>1 DEF UpToNul
      <4>3. /\ ctx.body[n + 1] \in 1..pos
            /\ stream[ctx.body[n + 1]].part = "body"
            /\ n + 1 < k => ctx.body[n + 1] < ctx.body[k]
        BY <2>1, <3>1, <4>1 DEF BodyKept
      <4>4. n + 1 = k \/ n + 1 < k
        BY <2>8, <3>1, <3>3
      <4>5. ctx.body[n + 1] \in 1..i
        BY <3>1, <4>3, <4>4, Lengths
      <4>6. QED
        BY <4>2, <4>3, <4>5
    <3>4. QED
      BY <2>8, <3>1, <3>2, <3>3
  <2>5. QED
    <3>1. CASE UpToNul(ctx.body, n)
      <4>1. \A i \in PiecesOf(ctx.url.of) :
              \/ \E k \in DOMAIN request'.body : request'.body[k] = i
              \/ \E j \in 1..i : stream[j].part = "body" /\ HasNul(j)
        BY <2>10, <3>1 DEF PiecesOf
      <4>2. PICK m : m = ctx.url.of
        OBVIOUS
      <4>3. PiecesOf(m)' = PiecesOf(m) /\ request'.url.of = m
        BY <1>1, <2>6, <4>2 DEF PiecesOf
      <4>4. QED
        BY <1>1, <2>1, <2>2, <2>6, <4>1, <4>2, <4>3 DEF WholeRequest, HasNul
    <3>2. QED
      BY <2>3, <2>9, <3>1
<1>3. CASE ~http_parser_get_request
  <2>1. got \in Nat /\ got' \in Nat /\ got <= got'
    <3>1. CASE read_http_request
      BY <3>1, Lengths, SizeAssumption DEF read_http_request, Collected
    <3>2. CASE ~read_http_request
      <4>1. got' = got
        BY <1>3, <3>2 DEF Next, Thread, Callback, http_parser_create, Free, ReadFails, on_method,
       on_url, on_header_field, on_header_value, on_body, on_message_complete, ParseError,
       NullDereference, http_parser_execute, GetRequestFails,
       Options, NotFound, Handler, http_build_response, BuildFails, SendOversize,
       send_http_response, SendEnds, Arrive, CloseSending, Reset, Read,
       ParseUnchanged, server
      <4>2. QED
        BY <4>1, Lengths
    <3>3. QED
      BY <3>1, <3>2
  <2>2. request' \in {request, None}
    BY <1>3 DEF Next, Thread, Callback, http_parser_create, read_http_request, ReadFails,
       on_method, on_url, on_header_field, on_header_value, on_body, on_message_complete,
       ParseError, NullDereference, http_parser_execute, GetRequestFails, Options,
       NotFound, Handler, http_build_response, BuildFails, SendOversize,
       send_http_response, SendEnds, Free, Arrive, CloseSending, Reset, Read,
       ParseUnchanged, server
  <2>3. QED
    BY <1>1, <2>1, <2>2 DEF WholeRequest, PiecesOf, HasNul
<1>4. QED
  BY <1>2, <1>3

-----------------------------------------------------------------------------
LEMMA Initial == Init => Invariant
<1>1. SUFFICES ASSUME Init
      PROVE  Invariant
  OBVIOUS
<1>2. PositionType /\ ParserType
  <2>1. stream \in Streams /\ stream \in Seq(Token)
    BY <1>1, StreamAssumption DEF Init
  <2>2. 0 \in 0..Len(stream) /\ 0 \in 0..0
    BY <2>1
  <2>3. QED
    BY <1>1, <2>1, <2>2 DEF Init, PositionType, ParserType
<1>3. ResponseType
  BY <1>1, NothingType DEF Init, ResponseType
<1>4. PieceType
  BY <1>1, SizeAssumption DEF Init, PieceType
<1>5. Collected /\ WholeRequest
  BY <1>1 DEF Init, Collected, WholeRequest
<1>6. Decided /\ SuccessIsDecided
  BY <1>1, NothingType DEF Init, Decided, SuccessIsDecided
<1>7. Sum
  BY <1>1 DEF Init, Sum
<1>8. QED
  BY <1>1, <1>2, <1>3, <1>4, <1>5, <1>6, <1>7 DEF Init, Invariant, TypeOK, Labels

LEMMA Inductive == Invariant /\ [Next]_conn => Invariant'
<1>1. SUFFICES ASSUME Invariant, [Next]_conn
      PROVE  Invariant'
  OBVIOUS
<1>2. CASE Next
  BY <1>1, <1>2, PiecesKept, DecidedKept, SuccessKept, ResponseKept, PositionKept, ParserKept,
     CollectedKept, WholeKept DEF Invariant, TypeOK
<1>3. CASE UNCHANGED conn
  BY <1>1, <1>3, SMTT(40) DEF conn, client, answer, Invariant, TypeOK, PositionType, ParserType,
     ResponseType, PieceType, Collected, BodyKept, LastUrl, UrlEnded, WholeRequest,
     PiecesOf, HasNul, Decided, SuccessIsDecided, Sum
<1>4. QED
  BY <1>1, <1>2, <1>3

\* Types are kept.
THEOREM TypeCorrect == Spec => []TypeOK
<1>1. Invariant => TypeOK
  BY DEF Invariant
<1>2. QED
  BY Initial, Inductive, <1>1, PTL DEF Spec

\* However a stream of messages is cut, no handler runs on half a request.
THEOREM NoHalfRequest == Spec => []WholeRequest
<1>1. Invariant => WholeRequest
  BY DEF Invariant
<1>2. QED
  BY Initial, Inductive, <1>1, PTL DEF Spec

\* A success is sent only when a handler, or OPTIONS, has decided on it.
THEOREM NoFalseSuccess == Spec => []SuccessIsDecided
<1>1. Invariant => SuccessIsDecided
  BY DEF Invariant
<1>2. QED
  BY Initial, Inductive, <1>1, PTL DEF Spec

\* Who is there at the end, and has sent no more than was read, has the whole
\* response.
THEOREM WholeResponse == Spec => []AnsweredWhole
<1>1. Invariant => AnsweredWhole
  BY DEF Invariant, TypeOK, PieceType, Sum, AnsweredWhole
<1>2. QED
  BY Initial, Inductive, <1>1, PTL DEF Spec

=============================================================================
