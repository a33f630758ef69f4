----------------------------- MODULE MCHttpConn -----------------------------
(***************************************************************************)
(* Instances of HttpConn for TLC: one message or two in a row, with and    *)
(* without headers and bodies, and what may be wrong with them.            *)
(***************************************************************************)
EXTENDS HttpConn

Piece(m, part, what) == [part |-> part, of |-> m, what |-> what, long |-> FALSE]
Long(token) == [token EXCEPT !.long = TRUE]

Line(m, method, url) == <<Piece(m, "method", method), Piece(m, "url", url)>>
Header(m, name) == <<Piece(m, "field", name), Piece(m, "value", "")>>
Body(m, n) == [i \in 1..n |-> Piece(m, "body", "")]
End(m) == <<Piece(m, "end", "")>>
Junk(m) == <<Piece(m, "junk", "")>>

Get(m)  == Line(m, "GET", "/a") \o End(m)
Post(m) == Line(m, "POST", "/b") \o Header(m, "Content-Length") \o Body(m, 2) \o End(m)

\* A body with a NUL in it, of a message without headers.
PostNul(m) ==
    Line(m, "POST", "/b") \o <<Piece(m, "body", ""), Piece(m, "body", "nul"),
                              Piece(m, "body", "")>> \o End(m)

MCStreams ==
    {Get(1), Post(1), PostNul(1), PostNul(1) \o Post(2),
     Line(1, "OPTIONS", "/b") \o Header(1, "Host") \o End(1),
     Line(1, "DELETE", "/b") \o End(1),         \* no such route
     Line(1, "LINK", "/a") \o End(1),           \* a method the server has not
     Line(1, "GET", "/a") \o Junk(1),
     <<Piece(1, "method", "GET"), Long(Piece(1, "url", "/a"))>> \o End(1),
     Line(1, "GET", "/a") \o Header(1, "Host") \o Header(1, "Host") \o End(1),
     Line(1, "GET", "/a") \o <<Long(Piece(1, "field", "X"))>>,
     Post(1) \o Get(2), Get(1) \o Post(2), Post(1) \o Post(2),
     Get(1) \o Junk(2)}

MCWords ==
    Methods \cup Headers \cup {"", "other", "nul", "LINK", "/a", "/b", "X"}
MCRoutes == {<<"GET", "/a">>, <<"POST", "/b">>}
MCStatuses == {200, 404}

=============================================================================
