---------------------------- MODULE MCNestedQuery ----------------------------
(***************************************************************************)
(* An instance of NestedQuery for TLC.  The JSON nodes are named by their  *)
(* JSON, with bare words for strings.                                      *)
(***************************************************************************)
EXTENDS NestedProperties, TLC

CONSTANTS p, r, q, a, b, empty, long, short, text

MCObjPtr == {p, r, "o1", "o2", "o3", "o4"}
MCSetPtr == {q, "s1", "s2", "s3", "s4"}
MCFresh == [i \in 1..4 |->
               [object |-> <<"o1", "o2", "o3", "o4">>[i],
                array  |-> <<"s1", "s2", "s3", "s4">>[i]]]
MCNames == {a, b}
MCRaw == {Null, short, text, long}
MCKeys == {a, b, empty, long}
MCKeyLen == [k \in MCKeys |-> CASE k = a -> 1 [] k = b -> 2 [] k = empty -> 0
                                [] k = long -> 3]
\* " (in member '')" has one character here, and so have an element's place and
\* each reason; of the places of members, one fills the first buffer, two or
\* three need not fit.
MCReasonLen == [c \in Causes |-> 1]

\* A reference has 4 bytes; there is a text shorter than that, one of the
\* limit, and one that is a byte longer.
MCSize == [v \in MCRaw \cup MCObjPtr \cup MCSetPtr |->
              CASE v = Null -> 1 [] v = short -> 2 [] v = text -> 5
                [] v = long -> 6 [] OTHER -> 4]

\* p refers to itself and to a set; r holds what is no reference.
MCInitDb == [obj |-> [EmptyDb.obj EXCEPT ![p] = [n \in MCNames |->
                                                   IF n = a THEN p ELSE q],
                                         ![r] = [n \in MCNames |->
                                                   IF n = a THEN long ELSE Null]],
             set |-> [EmptyDb.set EXCEPT ![q] = {short}]]

-----------------------------------------------------------------------------
Of(key, node) == [key |-> key, node |-> node]
El(node) == Of(a, node)

Tree ==
    [n \in {"{}", "[]"} |-> <<>>]
    @@ ("{a:1}" :> <<Of(a, "1")>>)
    @@ ("{b:x}" :> <<Of(b, "x")>>)
    @@ ("{a:X,b:null}" :> <<Of(a, "X"), Of(b, "null")>>)
    @@ ("{a:{},b:[]}" :> <<Of(a, "{}"), Of(b, "[]")>>)
    @@ ("{a:1,b:{b:x}}" :> <<Of(a, "1"), Of(b, "{b:x}")>>)
    @@ ("{b:{a:1}}" :> <<Of(b, "{a:1}")>>)
    @@ ("{a:{b:{a:1}}}" :> <<Of(a, "{b:{a:1}}")>>)
    @@ ("{b:{a:{b:{a:1}}}}" :> <<Of(b, "{a:{b:{a:1}}}")>>)
    @@ ("{a:{a:{b:{a:1}}}}" :> <<Of(a, "{a:{b:{a:1}}}")>>)
    @@ ("[{b:{'':1}}]" :> <<El("{b:{'':1}}")>>)
    @@ ("{b:{'':1}}" :> <<Of(b, "{'':1}")>>)
    @@ ("{a:x,a:1}" :> <<Of(a, "x"), Of(a, "1")>>)
    @@ ("{a:{b:x},a:1}" :> <<Of(a, "{b:x}"), Of(a, "1")>>)
    @@ ("{'':1}" :> <<Of(empty, "1")>>)
    @@ ("{a:1,b:{'':1}}" :> <<Of(a, "1"), Of(b, "{'':1}")>>)
    @@ ("{long:{}}" :> <<Of(long, "{}")>>)
    @@ ("[x,1,x]" :> <<El("x"), El("1"), El("x")>>)
    @@ ("[[],{a:1},{a:1}]" :> <<El("[]"), El("{a:1}"), El("{a:1}")>>)
    @@ ("{a:1,b:[x,1,x]}" :> <<Of(a, "1"), Of(b, "[x,1,x]")>>)
    @@ ("[[x,1,x]]" :> <<El("[x,1,x]")>>)
    @@ ("[1,[[x,1,x]]]" :> <<El("1"), El("[[x,1,x]]")>>)
    @@ ("[x,[1,[[x,1,x]]]]" :> <<El("x"), El("[1,[[x,1,x]]]")>>)
    @@ ("[1,{'':1}]" :> <<El("1"), El("{'':1}")>>)

Scalars == "1" :> short @@ "x" :> text @@ "X" :> long @@ "null" :> Null

MCNodes == DOMAIN Tree \cup DOMAIN Scalars
Arrays == {"[]", "[x,1,x]", "[[],{a:1},{a:1}]", "[[x,1,x]]", "[1,[[x,1,x]]]",
           "[x,[1,[[x,1,x]]]]", "[1,{'':1}]", "[{b:{'':1}}]"}
MCType == [n \in MCNodes |-> IF n \in DOMAIN Scalars THEN "scalar"
                             ELSE IF n \in Arrays THEN "array" ELSE "object"]
MCText == [n \in MCNodes |-> IF n \in DOMAIN Scalars THEN Scalars[n] ELSE Null]
MCKids == [n \in MCNodes |-> IF n \in DOMAIN Tree THEN Tree[n] ELSE <<>>]

MCRequests ==
    [route: {"object"}, body: {n \in MCNodes : MCType[n] = "object"},
     shared: BOOLEAN]
    \cup [route: {"array"}, body: {n \in MCNodes : MCType[n] = "array"},
          shared: BOOLEAN]
    \cup [route: {"object", "array"}, body: {None, "1", "{}", "[]"},
          shared: {FALSE}]

Whole(root, segments) == [whole |-> TRUE, root |-> root, segments |-> segments]

MCPaths ==
    {Whole("o1", s) : s \in {<<a>>, <<b>>, <<a, b>>, <<b, a>>, <<b, b>>,
                             <<a, a>>, <<a, b, a>>, <<b, a, b>>}}
    \cup {Whole(p, s) : s \in {<<>>, <<Blank>>, <<a, Blank>>, <<b>>, <<b, a>>,
                               <<a, a, a>>, <<a, a, a, a>>, <<a, a, a, Blank>>,
                               <<a, a, a, a, Blank>>}}
    \cup {Whole(r, s) : s \in {<<a>>, <<b>>, <<a, b>>, <<b, a>>}}
    \cup {Whole(q, <<a>>), Whole(None, <<a>>),
          [Whole(None, <<a>>) EXCEPT !.whole = FALSE]}

=============================================================================
