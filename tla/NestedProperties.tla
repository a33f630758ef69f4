-------------------------- MODULE NestedProperties ---------------------------
(***************************************************************************)
(* What an init and a query have to do with each other, said of the JSON   *)
(* tree as a whole: reference definitions that go through the tree level   *)
(* by level, and know no stack, no buffers and no transactions.            *)
(***************************************************************************)
EXTENDS NestedQuery, FiniteSetsExt

KidsOf(node) ==
    IF IsNested(node) THEN {Kids[node][i] : i \in DOMAIN Kids[node]} ELSE {}

\* The nodes at each depth under a body, as far as a tree may reach.
Levels(body) ==
    LET level[n \in 0..(NestMax + 1)] ==
            IF n = 0 THEN {body}
            ELSE {k.node : k \in UNION {KidsOf(node) : node \in level[n - 1]}}
    IN level

\* What an init is documented to accept.
Acceptable ==
    /\ request.body # None
    /\ Type[request.body] = request.route
    /\ \A n \in 0..(NestMax + 1) : \A node \in Levels(request.body)[n] :
          /\ IsNested(node) => n <= NestMax
          /\ Type[node] = "object" => \A k \in KidsOf(node) : k.key \in Names

RepeatsKey(node) ==
    /\ Type[node] = "object"
    /\ \E i, j \in DOMAIN Kids[node] : i # j /\ Kids[node][i].key = Kids[node][j].key

KeysRepeat(body) ==
    \E n \in 0..(NestMax + 1) : \E node \in Levels(body)[n] : RepeatsKey(node)

\* The kid that a key of an object stands for: the last one.
Meant(node, key) ==
    Kids[node][Max({i \in DOMAIN Kids[node] : Kids[node][i].key = key})].node

HasKey(node, key) == \E k \in KidsOf(node) : k.key = key

\* The members are those of the object at the node; image[k] are the values
\* that stand for its kid k.
IsObject(members, node, image) ==
    \A n \in Names : IF HasKey(node, n) THEN members[n] \in image[Meant(node, n)]
                     ELSE members[n] = None

\* The elements are those of the array at the node: equal scalars are one
\* element, nested values are one each.
IsArray(elements, node, image) ==
    LET scalars == {k \in KidsOf(node) : ~IsNested(k.node)}
        nested == {i \in DOMAIN Kids[node] : IsNested(Kids[node][i].node)}
    IN /\ \A k \in KidsOf(node) : \E v \in elements : v \in image[k.node]
       /\ \A v \in elements : \E k \in KidsOf(node) : v \in image[k.node]
       /\ Cardinality(elements) =
             Cardinality({Text[k.node] : k \in scalars}) + Cardinality(nested)

\* The values that in db stand for each node, if it is no higher than given.
Images(db) ==
    LET image[height \in 0..(NestMax + 1)] ==
            [node \in Nodes |->
                IF ~IsNested(node) THEN {Text[node]}
                ELSE IF height = 0 THEN {}
                ELSE IF Type[node] = "object"
                     THEN {p \in ObjPtr : IsObject(db.obj[p], node, image[height - 1])}
                     ELSE {p \in SetPtr : IsArray(db.set[p], node, image[height - 1])}]
    IN image

-----------------------------------------------------------------------------
Accepted == pc = "done" /\ answer.status = 201

\* What the transaction holds after a 201 is the tree that was sent: encode and
\* put, level by level, lose nothing and mix nothing up, and what was stored
\* before is as it was.
StoredIsSent ==
    Accepted =>
        /\ answer.ptr \in Images(view)[NestMax + 1][request.body]
        /\ ~request.shared => store = view
        /\ \A p \in ObjPtr : InitDb.obj[p] # NoMembers => view.obj[p] = InitDb.obj[p]
        /\ \A p \in SetPtr : InitDb.set[p] # {} => view.set[p] = InitDb.set[p]

\* Whether a tree is refused depends on the tree alone and on all of it: on its
\* keys and its height, not on the order in which its nodes are met.  The one
\* 400 that says nothing of the tree is that of a parser without memory.
VerdictFitsTheTree ==
    pc = "done" =>
        /\ answer.status = 201 => Acceptable
        /\ answer.status = 400 => ~Acceptable \/ cause = "parse"

\* The kids of a node that a message calls by the place.
KidsAt(node, place) ==
    {Kids[node][i] : i \in
        {j \in DOMAIN Kids[node] :
            place = IF Type[node] = "array" THEN [element |-> j - 1]
                    ELSE [member |-> Kids[node][j].key]}}

\* Where the places passed lead to from the body, outermost first.
LedTo ==
    LET led[n \in 0..Len(trail)] ==
            IF n = 0 THEN {request.body}
            ELSE {k.node : k \in UNION {KidsAt(node, trail[Len(trail) + 1 - n]) :
                                           node \in led[n - 1]}}
    IN led

\* The places a failure has been passed through are the way from the body to
\* the node that is at fault.
TrailLeads ==
    /\ trail # <<>>
    /\ \E node \in LedTo[Len(trail) - 1] : \E k \in KidsAt(node, trail[1]) :
          IF cause = "name" THEN k.key \notin Names
          ELSE IsNested(k.node) /\ Len(trail) > NestMax

\* The message has the innermost places of the way, as many as its first buffer
\* holds, and then the place in the body, if the second one holds that too.
MessageShows(inner, body) ==
    /\ message.places = SubSeq(trail, 1, inner)
                           \o (IF body THEN <<trail[Len(trail)]>> ELSE <<>>)
    /\ Len(trail) > 1 => inner >= 1
    /\ inner < Len(trail) - 1 => message.length >= TmpMax
    /\ ~body => message.length = ReplyMax

\* An error about a name or about depth names the place of the node that has
\* it, and gives the way there, innermost place first.  However long the way,
\* what is lost is never the place itself, nor anything while there is room:
\* first the outer levels short of the body, then that of the body.
ErrorNamesThePlace ==
    pc = "done" /\ cause \in {"name", "depth"} =>
        /\ TrailLeads
        /\ \E inner \in 0..(Len(trail) - 1), body \in BOOLEAN :
              MessageShows(inner, body)

\* Every entity an init has made can be reached from the pointer it answers:
\* each is referred to by one made before it.  This needs keys that do not
\* repeat: the value of an earlier equal key stays behind, out of reach.
NothingOrphaned ==
    Accepted /\ ~KeysRepeat(request.body) =>
        \A i \in 2..made : \E j \in 1..(i - 1) :
            LET refs == {Fresh[i].object, Fresh[i].array}
            IN \/ refs \cap {view.obj[Fresh[j].object][n] : n \in Names} # {}
               \/ refs \cap view.set[Fresh[j].array] # {}

MembersStored == {n \in Names : view.obj[answer.ptr][n] # None}

\* The count of the response is that of what was stored, though an array may
\* hold equal elements; for an object it is if its keys do not repeat.
CountIsStored ==
    Accepted =>
        IF request.route = "array"
        THEN answer.count = Cardinality(view.set[answer.ptr])
        ELSE RepeatsKey(request.body) \/ answer.count = Cardinality(MembersStored)

-----------------------------------------------------------------------------
(***************************************************************************)
(* Reference definitions for queries: exact reads, one after the other.    *)
(***************************************************************************)
Outcome(rc, value, segment, found) ==
    [rc |-> rc, value |-> value, segment |-> segment, found |-> found]

\* Of an empty segment and one too many, the first decides.
Syntax(segments) ==
    IF segments = <<>> THEN "PATH_PARSE"
    ELSE IF \E i \in DOMAIN segments : segments[i] = Blank /\ i <= max_depth + 1
         THEN "PATH_PARSE"
    ELSE IF Len(segments) > max_depth THEN "PATH_TOO_DEEP"
    ELSE "OK"

\* The objects of the way lie behind each other along the segments.
IsWay(db, root, segments, way) ==
    /\ way[1] = root
    /\ \A k \in DOMAIN way : k + 1 \in DOMAIN way =>
          db.obj[way[k]][segments[k]] = way[k + 1]

\* At the n-th segment, the way goes on to another object.
GoesOn(value, segments, n) == n < Len(segments) /\ value \in ObjPtr

\* What is there at the n-th segment, if the way does not go on.
Stop(db, p, segments, n) ==
    LET value == db.obj[p][segments[n]]
        Error(rc, found) == Outcome(rc, None, n, found)
    IN IF ~entity_exist(db, p) THEN Error("ENTITY_NOT_FOUND", None)
       ELSE IF value = None THEN Error("MEMBER_NOT_FOUND", None)
       ELSE IF n = Len(segments)
            THEN IF Size[value] > max_bytes THEN Error("VALUE_TOO_LARGE", None)
                 ELSE Outcome("OK", value, None, None)
       ELSE IF value \in SetPtr THEN Error("SET_NOT_SUPPORTED", "set")
       ELSE Error("TYPE_MISMATCH", IF Size[value] > RefSize THEN None
                                   ELSE IF value = Null THEN "null" ELSE "raw")

\* What reading the members one after the other comes to.
IsWalk(db, root, segments, outcome) ==
    \E n \in DOMAIN segments : \E way \in [1..n -> ObjPtr] :
        /\ IsWay(db, root, segments, way)
        /\ ~GoesOn(db.obj[way[n]][segments[n]], segments, n)
        /\ outcome = Stop(db, way[n], segments, n)

IsExpected(db, p, outcome) ==
    IF ~p.whole THEN outcome = Outcome("PATH_PARSE", None, None, None)
    ELSE IF Syntax(p.segments) # "OK"
         THEN outcome = Outcome(Syntax(p.segments), None, None, None)
    ELSE IF p.root = None THEN outcome = Outcome("PATH_INVALID_PTR", None, 0, None)
    ELSE IF p.root \in SetPtr
         THEN outcome = Outcome("SET_NOT_SUPPORTED", None, 0, "set")
    ELSE IsWalk(db, p.root, p.segments, outcome)

\* A query answers what reading the path member by member would, on the one
\* version of the store it began with, whatever is committed meanwhile; and an
\* error has the code, the segment and the type of the first obstacle.
QueryIsWalk ==
    at = "answered" /\ result.rc \notin Unlucky => IsExpected(snap, path, result)

\* The node of the tree that a path leads to, None if there is none.
Target ==
    LET target[n \in 0..Len(path.segments)] ==
            IF n = 0 THEN request.body
            ELSE LET node == target[n - 1]
                     name == path.segments[n]
                 IN IF node # None /\ HasKey(node, name) /\ Type[node] = "object"
                    THEN Meant(node, name) ELSE None
    IN target[Len(path.segments)]

\* The query began after the init had committed, at the pointer it was given,
\* and follows keys of the JSON to a scalar.
AsksForSent ==
    /\ Accepted /\ store # InitDb /\ snap = store
    /\ path.root = answer.ptr /\ path.root \in ObjPtr
    /\ path.whole /\ path.segments # <<>>
    /\ Target # None /\ Type[Target] = "scalar"

\* What an init was sent is what a query finds at the same place.
SentIsFound ==
    at = "answered" /\ AsksForSent =>
        CASE result.rc = "OK" -> result.value = Text[Target]
          [] result.rc = "PATH_TOO_DEEP" -> Len(path.segments) > max_depth
          [] result.rc = "VALUE_TOO_LARGE" -> Size[Text[Target]] > max_bytes
          [] OTHER -> result.rc \in Unlucky

\* An init comes to its end, and so does a query that has begun.
BothEnd == <>(pc = "done") /\ (at = "parse" ~> at = "answered")

-----------------------------------------------------------------------------
(***************************************************************************)
(* What the documents say and the code does not do.                        *)
(***************************************************************************)
\* obj_handle.c and API_REFERENCE.md: the message of a failed init has the place
\* of every level.
EveryLevelNamed ==
    pc = "done" /\ cause \in {"name", "depth"} => message.places = trail

\* API_REFERENCE.md: member_count is the number of members that were written.
CountIsWritten ==
    Accepted /\ request.route = "object" =>
        answer.count = Cardinality(MembersStored)

\* QUERY_DESIGN.md: the limit of segments is symmetric to that of nesting, so
\* with equal limits all that can be stored can be asked for.
ReachableWithDefaults ==
    at = "answered" /\ AsksForSent => result.rc # "PATH_TOO_DEEP"

=============================================================================
