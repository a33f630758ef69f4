------------------------------ MODULE QueryPath ------------------------------
(***************************************************************************)
(* GET /obj/query: a path "<pointer>.<member>.<member>..." is followed     *)
(* from object to object, and the value of its last member is returned.    *)
(*                                                                         *)
(* The path is first taken apart (segments_parse); the members in between  *)
(* are read into a buffer that just holds a reference; the last one into a *)
(* buffer that is doubled until the value fits or the limit is reached     *)
(* (lmjcore_obj_member_get_capped).  All reads are of one transaction, so  *)
(* of one version of the store.                                            *)
(***************************************************************************)
EXTENDS LMJStore, Integers, Sequences

CONSTANTS
    Null,           \* the payload that is stored with the tag NULL
    Size,           \* bytes of each stored value, with its tag
    RefSize,        \* bytes of a reference (1 + LMJCORE_PTR_LEN)
    Blank,          \* a segment of no characters
    Paths,          \* the paths that are asked for
    query_max_depth,    \* as configured
    DepthDefault,       \* QUERY_MAX_DEPTH_DEFAULT (64)
    max_value_bytes,    \* as configured
    BytesDefault,       \* QUERY_MAX_VALUE_BYTES_DEFAULT (8192)
    FirstCapacity,      \* the first buffer of the capped read (1024)
    QueryFaults         \* what may fail: "TXN_BEGIN", "TIMEOUT", "alloc"

\* What stands before the first dot may not be 34 characters (whole), and need
\* not be a pointer (None).  Without a dot there are no segments.
Path == [whole: BOOLEAN, root: Ptr \cup {None}, segments: Seq(Names \cup {Blank})]

ASSUME QueryAssumption ==
    /\ Null \in Raw
    /\ Size \in [Val -> Nat \ {0}]
    /\ RefSize \in Nat /\ \A p \in Ptr : Size[p] = RefSize
    /\ Blank \notin Names
    /\ Paths \subseteq Path
    /\ query_max_depth \in Int /\ DepthDefault \in Nat \ {0}
    /\ max_value_bytes \in Nat /\ BytesDefault \in Nat \ {0}
    /\ FirstCapacity \in Nat \ {0}

VARIABLES
    path,       \* the path asked for
    at,         \* "idle", "parse", "root", "walk", "read" or "answered"
    snap,       \* what the transaction of the query sees
    cur,        \* the object reached
    seg,        \* the segment that is next
    capacity,   \* of the buffer of the capped read
    result      \* rc, value, and where and on what it failed

query_vars == <<path, at, snap, cur, seg, capacity, result>>

\* query_options_init: what is not positive stands for the default.
max_depth == IF query_max_depth > 0 THEN query_max_depth ELSE DepthDefault
max_bytes == IF max_value_bytes > 0 THEN max_value_bytes ELSE BytesDefault

Codes == {"OK", "PATH_PARSE", "PATH_TOO_DEEP", "PATH_INVALID_PTR",
          "SET_NOT_SUPPORTED", "TYPE_MISMATCH", "ENTITY_NOT_FOUND",
          "MEMBER_NOT_FOUND", "VALUE_TOO_LARGE", "MEMORY", "TXN_BEGIN",
          "TIMEOUT"}

\* What says nothing of the path.
Unlucky == {"MEMORY", "TXN_BEGIN", "TIMEOUT"}

QueryResult == [rc: Codes, value: Val \cup {None}, segment: Nat \cup {None},
                found: {"raw", "null", "set", None}]

QueryInit ==
    /\ path = None
    /\ at = "idle"
    /\ snap = EmptyDb
    /\ cur = None
    /\ seg = 0
    /\ capacity = 0
    /\ result = None

-----------------------------------------------------------------------------
LastSegment == Len(path.segments)
Segment == path.segments[seg]

\* Mutant: an empty segment is noticed only when no segment is too many.
SegmentsDepthFirst(p) ==
    LET count == Len(p.segments)
    IN IF count = 0 \/ ~p.whole THEN "PATH_PARSE"
       ELSE IF count > max_depth THEN "PATH_TOO_DEEP"
       ELSE IF \E i \in 1..count : p.segments[i] = Blank THEN "PATH_PARSE"
       ELSE "OK"

\* segments_parse: the members are counted one after the other, and the first
\* one that is empty, or one too many, decides.
segments_parse(p) ==
    LET count == Len(p.segments)
        Stops(i) == p.segments[i] = Blank \/ i > max_depth
        First(i) == Stops(i) /\ \A j \in 1..(i - 1) : ~Stops(j)
    IN IF count = 0 \/ ~p.whole THEN "PATH_PARSE"
       ELSE IF \A i \in 1..count : ~Stops(i) THEN "OK"
       ELSE IF \E i \in 1..count : First(i) /\ p.segments[i] = Blank
            THEN "PATH_PARSE"
       ELSE "PATH_TOO_DEEP"

\* lmjcore_obj_member_get: all of the value, or BUFFER_TOO_SMALL.
obj_member_get(p, name, size) ==
    IF ~entity_exist(snap, p) THEN "ENTITY_NOT_FOUND"
    ELSE IF snap.obj[p][name] = None THEN "MEMBER_NOT_FOUND"
    ELSE IF Size[snap.obj[p][name]] > size THEN "BUFFER_TOO_SMALL"
    ELSE "OK"

Answer(rc, value, segment, found) ==
    /\ at' = "answered"
    /\ result' = [rc |-> rc, value |-> value, segment |-> segment,
                  found |-> found]
    /\ UNCHANGED <<path, snap, cur, seg, capacity>>

\* err_set, and err_set_type if the type is known.
Fail(rc, found) == Answer(rc, None, seg, found)

\* tag_to_api_type
TagOf(value) == IF value = Null THEN "null" ELSE "raw"

-----------------------------------------------------------------------------
\* handle_obj_query opens its transaction on the database db.
BeginQuery(db) ==
    /\ at = "idle"
    /\ path' \in Paths
    /\ snap' = db
    /\ at' = "parse"
    /\ UNCHANGED <<cur, seg, capacity, result>>

\* TXN_BEGIN fails, or TXN_CHECK_TIMEOUT finds the time to be up.
BeginQueryFails ==
    /\ at = "idle"
    /\ path' \in Paths
    /\ at' = "answered"
    /\ \E rc \in QueryFaults \cap {"TXN_BEGIN", "TIMEOUT"} :
          result' = [rc |-> rc, value |-> None, segment |-> None, found |-> None]
    /\ UNCHANGED <<snap, cur, seg, capacity>>

Parse ==
    /\ at = "parse"
    /\ IF segments_parse(path) = "OK"
       THEN at' = "root" /\ UNCHANGED <<path, snap, cur, seg, capacity, result>>
       ELSE Answer(segments_parse(path), None, None, None)

\* Mutant: the kind of the first pointer is not looked at.
RootAny ==
    /\ at = "root"
    /\ IF path.root \in Ptr
       THEN /\ at' = "walk"
            /\ cur' = path.root
            /\ seg' = 1
            /\ UNCHANGED <<path, snap, capacity, result>>
       ELSE Fail("PATH_INVALID_PTR", None)

\* ptr_from_string, and the kind of the pointer: its first byte.
Root ==
    /\ at = "root"
    /\ IF path.root \in ObjPtr
       THEN /\ at' = "walk"
            /\ cur' = path.root
            /\ seg' = 1
            /\ UNCHANGED <<path, snap, capacity, result>>
       ELSE IF path.root \in SetPtr
            THEN Fail("SET_NOT_SUPPORTED", "set")
            ELSE Fail("PATH_INVALID_PTR", None)

\* Mutant: the buffer of the probe has no room for the tag.
FollowShortProbe ==
    /\ at = "walk" /\ seg < LastSegment
    /\ LET rc == obj_member_get(cur, Segment, RefSize - 1)
           value == snap.obj[cur][Segment]
       IN CASE rc = "OK" /\ value \in Raw -> Fail("TYPE_MISMATCH", TagOf(value))
            [] rc = "BUFFER_TOO_SMALL" -> Fail("TYPE_MISMATCH", None)
            [] OTHER -> Fail(rc, None)

\* A member in between: the probe holds a reference, and nothing longer.
Follow ==
    /\ at = "walk" /\ seg < LastSegment
    /\ LET rc == obj_member_get(cur, Segment, RefSize)
           value == snap.obj[cur][Segment]
       IN CASE rc = "OK" /\ value \in ObjPtr ->
                   /\ cur' = value
                   /\ seg' = seg + 1
                   /\ UNCHANGED <<path, at, snap, capacity, result>>
            [] rc = "OK" /\ value \in SetPtr -> Fail("SET_NOT_SUPPORTED", "set")
            [] rc = "OK" /\ value \in Raw -> Fail("TYPE_MISMATCH", TagOf(value))
            [] rc = "BUFFER_TOO_SMALL" -> Fail("TYPE_MISMATCH", None)
            [] OTHER -> Fail(rc, None)

\* The last member: the capped read begins.
StartRead ==
    /\ at = "walk" /\ seg = LastSegment
    /\ at' = "read"
    /\ capacity' = IF FirstCapacity > max_bytes THEN max_bytes ELSE FirstCapacity
    /\ UNCHANGED <<path, snap, cur, seg, result>>

\* Mutant: a buffer that would pass the limit is not tried.
GrowOrGiveUp ==
    /\ at = "read"
    /\ obj_member_get(cur, Segment, capacity) = "BUFFER_TOO_SMALL"
    /\ IF capacity * 2 > max_bytes THEN Fail("VALUE_TOO_LARGE", None)
       ELSE /\ capacity' = capacity * 2
            /\ UNCHANGED <<path, at, snap, cur, seg, result>>

\* Mutant: a buffer that would pass the limit stays as it is.
GrowStuck ==
    /\ at = "read"
    /\ obj_member_get(cur, Segment, capacity) = "BUFFER_TOO_SMALL"
    /\ IF capacity >= max_bytes THEN Fail("VALUE_TOO_LARGE", None)
       ELSE /\ capacity' = IF capacity * 2 > max_bytes THEN capacity
                           ELSE capacity * 2
            /\ UNCHANGED <<path, at, snap, cur, seg, result>>

\* The value does not fit: a larger buffer, or the limit has been reached.
Grow ==
    /\ at = "read"
    /\ obj_member_get(cur, Segment, capacity) = "BUFFER_TOO_SMALL"
    /\ IF capacity >= max_bytes THEN Fail("VALUE_TOO_LARGE", None)
       ELSE /\ capacity' = IF capacity * 2 > max_bytes THEN max_bytes
                           ELSE capacity * 2
            /\ UNCHANGED <<path, at, snap, cur, seg, result>>

\* The value fits and is decoded, or there is none.
Read ==
    /\ at = "read"
    /\ LET rc == obj_member_get(cur, Segment, capacity)
       IN /\ rc # "BUFFER_TOO_SMALL"
          /\ IF rc = "OK" THEN Answer("OK", snap.obj[cur][Segment], None, None)
             ELSE Fail(rc, None)

\* No memory: for the segments (then no segment is named), for the buffer or for
\* the decoded value.
QueryAllocFails ==
    /\ "alloc" \in QueryFaults
    /\ \/ at = "parse" /\ segments_parse(path) = "OK"
             /\ Answer("MEMORY", None, None, None)
       \/ at = "read" /\ Fail("MEMORY", None)

QueryWork == Parse \/ Root \/ Follow \/ StartRead \/ Grow \/ Read

QueryNext == QueryWork \/ BeginQueryFails \/ QueryAllocFails

=============================================================================
