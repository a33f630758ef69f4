----------------------------- MODULE NestedQuery -----------------------------
(***************************************************************************)
(* An init and a query side by side, each in its own thread and its own    *)
(* transaction: the query may begin before, during or after the init, and  *)
(* works on what was committed when it began.                              *)
(***************************************************************************)
EXTENDS NestedInit, QueryPath

vars == <<init_vars, query_vars>>

Start == Init /\ QueryInit

QueryBegins == BeginQuery(store)

Ended == pc = "done" /\ at = "answered" /\ UNCHANGED vars

Next ==
    \/ InitNext /\ UNCHANGED query_vars
    \/ (QueryBegins \/ QueryNext) /\ UNCHANGED init_vars
    \/ Ended

Spec == Start /\ [][Next]_vars

\* A thread that has its request is scheduled; nothing has to fail.
FairSpec ==
    /\ Spec
    /\ WF_vars(InitWork /\ UNCHANGED query_vars)
    /\ WF_vars(QueryWork /\ UNCHANGED init_vars)

-----------------------------------------------------------------------------
\* What an init and a query keep has its type.
InitTypeOK ==
    /\ request \in Requests
    /\ pc \in {"start", "fill", "unwind", "commit", "cleanup", "done"}
    /\ store \in Db /\ view \in Db
    /\ made \in Nat
    /\ stack \in Seq(Frame)
    /\ pc \in {"fill", "unwind", "commit"} => stack # <<>>
    /\ trail \in Seq(Place)
    /\ message \in Message
    /\ cause \in Causes \cup {None}
    /\ answer \in Response \cup {None}

QueryTypeOK ==
    /\ path \in Paths \cup {None}
    /\ at \in {"idle", "parse", "root", "walk", "read", "answered"}
    /\ at # "idle" => path \in Paths
    /\ snap \in Db
    /\ cur \in ObjPtr \cup {None}
    /\ seg \in Nat
    /\ capacity \in Nat
    /\ result \in QueryResult \cup {None}

TypeOK == InitTypeOK /\ QueryTypeOK

\* However deep the JSON is, the C stack holds the handler and no more than
\* LMJCORE_NEST_DEPTH_MAX calls of encode_obj_node and encode_array_node.
DepthBounded == Len(stack) <= NestMax + 1

\* Entities are written one by one, but nothing of them is stored before all of
\* them are, nor after a failure at any of them; and a batch that lends its
\* transaction finds that the init has committed nothing.
NothingUntilCommitted ==
    store # InitDb => pc = "done" /\ cause = None /\ ~request.shared

\* The capped read draws its line exactly at the limit, though its buffer grows
\* by doubling: a value is refused when it is longer, and returned when not.
LimitIsExact ==
    at = "answered" =>
        /\ result.rc = "VALUE_TOO_LARGE" => Size[snap.obj[cur][Segment]] > max_bytes
        /\ result.rc = "OK" => Size[result.value] <= max_bytes

=============================================================================
