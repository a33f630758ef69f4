---------------------------- MODULE MCTxnServer -----------------------------
(***************************************************************************)
(* Instances of TxnServer for TLC: a store with one object p and one set   *)
(* q, operations on them, and the sets of requests the runs choose from.   *)
(***************************************************************************)
EXTENDS TxnProperties, TxnRefinement, TLC

CONSTANTS p, q, n1, n2, v1, v2

\* No request below creates an entity after its second call: two pointers of
\* each kind for each connection are all that can be used.
Turn(i) == IF i = 0 THEN 0 ELSE 1

MCObjPtr == {p} \cup ({"obj"} \X Conns \X {0, 1})
MCSetPtr == {q} \cup ({"set"} \X Conns \X {0, 1})
MCFresh == [c \in Conns |-> [i \in 0..MaxCalls |->
               [obj |-> <<"obj", c, Turn(i)>>, set |-> <<"set", c, Turn(i)>>]]]
MCNames == {n1, n2}
MCRaw == {v1, v2, Token}
MCInitDb == [EmptyDb EXCEPT !.obj[p][n1] = v1, !.set[q] = {v1}]

-----------------------------------------------------------------------------
\* Operations.
Blank == [kind |-> "bad", ptr |-> p, name |-> n1, val |-> v1, type |-> "raw",
          members |-> NoMembers, elems |-> {}, broken |-> FALSE,
          var |-> None, body |-> "none"]

On(kind, ptr)     == [Blank EXCEPT !.kind = kind, !.ptr = ptr]
Member(kind, n)   == [On(kind, p) EXCEPT !.name = n]
Put(n, v)         == [Member("memberPut", n) EXCEPT !.val = v]
Elem(kind, v)     == [On(kind, q) EXCEPT !.val = v]
Create(kind)      == [Blank EXCEPT !.kind = kind]
ObjInit(members)  == [Create("objInit") EXCEPT !.members = members]
SetInit(elems)    == [Create("setInit") EXCEPT !.elems = elems]
Batch(kind, body) == [Blank EXCEPT !.kind = kind, !.body = body]

Ref(op, i, k)  == [op EXCEPT !.var = [idx |-> i, key |-> k]]
AtToken(op)    == [op EXCEPT !.ptr = Token]
LinkToken(op)  == [op EXCEPT !.val = Token, !.type = "ref"]

One(v) == [NoMembers EXCEPT ![n1] = v]

MCBodies == {"none", "both", "readBoth", "readThenRead", "link", "follow",
             "halfway", "brokenInit", "badRef", "nested",
             "bothNested", "sneak", "nestedSneak", "create", "astray"}

MCBody == [b \in MCBodies |->
    CASE b = "none"     -> <<>>
      \* both members are written, in one transaction
      [] b = "both"     -> <<Put(n1, v2), Put(n2, v2)>>
      [] b = "readBoth" -> <<On("objGet", p), On("setGet", q)>>
      [] b = "readThenRead" ->
            <<Member("memberGet", n1), Batch("batchGet", "readBoth")>>
      \* a new object is filled, and linked from p
      [] b = "link"     -> <<ObjInit(One(v1)),
                             Ref(AtToken(Put(n2, v2)), 0, "ptr"),
                             Ref(LinkToken(Put(n2, v1)), 0, "ptr")>>
      \* the link is followed by its value
      [] b = "follow"   -> <<Member("memberGet", n2),
                             Ref(AtToken(On("objGet", p)), 0, "value")>>
      \* the second operation may fail after the first has written
      [] b = "halfway"  -> <<Put(n1, v2), Elem("setRemove", v1)>>
      [] b = "brokenInit" ->
            <<Put(n1, v2), [SetInit({v1}) EXCEPT !.broken = TRUE]>>
      [] b = "badRef"   -> <<Put(n1, v2), Ref(AtToken(Put(n2, v1)), 0, "ptr")>>
      \* batches inside a batch
      [] b = "nested"   -> <<Put(n1, v2), Batch("batchGet", "readBoth"),
                             Batch("batchPost", "halfway"),
                             Member("memberDel", n1)>>
      [] b = "bothNested" -> <<Put(n2, v2), Batch("batchPost", "sneak")>>
      [] b = "sneak"    -> <<Put(n1, v2)>>
      [] b = "nestedSneak" ->
            <<Put(n2, v1), Batch("batchGet", "sneak")>>
      \* the second operation has no route
      [] b = "astray"   -> <<Put(n1, v2), Create("unrouted")>>
      [] b = "create"   -> <<Create("objCreate"),
                             Ref(AtToken(Put(n1, v1)), 0, "ptr")>>]

-----------------------------------------------------------------------------
\* Requests of the runs.
SingleOps ==
    {Put(n1, v2), LinkToken(Put(n1, v1)), Member("memberDel", n1),
     On("objDel", p), Member("memberGet", n2), On("objGet", p),
     On("ptrExist", p), Elem("setAdd", v2), Elem("setRemove", v1),
     On("setDel", q), On("setGet", q), ObjInit(One(v2)), Create("bad"),
     Create("unrouted")}

Batches ==
    {Batch("batchPost", b) : b \in {"none", "both", "link", "halfway",
                                    "brokenInit", "badRef", "nested",
                                    "nestedSneak", "create", "astray"}}
    \cup {Batch("batchGet", b) : b \in {"readBoth", "readThenRead", "follow",
                                        "sneak"}}

\* Writers that race for the same members, and a reader of both.
Racing ==
    {Batch("batchPost", "bothNested"), Batch("batchPost", "halfway"),
     Batch("batchGet", "readBoth"), Member("memberDel", n1), Put(n1, v2)}

\* Requests that wait for the write lock, one that nests batches, one read.
Queueing ==
    {Batch("batchPost", "nested"), Member("memberDel", n2),
     Batch("batchGet", "readBoth")}

AllRequests == SingleOps \cup Batches

\* Connections differ in nothing but the pointers generated for them.
ConnSymmetry == Permutations(Conns)

CreateThenFill == {Batch("batchPost", "create")}

=============================================================================
