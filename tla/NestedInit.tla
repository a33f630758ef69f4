----------------------------- MODULE NestedInit -----------------------------
(***************************************************************************)
(* POST /obj/init and POST /set/init: a whole JSON tree is stored in one   *)
(* transaction, every object of it as an LMJCore object and every array as *)
(* a set, and the value of a nested one is a reference to it.              *)
(*                                                                         *)
(* The C code recurses (lmjcore_json_encode_value, encode_obj_node and     *)
(* encode_array_node call each other); here the recursion is a stack.  Its *)
(* bottom frame is the loop of handle_obj_init or handle_set_init, every   *)
(* other frame one call of encode_obj_node or encode_array_node: the JSON  *)
(* node, the entity made for it, and the position of its loop.  A failure  *)
(* unwinds the stack, and each level adds its place to the message as far  *)
(* as the buffer it is put together in holds it (fail_in); the entities    *)
(* made so far are left to the transaction.                                *)
(*                                                                         *)
(* A JSON tree is given as cJSON has it: nodes, each with its type, its    *)
(* text if it is a scalar, and its children in order; the children of an   *)
(* object have keys, which JSON allows to repeat.                          *)
(***************************************************************************)
EXTENDS LMJStore, Naturals, Sequences, FiniteSets

CONSTANTS
    Keys,       \* what may stand as a key in JSON
    KeyLen,     \* the length of each
    MaxKeyLen,  \* LMJCORE_MAX_MEMBER_NAME_LEN
    Nodes,      \* JSON nodes
    Type,       \* "object", "array" or "scalar", of each node
    Text,       \* what a scalar is stored as: its text, or null
    Kids,       \* the children of an object or array
    NestMax,    \* LMJCORE_NEST_DEPTH_MAX (64)
    ReasonLen,  \* the length of each reason (28 for the depth)
    MemberLen,  \* what " (in member '')" takes beside the key (15)
    ElementLen, \* what " (in element [i])" takes (17 and more)
    CtxMax,     \* what of a place ctx[560] lets a level print (565)
    TmpMax,     \* what tmp[768] of fail_in holds (767)
    ReplyMax,   \* what reason[1152] of the handler holds (1151)
    InitDb,     \* what is stored before
    Fresh,      \* the pointers the engine generates, in order; as many as
                \* there are bound the entities an init makes
    Requests,   \* the requests: route, body, and whether a batch runs it
    InitFaults  \* what may fail: "begin", "time", "alloc", "commit", "answer"

\* cJSON's children, seen from their parent.
Kid == [key: Keys, node: Nodes]

Request == [route: {"object", "array"}, body: Nodes \cup {None},
            shared: BOOLEAN]

ASSUME NestedAssumption ==
    /\ KeyLen \in [Keys -> Nat] /\ MaxKeyLen \in Nat
    /\ Names = {k \in Keys : KeyLen[k] \in 1..MaxKeyLen}
    /\ Type \in [Nodes -> {"object", "array", "scalar"}]
    /\ Text \in [Nodes -> Raw]
    /\ Kids \in [Nodes -> Seq(Kid)]
    /\ None \notin Nodes
    /\ NestMax \in Nat
    /\ MemberLen \in Nat \ {0} /\ ElementLen \in Nat \ {0}
    /\ CtxMax \in Nat \ {0} /\ TmpMax \in Nat /\ ReplyMax \in Nat
    /\ TmpMax <= ReplyMax
    /\ InitDb \in Db /\ \A p \in SetPtr : IsFiniteSet(InitDb.set[p])
    /\ Fresh \in Seq([object: ObjPtr, array: SetPtr]) /\ Fresh # <<>>
    /\ Requests \subseteq Request

\* The pointers the engine generates are all different, and name nothing yet.
ASSUME FreshAssumption ==
    \A i \in DOMAIN Fresh :
        /\ InitDb.obj[Fresh[i].object] = NoMembers
        /\ InitDb.set[Fresh[i].array] = {}
        /\ \A j \in DOMAIN Fresh \ {i} : /\ Fresh[i].object # Fresh[j].object
                                        /\ Fresh[i].array # Fresh[j].array

VARIABLES
    request,    \* the request
    pc,         \* "start", "fill", "unwind", "commit", "cleanup" or "done"
    store,      \* what is committed
    view,       \* what the transaction sees
    made,       \* entities made so far
    stack,      \* the calls in progress
    trail,      \* the places a failure has been passed through (history)
    message,    \* what the error buffer has of them, and its length
    cause,      \* why it failed
    answer      \* the response

init_vars == <<request, pc, store, view, made, stack, trail, message, cause,
               answer>>

Frame == [node: Nodes, ptr: Ptr, next: Nat \ {0}]

\* "member 'key'" or "element [index]".
Place == [member: Keys] \cup [element: Nat]

Message == [places: Seq(Place), length: Nat]

Causes == {"parse", "type", "begin", "time", "name", "depth", "internal"}

ASSUME CauseAssumption ==
    /\ None \notin Causes
    /\ ReasonLen \in [Causes -> Nat]
    /\ \A c \in Causes : ReasonLen[c] + CtxMax <= TmpMax

Response == [status: Nat, ptr: Ptr \cup {None}, count: Nat]

Init ==
    /\ request \in Requests
    /\ pc = "start"
    /\ store = InitDb
    /\ view = InitDb
    /\ made = 0
    /\ stack = <<>>
    /\ trail = <<>>
    /\ message = [places |-> <<>>, length |-> 0]
    /\ cause = None
    /\ answer = None

-----------------------------------------------------------------------------
Top == stack[Len(stack)]
Below == SubSeq(stack, 1, Len(stack) - 1)
TopKids == Kids[Top.node]
TopKid == TopKids[Top.next]
Exhausted == Top.next > Len(TopKids)

IsNested(node) == Type[node] # "scalar"

\* The depth the kids of the frame on top are encoded at: the members of the
\* body are encoded at depth 0.
depth == Len(stack) - 1

lmjcore_nested_member_name_check(key) ==
    KeyLen[key] # 0 /\ KeyLen[key] <= MaxKeyLen

NameOk ==
    Type[Top.node] = "object" => lmjcore_nested_member_name_check(TopKid.key)

\* Mutant: the body counts as a level, so that one level less is accepted.
DepthFromOne == ~(Len(stack) >= NestMax)

\* Mutant: one level more is accepted.
DepthOffByOne == ~(depth > NestMax)

\* The check at the head of encode_obj_node and encode_array_node.
DepthOk == ~(depth >= NestMax)

\* Mutant: the first of two equal keys wins.
PutFirst(frame, value) ==
    IF Type[frame.node] = "array"
    THEN set_add(view, frame.ptr, value)
    ELSE LET key == Kids[frame.node][frame.next].key
         IN IF view.obj[frame.ptr][key] # None THEN view
            ELSE obj_member_put(view, frame.ptr, key, value)

\* What a level does with the encoded value of its current kid.  An element
\* that the set has already is no error.
Put(frame, value) ==
    IF Type[frame.node] = "array"
    THEN set_add(view, frame.ptr, value)
    ELSE obj_member_put(view, frame.ptr, Kids[frame.node][frame.next].key, value)

Advance(frames) == [frames EXCEPT ![Len(frames)].next = @ + 1]

PlaceOf(frame) ==
    IF Type[frame.node] = "array"
    THEN [element |-> frame.next - 1]
    ELSE [member |-> Kids[frame.node][frame.next].key]

PlaceLen(frame) ==
    IF Type[frame.node] = "array" THEN ElementLen
    ELSE MemberLen + KeyLen[Kids[frame.node][frame.next].key]

\* set_reason: the reason alone.
Reason(c) == [places |-> <<>>, length |-> ReasonLen[c]]

\* snprintf("%s (in %s)"): what does not fit is cut, and the buffer is full.
Printed(place, length, limit) ==
    IF message.length + length <= limit
    THEN [places |-> Append(message.places, place),
          length |-> message.length + length]
    ELSE [message EXCEPT !.length = limit]

\* fail_in: the place of a level, itself cut to what ctx holds, behind what the
\* buffer has; the text passes through tmp.
fail_in(frame) ==
    Printed(PlaceOf(frame),
            IF PlaceLen(frame) <= CtxMax THEN PlaceLen(frame) ELSE CtxMax, TmpMax)

\* The handler's own level is printed into a larger buffer.
Replied(frame) == Printed(PlaceOf(frame), PlaceLen(frame), ReplyMax)

Reply(status, ptr, count) == [status |-> status, ptr |-> ptr, count |-> count]

StatusOf(c) ==
    CASE c = "time" -> 408
      [] c \in {"parse", "type", "name", "depth"} -> 400
      [] OTHER -> 500

-----------------------------------------------------------------------------
\* The body is JSON, and of the kind the route wants.
BodyOk == request.body # None /\ Type[request.body] = request.route

\* No JSON, or the other kind of body: refused before there is a transaction.
Refuse ==
    /\ pc = "start"
    /\ ~BodyOk
    /\ pc' = "done"
    /\ cause' = "type"
    /\ answer' = Reply(StatusOf("type"), None, 0)
    /\ UNCHANGED <<request, store, view, made, stack, trail, message>>

\* No memory to parse the body: it is called no JSON, whatever it is.
ParseFails ==
    /\ pc = "start"
    /\ "alloc" \in InitFaults
    /\ pc' = "done"
    /\ cause' = "parse"
    /\ answer' = Reply(StatusOf("parse"), None, 0)
    /\ UNCHANGED <<request, store, view, made, stack, trail, message>>

\* TXN_BEGIN, TXN_CHECK_TIMEOUT, and the entity of the body.
Begin ==
    /\ pc = "start"
    /\ BodyOk
    /\ pc' = "fill"
    /\ stack' = <<[node |-> request.body, ptr |-> Fresh[1][request.route],
                   next |-> 1]>>
    /\ made' = 1
    /\ UNCHANGED <<request, store, view, trail, message, cause, answer>>

\* No transaction or no entity can be had, or the time is up.
BeginFails ==
    /\ pc = "start"
    /\ BodyOk
    /\ cause' \in InitFaults \cap {"begin", "time"}
    /\ answer' = Reply(StatusOf(cause'), None, 0)
    /\ pc' = "cleanup"
    /\ UNCHANGED <<request, store, view, made, stack, trail, message>>

\* encode_leaf_value, and the value is put in place.
EncodeScalar ==
    /\ pc = "fill" /\ ~Exhausted /\ NameOk
    /\ ~IsNested(TopKid.node)
    /\ view' = Put(Top, Text[TopKid.node])
    /\ stack' = Advance(stack)
    /\ UNCHANGED <<request, pc, store, made, trail, message, cause, answer>>

\* encode_obj_node or encode_array_node is called, and makes its entity.
EnterNested ==
    /\ pc = "fill" /\ ~Exhausted /\ NameOk
    /\ IsNested(TopKid.node)
    /\ DepthOk
    /\ made < Len(Fresh)
    /\ stack' = Append(stack, [node |-> TopKid.node,
                               ptr |-> Fresh[made + 1][Type[TopKid.node]],
                               next |-> 1])
    /\ made' = made + 1
    /\ UNCHANGED <<request, pc, store, view, trail, message, cause, answer>>

\* Mutant: the reference is not put in place when the entity is empty.
LeaveNestedSkipsEmpty ==
    /\ pc = "fill" /\ Exhausted /\ Len(stack) > 1
    /\ view' = IF TopKids = <<>> THEN view
               ELSE Put(stack[Len(stack) - 1], Top.ptr)
    /\ stack' = Advance(Below)
    /\ UNCHANGED <<request, pc, store, made, trail, message, cause, answer>>

\* It returns: build_ref_encoding, and the reference is put in place.
LeaveNested ==
    /\ pc = "fill" /\ Exhausted /\ Len(stack) > 1
    /\ view' = Put(stack[Len(stack) - 1], Top.ptr)
    /\ stack' = Advance(Below)
    /\ UNCHANGED <<request, pc, store, made, trail, message, cause, answer>>

\* A kid is refused for its name or its depth.
KidRefused ==
    /\ pc = "fill" /\ ~Exhausted
    /\ \/ ~NameOk /\ cause' = "name"
       \/ NameOk /\ IsNested(TopKid.node) /\ ~DepthOk /\ cause' = "depth"
    /\ pc' = "unwind"
    /\ message' = Reason(cause')
    /\ UNCHANGED <<request, store, view, made, stack, trail, answer>>

\* No memory for its value, or the engine makes no entity or stores no value.
KidFails ==
    /\ pc = "fill" /\ ~Exhausted /\ NameOk
    /\ "alloc" \in InitFaults
    /\ cause' = "internal"
    /\ pc' = "unwind"
    /\ message' = Reason(cause')
    /\ UNCHANGED <<request, store, view, made, stack, trail, answer>>

\* No memory for the reference to an entity that is complete.
RefFails ==
    /\ pc = "fill" /\ Exhausted /\ Len(stack) > 1
    /\ "alloc" \in InitFaults
    /\ cause' = "internal"
    /\ pc' = "unwind"
    /\ message' = Reason(cause')
    /\ stack' = Below
    /\ UNCHANGED <<request, store, view, made, trail, answer>>

\* Mutant: the handler's own level is missing from the message.
UnwindForgetsBody ==
    /\ pc = "unwind"
    /\ trail' = Append(trail, PlaceOf(Top))
    /\ stack' = Below
    /\ IF Len(stack) = 1
       THEN /\ pc' = "cleanup"
            /\ answer' = Reply(StatusOf(cause), None, 0)
            /\ UNCHANGED message
       ELSE message' = fail_in(Top) /\ UNCHANGED <<pc, answer>>
    /\ UNCHANGED <<request, store, view, made, cause>>

\* fail_in at every level, then the handler's message.
Unwind ==
    /\ pc = "unwind"
    /\ trail' = Append(trail, PlaceOf(Top))
    /\ stack' = Below
    /\ IF Len(stack) = 1
       THEN /\ pc' = "cleanup"
            /\ answer' = Reply(StatusOf(cause), None, 0)
            /\ message' = Replied(Top)
       ELSE message' = fail_in(Top) /\ UNCHANGED <<pc, answer>>
    /\ UNCHANGED <<request, store, view, made, cause>>

\* Mutant: the elements of the request are counted.
CountSent == Top.next - 1

\* What the response will report: an object's loop counts its rounds (filled),
\* a set is asked how many elements it has (lmjcore_set_stat).
Count ==
    IF request.route = "object" THEN Top.next - 1
    ELSE Cardinality(view.set[Top.ptr])

\* All kids of the body are in place.  The count is taken before the commit.
Finish ==
    /\ pc = "fill" /\ Exhausted /\ Len(stack) = 1
    /\ pc' = "commit"
    /\ answer' = Reply(201, Top.ptr, Count)
    /\ UNCHANGED <<request, store, view, made, stack, trail, message, cause>>

\* TXN_COMMIT: a transaction of the batch is left to the batch.  Without memory
\* for it the response becomes a 500, and the commit stands.
Commit ==
    /\ pc = "commit"
    /\ store' = IF request.shared THEN store ELSE view
    /\ \/ UNCHANGED answer
       \/ "answer" \in InitFaults /\ answer' = Reply(500, None, 0)
    /\ pc' = "done"
    /\ UNCHANGED <<request, view, made, stack, trail, message, cause>>

\* lmjcore_set_stat or the commit fails.
CommitFails ==
    /\ pc = "commit"
    /\ "commit" \in InitFaults
    /\ request.shared => request.route = "array"
    /\ cause' = "internal"
    /\ answer' = Reply(500, None, 0)
    /\ pc' = "cleanup"
    /\ UNCHANGED <<request, store, view, made, stack, trail, message>>

\* Mutant: the failed request commits what it has.
CleanupCommits ==
    /\ pc = "cleanup"
    /\ store' = IF request.shared THEN store ELSE view
    /\ pc' = "done"
    /\ UNCHANGED <<request, view, made, stack, trail, message, cause, answer>>

\* TXN_ABORT: rolls back, unless the transaction is the batch's.
Cleanup ==
    /\ pc = "cleanup"
    /\ view' = IF request.shared THEN view ELSE store
    /\ pc' = "done"
    /\ UNCHANGED <<request, store, made, stack, trail, message, cause, answer>>

InitWork ==
    \/ Refuse \/ Begin \/ EncodeScalar \/ EnterNested \/ LeaveNested
    \/ KidRefused \/ Unwind \/ Finish \/ Commit \/ Cleanup

InitNext ==
    \/ InitWork
    \/ ParseFails \/ BeginFails \/ KidFails \/ RefFails \/ CommitFails

=============================================================================
