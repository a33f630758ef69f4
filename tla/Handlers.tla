------------------------------ MODULE Handlers ------------------------------
(***************************************************************************)
(* The route handlers of obj_handle.c, set_handle.c and utils_handle.c,    *)
(* from the point where they hold a transaction and have passed the        *)
(* timeout check to the point where they commit or go to cleanup.  That    *)
(* stretch works on the transaction's private view only, so a handler is a *)
(* function: of the view, of the operation, and of the pointers the engine *)
(* would generate, to a result.  TxnServer supplies the transaction.       *)
(*                                                                         *)
(* An operation is a request to one route, or an element of a batch.  Its  *)
(* `ptr` is the {ptr} of the path and its `val`/`type` the typed value of  *)
(* the body; both may hold a token that `vars` binds to a field of an      *)
(* earlier result.  An init is `broken` when an entry after those in       *)
(* `members` or `elems` is refused.  A batch names its array of operations *)
(* in `body`.                                                              *)
(***************************************************************************)
EXTENDS LMJStore, Naturals, Sequences

CONSTANTS
    Bodies,     \* names of the operation arrays that batches carry
    Body,       \* the operation array of each name
    Token,      \* the token `vars` binds; a text like any other if unbound
    MaxOperations   \* longest batch (1000)

ReadKinds  == {"objGet", "memberGet", "setGet", "ptrExist"}
WriteKinds == {"objCreate", "objInit", "memberPut", "memberDel", "objDel",
               "setCreate", "setInit", "setAdd", "setRemove", "setDel"}
BatchKinds == {"batchGet", "batchPost"}

\* "bad" stands for what is refused on its shape: a body that does not parse,
\* a missing parameter; "unrouted" for a method and path no route is for.
Kinds == ReadKinds \cup WriteKinds \cup BatchKinds \cup {"bad", "unrouted"}

\* A reference "{idx:key}" to a field of the response of operation idx.
VarRef == [idx: Nat, key: {"ptr", "value"}]

Op == [kind: Kinds, ptr: Val, name: Names, val: Val, type: {"raw", "ref"},
       members: Members, elems: SUBSET Val, broken: BOOLEAN,
       var: VarRef \cup {None}, body: Bodies]

ASSUME BodyAssumption ==
    /\ Body \in [Bodies -> Seq(Op)]
    /\ Token \in Raw
    /\ MaxOperations \in Nat

\* A request is a finite text, so no batch holds itself: among any arrays
\* there is one whose operations carry none of them.
ASSUME NestingAssumption ==
    \A S \in SUBSET Bodies :
        S # {} => \E b \in S : \A i \in 1..Len(Body[b]) :
            Body[b][i].kind \in BatchKinds => Body[b][i].body \notin S

\* The methods PUT, POST and DELETE, which a read-only batch refuses.
IsWrite(op) == op.kind \in WriteKinds \cup {"batchPost"}

IsBatch(op) == op.kind \in BatchKinds

\* Operations whose request has a body, which the handler parses first.
HasBody(op) ==
    IsBatch(op) \/ op.kind \in {"objInit", "memberPut", "setInit", "setAdd",
                                "setRemove"}

\* Mutant: a read-only batch is not searched for writes.
RefusedOnSize(op) == Len(Body[op.body]) \notin 1..MaxOperations

\* What handle_batch_core refuses before it opens a transaction: an empty or
\* too long array, and a write among the operations of GET /batch.
BatchRefused(op) ==
    LET ops == Body[op.body]
    IN \/ Len(ops) = 0
       \/ Len(ops) > MaxOperations
       \/ op.kind = "batchGet" /\ \E i \in 1..Len(ops) : IsWrite(ops[i])

-----------------------------------------------------------------------------
(***************************************************************************)
(* What a handler leaves behind: the HTTP status, the fields of the        *)
(* response body that a later operation may refer to (ptr, value), what    *)
(* the response reports of the store (data), and the new view.             *)
(***************************************************************************)
Result == [status: Nat, ptr: Val \cup {None}, value: Val \cup {None},
           data: SUBSET ((Names \X Val) \cup Val)]

Empty(status) == [status |-> status, ptr |-> None, value |-> None, data |-> {}]

Outcome(db, result) == [db |-> db, result |-> result]

Refuse(db, status) == Outcome(db, Empty(status))

Done(db) == Outcome(db, Empty(200))

Created(db, p) == Outcome(db, [Empty(201) EXCEPT !.ptr = p])

\* A reference must be a well formed pointer; any text is a raw value.
lmjcore_encode_value(op) == op.type = "ref" => op.val \in Ptr

\* The guard every handler of an existing entity starts with: a path that is
\* no pointer is 400, an entity that does not exist is 404, and the engine
\* refuses the other kind of entity.
Guard(db, op, kind, Body_) ==
    IF op.ptr \notin Ptr THEN Refuse(db, 400)
    ELSE IF ~entity_exist(db, op.ptr) THEN Refuse(db, 404)
    ELSE IF op.ptr \notin kind THEN Refuse(db, 400)
    ELSE Body_

handle_obj_create(db, new) == Created(db, new.obj)

\* An init fills the entity entry by entry, so one that is refused half way
\* leaves the first entries in the view: undoing them is the caller's affair.
handle_obj_init(db, op, new) ==
    LET filled == obj_put_all(db, new.obj, op.members)
    IN IF op.broken THEN Refuse(filled, 400) ELSE Created(filled, new.obj)

handle_obj_member_put(db, op) ==
    Guard(db, op, ObjPtr,
        IF ~lmjcore_encode_value(op) THEN Refuse(db, 400)
        ELSE Done(obj_member_put(db, op.ptr, op.name, op.val)))

handle_obj_member_del(db, op) ==
    Guard(db, op, ObjPtr,
        IF db.obj[op.ptr][op.name] = None THEN Refuse(db, 404)
        ELSE Done(obj_member_del(db, op.ptr, op.name)))

handle_obj_del(db, op) == Guard(db, op, ObjPtr, Done(obj_del(db, op.ptr)))

MemberPairs(members) ==
    {<<n, members[n]>> : n \in {m \in Names : members[m] # None}}

handle_obj_get(db, op) ==
    Guard(db, op, ObjPtr,
        Outcome(db, [Empty(200) EXCEPT !.ptr = op.ptr,
                                       !.data = MemberPairs(db.obj[op.ptr])]))

handle_obj_member_get(db, op) ==
    Guard(db, op, ObjPtr,
        LET v == db.obj[op.ptr][op.name]
        IN IF v = None THEN Refuse(db, 404)
           ELSE Outcome(db, [Empty(200) EXCEPT !.value = v, !.data = {v}]))

handle_set_create(db, new) == Created(db, new.set)

handle_set_init(db, op, new) ==
    LET filled == set_add_all(db, new.set, op.elems)
    IN IF op.broken THEN Refuse(filled, 400) ELSE Created(filled, new.set)

handle_set_add(db, op) ==
    Guard(db, op, SetPtr,
        IF ~lmjcore_encode_value(op) THEN Refuse(db, 400)
        ELSE IF op.val \in db.set[op.ptr] THEN Refuse(db, 409)
        ELSE Done(set_add(db, op.ptr, op.val)))

handle_set_remove(db, op) ==
    Guard(db, op, SetPtr,
        IF ~lmjcore_encode_value(op) THEN Refuse(db, 400)
        ELSE IF op.val \notin db.set[op.ptr] THEN Refuse(db, 404)
        ELSE Done(set_remove(db, op.ptr, op.val)))

handle_set_del(db, op) == Guard(db, op, SetPtr, Done(set_del(db, op.ptr)))

handle_set_get(db, op) ==
    Guard(db, op, SetPtr,
        Outcome(db, [Empty(200) EXCEPT !.ptr = op.ptr,
                                       !.data = db.set[op.ptr]]))

handle_ptr_exist(db, op) ==
    IF op.ptr \notin Ptr THEN Refuse(db, 400)
    ELSE Outcome(db, [Empty(200) EXCEPT
             !.data = IF entity_exist(db, op.ptr) THEN {op.ptr} ELSE {}])

\* router_match and the call of the handler it finds.
Handle(db, op, new) ==
    CASE op.kind = "objCreate" -> handle_obj_create(db, new)
      [] op.kind = "objInit"   -> handle_obj_init(db, op, new)
      [] op.kind = "memberPut" -> handle_obj_member_put(db, op)
      [] op.kind = "memberDel" -> handle_obj_member_del(db, op)
      [] op.kind = "objDel"    -> handle_obj_del(db, op)
      [] op.kind = "objGet"    -> handle_obj_get(db, op)
      [] op.kind = "memberGet" -> handle_obj_member_get(db, op)
      [] op.kind = "setCreate" -> handle_set_create(db, new)
      [] op.kind = "setInit"   -> handle_set_init(db, op, new)
      [] op.kind = "setAdd"    -> handle_set_add(db, op)
      [] op.kind = "setRemove" -> handle_set_remove(db, op)
      [] op.kind = "setDel"    -> handle_set_del(db, op)
      [] op.kind = "setGet"    -> handle_set_get(db, op)
      [] op.kind = "ptrExist"  -> handle_ptr_exist(db, op)
      [] op.kind = "unrouted"  -> Refuse(db, 404)
      [] OTHER                 -> Refuse(db, 400)

=============================================================================
