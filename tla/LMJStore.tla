------------------------------ MODULE LMJStore ------------------------------
(***************************************************************************)
(* The storage engine under LMJCore-Web, as its handlers use it.  LMJCore  *)
(* keeps two kinds of entity, each named by a pointer whose first byte     *)
(* tells the kind: objects, which map member names to values, and sets of  *)
(* values.  The engine is a submodule without sources in this repository,  *)
(* so every operator here is external: it says what the calls in           *)
(* src/src/handlers rely on, and the storage model of                      *)
(* doc/lmjcore-web/API_REFERENCE.md (lines 95-111).                        *)
(*                                                                         *)
(* A database is a plain value, so a transaction's view is one too: the    *)
(* operators return the database that results from a call.                 *)
(***************************************************************************)
CONSTANTS
    ObjPtr,     \* pointers whose first byte is LMJCORE_OBJ
    SetPtr,     \* pointers whose first byte is LMJCORE_SET
    Names,      \* member names
    Raw,        \* payloads that are not pointers: texts
    None        \* "absent": NULL, or no such field

ASSUME StoreAssumption ==
    /\ ObjPtr \cap SetPtr = {}
    /\ Raw \cap (ObjPtr \cup SetPtr) = {}
    /\ None \notin ObjPtr \cup SetPtr \cup Raw

Ptr == ObjPtr \cup SetPtr

\* A stored value is a raw payload or a reference to an entity.
Val == Raw \cup Ptr

\* An object's members: None for a name that is not a member.
Members == [Names -> Val \cup {None}]

NoMembers == [n \in Names |-> None]

Db == [obj: [ObjPtr -> Members], set: [SetPtr -> SUBSET Val]]

EmptyDb == [obj |-> [p \in ObjPtr |-> NoMembers],
            set |-> [p \in SetPtr |-> {}]]

-----------------------------------------------------------------------------
(***************************************************************************)
(* An entity exists while it has at least one entry in the `set` space: a  *)
(* created entity that was never filled does not, and deleting its last    *)
(* entry deletes it.                                                       *)
(***************************************************************************)
entity_exist(db, p) ==
    \/ p \in ObjPtr /\ db.obj[p] # NoMembers
    \/ p \in SetPtr /\ db.set[p] # {}

obj_member_put(db, p, n, v) == [db EXCEPT !.obj[p][n] = v]

obj_member_del(db, p, n) == [db EXCEPT !.obj[p][n] = None]

obj_put_all(db, p, members) == [db EXCEPT !.obj[p] = members]

obj_del(db, p) == [db EXCEPT !.obj[p] = NoMembers]

set_add(db, p, v) == [db EXCEPT !.set[p] = @ \cup {v}]

set_remove(db, p, v) == [db EXCEPT !.set[p] = @ \ {v}]

set_add_all(db, p, elems) == [db EXCEPT !.set[p] = elems]

set_del(db, p) == [db EXCEPT !.set[p] = {}]

=============================================================================
