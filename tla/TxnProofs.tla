------------------------------ MODULE TxnProofs ------------------------------
(***************************************************************************)
(* Theorems about TxnServer, for every set of connections and requests,    *)
(* every database, timeout and combination of faults.  The first part is   *)
(* about one handler on one view, the second about what the steps do to a  *)
(* thread's stack of batches, the third shows that every step preserves    *)
(* Invariant, and the last draws the properties of TxnProperties from it.  *)
(***************************************************************************)
EXTENDS TxnInvariant, SequenceTheorems, TLAPS

-----------------------------------------------------------------------------
(***************************************************************************)
(* One handler on one view.                                                *)
(***************************************************************************)
New == [obj: ObjPtr, set: SetPtr]

Outcomes == [db: Db, result: Result]

\* The calls of the engine return databases.
LEMMA StoreTypes ==
    ASSUME NEW db \in Db, NEW v \in Val, NEW n \in Names,
           NEW members \in Members, NEW elems \in SUBSET Val
    PROVE  /\ \A p \in ObjPtr :
                 /\ obj_member_put(db, p, n, v) \in Db
                 /\ obj_member_del(db, p, n) \in Db
                 /\ obj_put_all(db, p, members) \in Db
                 /\ obj_del(db, p) \in Db
           /\ \A p \in SetPtr :
                 /\ set_add(db, p, v) \in Db
                 /\ set_remove(db, p, v) \in Db
                 /\ set_add_all(db, p, elems) \in Db
                 /\ set_del(db, p) \in Db
<1>1. /\ db = [obj |-> db.obj, set |-> db.set]
      /\ db.obj \in [ObjPtr -> Members]
      /\ db.set \in [SetPtr -> SUBSET Val]
  BY DEF Db
<1>2. NoMembers \in Members
  BY DEF NoMembers, Members
<1>3. ASSUME NEW p \in ObjPtr
      PROVE  /\ obj_member_put(db, p, n, v) \in Db
             /\ obj_member_del(db, p, n) \in Db
  BY <1>1 DEF Db, Members, obj_member_put, obj_member_del
<1>4. ASSUME NEW p \in ObjPtr
      PROVE  /\ obj_put_all(db, p, members) \in Db
             /\ obj_del(db, p) \in Db
  BY <1>1, <1>2 DEF Db, obj_put_all, obj_del
<1>5. ASSUME NEW p \in SetPtr
      PROVE  /\ set_add(db, p, v) \in Db
             /\ set_remove(db, p, v) \in Db
             /\ set_add_all(db, p, elems) \in Db
             /\ set_del(db, p) \in Db
  BY <1>1 DEF Db, set_add, set_remove, set_add_all, set_del
<1>6. QED
  BY <1>3, <1>4, <1>5

\* What a response may hold.
LEMMA EmptyType ==
    ASSUME NEW s \in Nat
    PROVE  /\ Empty(s) \in Result
           /\ Empty(s).status = s
BY DEF Empty, Result

\* What the handlers answer with is an outcome, and a refusal keeps the view.
LEMMA OutcomeTypes ==
    ASSUME NEW db \in Db, NEW s \in Nat, NEW p \in Ptr
    PROVE  /\ Refuse(db, s) \in Outcomes
           /\ Done(db) \in Outcomes
           /\ Created(db, p) \in Outcomes
<1>1. Empty(s) \in Result /\ Empty(200) \in Result
  BY EmptyType
<1>2. [Empty(201) EXCEPT !.ptr = p] \in Result
  BY DEF Empty, Result, Val
<1>3. QED
  BY <1>1, <1>2 DEF Refuse, Done, Created, Outcome, Outcomes

\* What a handler does behind the guard is all there is to check.
LEMMA GuardType ==
    ASSUME NEW db \in Db, NEW op, NEW kind, NEW body,
           op.ptr \in kind => body \in Outcomes
    PROVE  Guard(db, op, kind, body) \in Outcomes
<1>1. Refuse(db, 400) \in Outcomes /\ Refuse(db, 404) \in Outcomes
  BY EmptyType DEF Refuse, Outcome, Outcomes
<1>2. QED
  BY <1>1 DEF Guard

\* Each handler leaves a database and a result.
LEMMA WriteHandlerTypes ==
    ASSUME NEW db \in Db, NEW op \in Op, NEW new \in New
    PROVE  /\ handle_obj_create(db, new) \in Outcomes
           /\ handle_obj_init(db, op, new) \in Outcomes
           /\ handle_obj_member_put(db, op) \in Outcomes
           /\ handle_obj_member_del(db, op) \in Outcomes
           /\ handle_obj_del(db, op) \in Outcomes
           /\ handle_set_create(db, new) \in Outcomes
           /\ handle_set_init(db, op, new) \in Outcomes
           /\ handle_set_add(db, op) \in Outcomes
           /\ handle_set_remove(db, op) \in Outcomes
           /\ handle_set_del(db, op) \in Outcomes
<1>1. /\ op.name \in Names /\ op.val \in Val
      /\ op.members \in Members /\ op.elems \in SUBSET Val
  BY DEF Op
<1>2. new.obj \in ObjPtr /\ new.set \in SetPtr
  BY DEF New
<1>3. ASSUME NEW s \in {400, 404, 409}
      PROVE  Refuse(db, s) \in Outcomes
  BY EmptyType DEF Refuse, Outcome, Outcomes
<1>4. ASSUME NEW d \in Db
      PROVE  Done(d) \in Outcomes /\ Refuse(d, 400) \in Outcomes
  BY EmptyType DEF Done, Refuse, Outcome, Outcomes
<1>5. ASSUME NEW d \in Db, NEW p \in Ptr
      PROVE  Created(d, p) \in Outcomes
  BY OutcomeTypes
<1>6. handle_obj_create(db, new) \in Outcomes
      /\ handle_set_create(db, new) \in Outcomes
  BY <1>2, <1>5 DEF handle_obj_create, handle_set_create, Ptr
<1>7. handle_obj_init(db, op, new) \in Outcomes
  <2>1. obj_put_all(db, new.obj, op.members) \in Db
    BY <1>1, <1>2 DEF Db, obj_put_all
  <2>2. QED
    BY <1>2, <1>4, <1>5, <2>1 DEF handle_obj_init, Ptr
<1>8. handle_set_init(db, op, new) \in Outcomes
  <2>1. set_add_all(db, new.set, op.elems) \in Db
    BY <1>1, <1>2 DEF Db, set_add_all
  <2>2. QED
    BY <1>2, <1>4, <1>5, <2>1 DEF handle_set_init, Ptr
<1>9. handle_obj_member_put(db, op) \in Outcomes
  <2>1. op.ptr \in ObjPtr => obj_member_put(db, op.ptr, op.name, op.val) \in Db
    BY <1>1, StoreTypes
  <2>2. QED
    BY <1>3, <1>4, <2>1, GuardType DEF handle_obj_member_put
<1>10. handle_obj_member_del(db, op) \in Outcomes
  <2>1. op.ptr \in ObjPtr => obj_member_del(db, op.ptr, op.name) \in Db
    BY <1>1, StoreTypes
  <2>2. QED
    BY <1>3, <1>4, <2>1, GuardType DEF handle_obj_member_del
<1>11. handle_obj_del(db, op) \in Outcomes
  <2>1. op.ptr \in ObjPtr => obj_del(db, op.ptr) \in Db
    BY <1>1, StoreTypes
  <2>2. QED
    BY <1>4, <2>1, GuardType DEF handle_obj_del
<1>12. handle_set_add(db, op) \in Outcomes
  <2>1. op.ptr \in SetPtr => set_add(db, op.ptr, op.val) \in Db
    BY <1>1, StoreTypes
  <2>2. QED
    BY <1>3, <1>4, <2>1, GuardType DEF handle_set_add
<1>13. handle_set_remove(db, op) \in Outcomes
  <2>1. op.ptr \in SetPtr => set_remove(db, op.ptr, op.val) \in Db
    BY <1>1, StoreTypes
  <2>2. QED
    BY <1>3, <1>4, <2>1, GuardType DEF handle_set_remove
<1>14. handle_set_del(db, op) \in Outcomes
  <2>1. op.ptr \in SetPtr => set_del(db, op.ptr) \in Db
    BY <1>1, StoreTypes
  <2>2. QED
    BY <1>4, <2>1, GuardType DEF handle_set_del
<1>15. QED
  BY <1>6, <1>7, <1>8, <1>9, <1>10, <1>11, <1>12, <1>13, <1>14

LEMMA ReadHandlerTypes ==
    ASSUME NEW db \in Db, NEW op \in Op
    PROVE  /\ handle_obj_get(db, op) \in Outcomes
           /\ handle_obj_member_get(db, op) \in Outcomes
           /\ handle_set_get(db, op) \in Outcomes
           /\ handle_ptr_exist(db, op) \in Outcomes
<1>1. op.ptr \in Val /\ op.name \in Names /\ Ptr \subseteq Val
  BY DEF Op, Val
<1>2. /\ Refuse(db, 400) \in Outcomes
      /\ Refuse(db, 404) \in Outcomes
  BY EmptyType DEF Refuse, Outcome, Outcomes
<1>3. handle_obj_get(db, op) \in Outcomes
  <2>1. op.ptr \in ObjPtr => MemberPairs(db.obj[op.ptr]) \subseteq Names \X Val
    BY DEF MemberPairs, Db, Members
  <2>2. op.ptr \in ObjPtr =>
          [Empty(200) EXCEPT !.ptr = op.ptr,
                             !.data = MemberPairs(db.obj[op.ptr])] \in Result
    BY <1>1, <2>1, ZenonT(40) DEF Empty, Result
  <2>3. QED
    BY <1>2, <2>2, GuardType DEF handle_obj_get, Outcome, Outcomes
<1>4. handle_obj_member_get(db, op) \in Outcomes
  <2> DEFINE v == db.obj[op.ptr][op.name]
  <2>1. op.ptr \in ObjPtr /\ v # None => v \in Val
    BY <1>1 DEF Db, Members
  <2>2. op.ptr \in ObjPtr /\ v # None =>
          [Empty(200) EXCEPT !.value = v, !.data = {v}] \in Result
    BY <2>1, ZenonT(40) DEF Empty, Result
  <2>3. QED
    BY <1>2, <2>2, GuardType DEF handle_obj_member_get, Outcome, Outcomes
<1>5. handle_set_get(db, op) \in Outcomes
  <2>1. op.ptr \in SetPtr =>
          [Empty(200) EXCEPT !.ptr = op.ptr, !.data = db.set[op.ptr]] \in Result
    BY <1>1, ZenonT(40) DEF Empty, Result, Db
  <2>2. QED
    BY <1>2, <2>1, GuardType DEF handle_set_get, Outcome, Outcomes
<1>6. handle_ptr_exist(db, op) \in Outcomes
  <2>1. op.ptr \in Ptr =>
          [Empty(200) EXCEPT !.data = IF entity_exist(db, op.ptr)
                                      THEN {op.ptr} ELSE {}] \in Result
    BY <1>1 DEF Empty, Result
  <2>2. QED
    BY <1>2, <2>1 DEF handle_ptr_exist, Outcome, Outcomes
<1>7. QED
  BY <1>3, <1>4, <1>5, <1>6

\* Whatever route an operation takes, a database and a result come back.
THEOREM HandleType ==
    ASSUME NEW db \in Db, NEW op \in Op, NEW new \in New
    PROVE  Handle(db, op, new) \in Outcomes
<1>1. Refuse(db, 400) \in Outcomes /\ Refuse(db, 404) \in Outcomes
  BY EmptyType DEF Refuse, Outcome, Outcomes
<1>2. QED
  BY <1>1, WriteHandlerTypes, ReadHandlerTypes DEF Handle

\* A read leaves the view alone, whatever it answers: nothing under a GET
\* route calls an engine function that writes.
THEOREM ReadKeepsView ==
    ASSUME NEW db \in Db, NEW op \in Op, NEW new \in New,
           ~IsWrite(op)
    PROVE  Handle(db, op, new).db = db
<1>1. op.kind \notin WriteKinds
  BY DEF IsWrite
<1>2. /\ handle_obj_get(db, op).db = db
      /\ handle_obj_member_get(db, op).db = db
      /\ handle_set_get(db, op).db = db
      /\ handle_ptr_exist(db, op).db = db
      /\ Refuse(db, 400).db = db /\ Refuse(db, 404).db = db
  BY DEF handle_obj_get, handle_obj_member_get, handle_set_get,
         handle_ptr_exist, Guard, Refuse, Outcome
<1>3. QED
  BY <1>1, <1>2 DEF Handle, WriteKinds

-----------------------------------------------------------------------------
(***************************************************************************)
(* The stack of batches.                                                   *)
(***************************************************************************)
\* The parts of a frame have their types.
LEMMA FrameParts ==
    ASSUME NEW f \in Frame
    PROVE  /\ f.readonly \in BOOLEAN
           /\ f.ops \in Seq(Op) /\ Len(f.ops) \in Nat
           /\ f.results \in Seq(Result) /\ Len(f.results) \in Nat
           /\ \A j \in 1..Len(f.ops) : f.ops[j] \in Op
           /\ \A j \in 1..Len(f.results) : f.results[j] \in Result
<1>1. f.readonly \in BOOLEAN /\ f.ops \in Seq(Op) /\ f.results \in Seq(Result)
  BY DEF Frame
<1>2. QED
  BY <1>1, LenProperties, ElementOfSeq

\* The handler on top of a stack.
LEMMA StackTop ==
    ASSUME NEW s, IsStack(s)
    PROVE  /\ Len(s) \in Nat /\ Len(s) >= 1
           /\ s[Len(s)] \in Frame /\ WellFormed(s[Len(s)])
           /\ s[1] \in Frame
BY LenProperties, ElementOfSeq DEF IsStack

\* A frame may be replaced by one that is as read-only as it was.
LEMMA StackReplace ==
    ASSUME NEW s, IsStack(s), NEW f \in Frame, WellFormed(f),
           f.readonly = s[Len(s)].readonly
    PROVE  /\ IsStack([s EXCEPT ![Len(s)] = f])
           /\ Len([s EXCEPT ![Len(s)] = f]) = Len(s)
           /\ [s EXCEPT ![Len(s)] = f][Len(s)] = f
<1> DEFINE t == [s EXCEPT ![Len(s)] = f]
<1>1. Len(s) \in Nat /\ Len(s) >= 1 /\ s \in Seq(Frame)
  BY StackTop DEF IsStack
<1>2. /\ t \in Seq(Frame)
      /\ Len(t) = Len(s)
      /\ \A j \in 1..Len(s) : t[j] = IF j = Len(s) THEN f ELSE s[j]
  BY <1>1, ExceptSeq
<1> HIDE DEF t
<1>3. \A i \in 1..Len(t) : WellFormed(t[i])
  BY <1>1, <1>2 DEF IsStack
<1>4. \A i \in 1..Len(t) - 1 : Len(t[i].results) < Len(t[i].ops)
  BY <1>1, <1>2 DEF IsStack
<1>5. \A i \in 1..Len(t) : t[i].readonly = s[i].readonly
  BY <1>1, <1>2
<1>6. \A i, j \in 1..Len(t) : i < j /\ t[i].readonly => t[j].readonly
  BY <1>2, <1>5 DEF IsStack
<1>7. IsStack(t) /\ Len(t) = Len(s) /\ t[Len(s)] = f
  BY <1>1, <1>2, <1>3, <1>4, <1>6 DEF IsStack
<1>8. QED
  BY <1>7 DEF t

\* FrameOf, for a request or an operation that may run.
LEMMA FrameOfType ==
    ASSUME NEW op \in Op, IsBatch(op) => ~BatchRefused(op)
    PROVE  /\ FrameOf(op) \in Frame
           /\ WellFormed(FrameOf(op))
           /\ Len(FrameOf(op).results) = 0
           /\ ~IsBatch(op) => FrameOf(op).ops = <<op>>
           /\ FrameOf(op).readonly <=> op.kind = "batchGet"
<1> DEFINE f == FrameOf(op)
<1>1. f.results = <<>> /\ f.results \in Seq(Result) /\ Len(f.results) = 0
  BY EmptySeq DEF FrameOf
<1>2. f.readonly <=> op.kind = "batchGet"
  BY DEF FrameOf
<1>3. CASE IsBatch(op)
  <2>1. f.ops = Body[op.body] /\ op.body \in Bodies
    BY <1>3 DEF FrameOf, Op
  <2>2. f.ops \in Seq(Op) /\ Len(f.ops) \in Nat
    BY <2>1, BodyAssumption, LenProperties
  <2>3. Len(f.ops) # 0
    BY <1>3, <2>1 DEF BatchRefused
  <2>4. f.readonly => \A j \in 1..Len(f.ops) : ~IsWrite(f.ops[j])
    BY <1>2, <1>3, <2>1 DEF BatchRefused
  <2>5. f \in Frame
    BY <1>1, <2>2 DEF FrameOf, Frame
  <2>6. QED
    BY <1>1, <1>2, <1>3, <2>2, <2>3, <2>4, <2>5 DEF WellFormed
<1>4. CASE ~IsBatch(op)
  <2>1. f.ops = <<op>>
    BY <1>4 DEF FrameOf
  <2>2. f.ops \in Seq(Op) /\ Len(f.ops) = 1
    BY <2>1
  <2>3. ~f.readonly
    BY <1>2, <1>4 DEF IsBatch, BatchKinds
  <2>4. f \in Frame
    BY <1>1, <2>2 DEF FrameOf, Frame
  <2>5. QED
    BY <1>1, <1>2, <1>4, <2>1, <2>2, <2>3, <2>4 DEF WellFormed
<1>5. QED
  BY <1>3, <1>4

\* TXN_BEGIN starts a stack of one frame.
LEMMA StackStart ==
    ASSUME NEW op \in Op, IsBatch(op) => ~BatchRefused(op)
    PROVE  /\ IsStack(<<FrameOf(op)>>)
           /\ Len(<<FrameOf(op)>>) = 1
<1> DEFINE s == <<FrameOf(op)>>
<1>1. FrameOf(op) \in Frame /\ WellFormed(FrameOf(op))
  BY FrameOfType
<1>2. s \in Seq(Frame) /\ Len(s) = 1 /\ s[1] = FrameOf(op)
  BY <1>1
<1>3. QED
  BY <1>1, <1>2 DEF IsStack

\* The result of an operation that succeeded is recorded.
LEMMA StackRecord ==
    ASSUME NEW s, IsStack(s), NEW r \in Result, r.status < 400,
           Len(s[Len(s)].results) < Len(s[Len(s)].ops)
    PROVE  /\ IsStack(Record(s, r))
           /\ Len(Record(s, r)) = Len(s)
           /\ Record(s, r)[Len(s)].ops = s[Len(s)].ops
           /\ Len(Record(s, r)[Len(s)].results) = Len(s[Len(s)].results) + 1
<1> DEFINE f == s[Len(s)]
           g == [f EXCEPT !.results = Append(@, r)]
<1>1. f \in Frame /\ WellFormed(f)
  BY StackTop
<1>2. /\ f.results \in Seq(Result) /\ Len(f.results) \in Nat
      /\ f.ops \in Seq(Op) /\ Len(f.ops) \in Nat
  BY <1>1, FrameParts
<1>3. /\ g.results = Append(f.results, r)
      /\ g.ops = f.ops /\ g.readonly = f.readonly
      /\ g.results \in Seq(Result)
      /\ Len(g.results) = Len(f.results) + 1
      /\ \A j \in 1..Len(f.results) : g.results[j] = f.results[j]
      /\ g.results[Len(f.results) + 1] = r
  BY <1>1, <1>2, AppendProperties DEF Frame
<1>4. g \in Frame
  BY <1>1, <1>3 DEF Frame
<1>5. \A j \in 1..Len(g.results) : g.results[j].status < 400
  BY <1>1, <1>2, <1>3 DEF WellFormed
<1>6. WellFormed(g)
  BY <1>1, <1>2, <1>3, <1>5 DEF WellFormed
<1>7. Record(s, r) = [s EXCEPT ![Len(s)] = g]
  BY DEF Record
<1> HIDE DEF f, g
<1>8. f = s[Len(s)]
  BY DEF f
<1>9. g.readonly = s[Len(s)].readonly
  BY <1>3, <1>8
<1>10. /\ IsStack([s EXCEPT ![Len(s)] = g])
       /\ Len([s EXCEPT ![Len(s)] = g]) = Len(s)
       /\ [s EXCEPT ![Len(s)] = g][Len(s)] = g
  BY <1>4, <1>6, <1>9, StackReplace
<1>11. QED
  BY <1>3, <1>7, <1>8, <1>10

\* Substitution changes texts only: the operation keeps its route, so no
\* binding can turn a read into a write.
LEMMA SubstituteType ==
    ASSUME NEW op \in Op, NEW results \in Seq(Result),
           Resolvable(op, results)
    PROVE  /\ Substitute(op, results) \in Op
           /\ Substitute(op, results).kind = op.kind
<1>1. CASE op.var = None
  BY <1>1 DEF Substitute
<1>2. CASE op.var # None
  <2> DEFINE b == Bound(op, results)
             swap(x) == IF x = Token THEN b ELSE x
  <2>1. op.var.idx \in Nat /\ op.var.key \in {"ptr", "value"}
    BY <1>2 DEF Op, VarRef
  <2>2. op.var.idx + 1 \in 1..Len(results) /\ b # None
    BY <1>2, <2>1, LenProperties DEF Resolvable
  <2>3. results[op.var.idx + 1] \in Result
    BY <2>2, ElementOfSeq
  <2>4. b \in Val
    BY <2>1, <2>2, <2>3 DEF Bound, Result
  <2>5. op.ptr \in Val /\ op.val \in Val
    BY DEF Op
  <2>6. swap(op.ptr) \in Val /\ swap(op.val) \in Val
    BY <2>4, <2>5
  <2>7. Substitute(op, results)
          = [op EXCEPT !.ptr = swap(@), !.val = swap(@)]
    BY <1>2 DEF Substitute
  <2> HIDE DEF swap
  <2>8. QED
    BY <2>6, <2>7 DEF Op
<1>3. QED
  BY <1>1, <1>2

\* The operation that is due is substituted in its frame.
LEMMA StackSubstitute ==
    ASSUME NEW s, IsStack(s), NEW i \in 1..Len(s[Len(s)].ops), NEW op \in Op,
           op.kind = s[Len(s)].ops[i].kind
    PROVE  /\ IsStack([s EXCEPT ![Len(s)].ops[i] = op])
           /\ Len([s EXCEPT ![Len(s)].ops[i] = op]) = Len(s)
           /\ Len([s EXCEPT ![Len(s)].ops[i] = op][Len(s)].ops)
                = Len(s[Len(s)].ops)
           /\ [s EXCEPT ![Len(s)].ops[i] = op][Len(s)].results
                = s[Len(s)].results
<1> DEFINE f == s[Len(s)]
           ops == [f.ops EXCEPT ![i] = op]
           g == [f EXCEPT !.ops = ops]
<1>1. f \in Frame /\ WellFormed(f)
  BY StackTop
<1>2. f.ops \in Seq(Op) /\ Len(f.ops) \in Nat
  BY <1>1, FrameParts
<1>3. /\ ops \in Seq(Op)
      /\ Len(ops) = Len(f.ops)
      /\ \A j \in 1..Len(f.ops) : ops[j] = IF j = i THEN op ELSE f.ops[j]
  BY <1>2, ExceptSeq
<1>4. f.readonly => \A j \in 1..Len(ops) : ~IsWrite(ops[j])
  BY <1>1, <1>3 DEF WellFormed, IsWrite
<1> HIDE DEF ops
<1>5. /\ g.ops = ops /\ g.results = f.results /\ g.readonly = f.readonly
      /\ g \in Frame
  BY <1>1, <1>3 DEF Frame
<1>6. WellFormed(g)
  BY <1>1, <1>3, <1>4, <1>5 DEF WellFormed
<1>7. [s EXCEPT ![Len(s)].ops[i] = op] = [s EXCEPT ![Len(s)] = g]
  BY DEF ops
<1>8. f = s[Len(s)]
  OBVIOUS
<1> HIDE DEF f, g
<1>9. /\ IsStack([s EXCEPT ![Len(s)] = g])
      /\ Len([s EXCEPT ![Len(s)] = g]) = Len(s)
      /\ [s EXCEPT ![Len(s)] = g][Len(s)] = g
  BY <1>5, <1>6, <1>8, StackReplace
<1>10. QED
  BY <1>3, <1>5, <1>7, <1>8, <1>9

\* A batch starts inside a batch.  Inside a read-only one it is read-only.
LEMMA StackPush ==
    ASSUME NEW s, IsStack(s),
           Len(s[Len(s)].results) < Len(s[Len(s)].ops),
           NEW op, op = s[Len(s)].ops[Len(s[Len(s)].results) + 1],
           IsBatch(op), ~BatchRefused(op)
    PROVE  /\ IsStack(Append(s, FrameOf(op)))
           /\ Len(Append(s, FrameOf(op))) = Len(s) + 1
<1> DEFINE f == s[Len(s)]
           g == FrameOf(op)
           t == Append(s, g)
<1>1. /\ Len(s) \in Nat /\ Len(s) >= 1 /\ s \in Seq(Frame)
      /\ f \in Frame /\ WellFormed(f)
  BY StackTop DEF IsStack
<1>2. Len(f.results) + 1 \in 1..Len(f.ops)
  BY <1>1, FrameParts
<1>3. op \in Op
  BY <1>1, <1>2, FrameParts
<1>4. g \in Frame /\ WellFormed(g) /\ (g.readonly <=> op.kind = "batchGet")
  BY <1>3, FrameOfType
<1>5. f.readonly => g.readonly
  BY <1>1, <1>2, <1>4 DEF WellFormed, IsWrite, IsBatch, BatchKinds
<1> HIDE DEF g
<1>6. /\ t \in Seq(Frame) /\ Len(t) = Len(s) + 1
      /\ \A i \in 1..Len(s) : t[i] = s[i]
      /\ t[Len(s) + 1] = g
  BY <1>1, <1>4, AppendProperties
<1> HIDE DEF t
<1>7. \A i \in 1..Len(t) : WellFormed(t[i])
  BY <1>1, <1>4, <1>6 DEF IsStack
<1>8. ASSUME NEW i \in 1..Len(t) - 1
      PROVE  Len(t[i].results) < Len(t[i].ops)
  <2>1. CASE i = Len(s)
    BY <1>1, <1>6, <2>1
  <2>2. CASE i \in 1..Len(s) - 1
    BY <1>1, <1>6, <2>2 DEF IsStack
  <2>3. QED
    BY <1>1, <1>6, <2>1, <2>2
<1>9. ASSUME NEW i \in 1..Len(t), NEW j \in 1..Len(t), i < j, t[i].readonly
      PROVE  t[j].readonly
  <2>1. i \in 1..Len(s) /\ t[i] = s[i]
    BY <1>1, <1>6, <1>9
  <2>2. CASE j \in 1..Len(s)
    BY <1>6, <1>9, <2>1, <2>2 DEF IsStack
  <2>3. CASE j = Len(s) + 1
    <3>1. Len(s) \in 1..Len(s) /\ (i = Len(s) \/ i < Len(s))
      BY <1>1, <2>1
    <3>2. f.readonly
      BY <1>9, <2>1, <3>1 DEF IsStack
    <3>3. QED
      BY <1>5, <1>6, <2>3, <3>2
  <2>4. QED
    BY <1>1, <1>6, <2>2, <2>3
<1>10. IsStack(t) /\ Len(t) = Len(s) + 1
  BY <1>1, <1>6, <1>7, <1>8, <1>9 DEF IsStack
<1>11. QED
  BY <1>10 DEF t, g

\* A batch inside a batch returns to the operation that ran it.
LEMMA StackPop ==
    ASSUME NEW s, IsStack(s), Len(s) > 1
    PROVE  /\ IsStack(Pop(s))
           /\ Len(Pop(s)) = Len(s) - 1
           /\ Len(Pop(s)[Len(Pop(s))].results) < Len(Pop(s)[Len(Pop(s))].ops)
<1> DEFINE t == Pop(s)
<1>1. Len(s) \in Nat /\ Len(s) > 1 /\ s \in Seq(Frame)
  <2>1. Len(s) \in Nat /\ Len(s) >= 1
    BY StackTop
  <2>2. s \in Seq(Frame)
    BY DEF IsStack
  <2>3. QED
    BY <2>1, <2>2
<1>2. \A i \in 1..Len(s) - 1 : s[i] \in Frame
  BY <1>1, ElementOfSeq
<1>3. /\ t \in Seq(Frame) /\ Len(t) = Len(s) - 1
      /\ \A i \in 1..Len(s) - 1 : t[i] = s[i]
  <2>1. /\ SubSeq(s, 1, Len(s) - 1) \in Seq(Frame)
        /\ Len(SubSeq(s, 1, Len(s) - 1)) = (Len(s) - 1) - 1 + 1
        /\ \A i \in 1..(Len(s) - 1) - 1 + 1 :
              SubSeq(s, 1, Len(s) - 1)[i] = s[1 + i - 1]
    BY <1>1, <1>2, SubSeqProperties
  <2>2. \A i \in 1..Len(s) - 1 : 1 + i - 1 = i
    BY <1>1
  <2>3. QED
    BY <1>1, <2>1, <2>2 DEF Pop
<1> HIDE DEF t
<1>4. \A i \in 1..Len(t) : WellFormed(t[i])
  BY <1>1, <1>3 DEF IsStack
<1>5. /\ \A i \in 1..Len(t) - 1 : Len(t[i].results) < Len(t[i].ops)
      /\ \A i, j \in 1..Len(t) : i < j /\ t[i].readonly => t[j].readonly
  BY <1>1, <1>3 DEF IsStack
<1>6. Len(t[Len(t)].results) < Len(t[Len(t)].ops)
  <2>1. Len(t) \in 1..Len(s) - 1 /\ t[Len(t)] = s[Len(t)]
    BY <1>1, <1>3
  <2>2. QED
    BY <2>1 DEF IsStack
<1>7. IsStack(t) /\ Len(t) = Len(s) - 1
  BY <1>1, <1>3, <1>4, <1>5 DEF IsStack
<1>8. QED
  BY <1>6, <1>7 DEF t

-----------------------------------------------------------------------------
(***************************************************************************)
(* The invariant.  A step of c leaves every other thread's variables       *)
(* alone, so only c's are looked at, and what they say of store and lock.  *)
(***************************************************************************)
\* None is none of the values it stands in for the absence of.
LEMMA NoneIsFresh ==
    None \notin Conns /\ None \notin Op /\ None \notin Txn /\ None \notin Nat
BY ServerAssumption

LEMMA Initial == Init => Invariant
<1> SUFFICES ASSUME Init PROVE Invariant
  OBVIOUS
<1>1. TypeOK
  BY ServerAssumption, EmptySeq DEF Init, TypeOK, Labels
<1>2. TxnWhileOpen /\ LockHeld /\ BaseIsLatest
  BY NoneIsFresh DEF Init, TxnWhileOpen, LockHeld, BaseIsLatest, Open
<1>3. Requested /\ Stacks
  BY DEF Init, Requested, Stacks, StackOf, Open
<1>4. CommitIsAnswered
  BY DEF Init, CommitIsAnswered
<1>5. QED
  BY <1>1, <1>2, <1>3, <1>4 DEF Invariant

\* What a thread's stack says does not depend on other threads.
LEMMA StackStays ==
    ASSUME NEW d \in Conns, StackOf(d),
           pc'[d] = pc[d], req'[d] = req[d], frames'[d] = frames[d]
    PROVE  StackOf(d)'
BY DEF StackOf, Top

LEMMA ReceiveStep ==
    ASSUME Invariant, NEW c \in Conns, Receive(c)
    PROVE  Invariant'
<1> USE DEF Receive, GoTo, Invariant
<1>1. PICK r \in Requests : req' = [req EXCEPT ![c] = r]
  OBVIOUS
<1>2. r \in Op
  BY ServerAssumption
<1>3. pc'[c] = "parsed" /\ \A d \in Conns \ {c} : pc'[d] = pc[d]
  BY DEF TypeOK
<1>4. TypeOK'
  BY <1>1, <1>2 DEF TypeOK, Labels
<1>5. TxnWhileOpen' /\ LockHeld' /\ BaseIsLatest'
  BY <1>3 DEF TxnWhileOpen, LockHeld, BaseIsLatest, Open
<1>6. Requested'
  BY <1>1, <1>2, <1>3 DEF Requested, TypeOK
<1>7. Stacks'
  <2>1. \A d \in Conns \ {c} : StackOf(d)'
    BY <1>1, <1>3, StackStays DEF Stacks, TypeOK
  <2>2. StackOf(c)'
    BY <1>3 DEF StackOf, Open
  <2>3. QED
    BY <2>1, <2>2 DEF Stacks
<1>8. CommitIsAnswered'
  BY <1>3 DEF CommitIsAnswered
<1>9. QED
  BY <1>4, <1>5, <1>6, <1>7, <1>8

\* A request is answered before it has a transaction.
LEMMA RefuseStep ==
    ASSUME Invariant, NEW c \in Conns, pc[c] = "parsed", NEW s \in Nat,
           GoTo(c, "respond"),
           status' = [status EXCEPT ![c] = s],
           UNCHANGED <<store, writer, req, txn, frames, calls, age, detail,
                       reply, applied>>
    PROVE  Invariant'
<1> USE DEF GoTo, Invariant
<1>1. pc'[c] = "respond" /\ \A e \in Conns \ {c} : pc'[e] = pc[e]
  BY DEF TypeOK
<1>2. TypeOK'
  BY DEF TypeOK, Labels
<1>3. TxnWhileOpen' /\ LockHeld' /\ BaseIsLatest'
  BY <1>1 DEF TxnWhileOpen, LockHeld, BaseIsLatest, Open
<1>4. Requested'
  BY <1>1 DEF Requested
<1>5. Stacks'
  <2>1. \A e \in Conns \ {c} : StackOf(e)'
    BY <1>1, StackStays DEF Stacks
  <2>2. StackOf(c)'
    BY <1>1 DEF Stacks, StackOf, Open
  <2>3. QED
    BY <2>1, <2>2 DEF Stacks
<1>6. CommitIsAnswered'
  BY <1>1 DEF CommitIsAnswered, TypeOK
<1>7. QED
  BY <1>2, <1>3, <1>4, <1>5, <1>6

\* A handler changes at most its own view.
LEMMA ViewStep ==
    ASSUME Invariant, NEW c \in Conns, pc[c] \in Open, pc'[c] \in Open,
           \A e \in Conns \ {c} : pc'[e] = pc[e],
           NEW view \in Db, txn' = [txn EXCEPT ![c].view = view],
           UNCHANGED <<store, writer>>
    PROVE  /\ txn' \in [Conns -> Txn \cup {None}]
           /\ TxnWhileOpen' /\ LockHeld' /\ BaseIsLatest'
<1> USE DEF Invariant
<1>1. txn[c] \in Txn /\ txn[c] # None
  BY DEF TxnWhileOpen, TypeOK
<1>2. /\ txn'[c] \in Txn /\ txn'[c] # None
      /\ txn'[c].readonly = txn[c].readonly /\ txn'[c].base = txn[c].base
      /\ \A e \in Conns \ {c} : txn'[e] = txn[e]
  BY <1>1, NoneIsFresh DEF TypeOK, Txn
<1>3. txn' \in [Conns -> Txn \cup {None}]
  BY <1>2 DEF TypeOK
<1>4. TxnWhileOpen'
  BY <1>2 DEF TxnWhileOpen
<1>5. LockHeld' /\ BaseIsLatest'
  BY <1>1, <1>2 DEF LockHeld, BaseIsLatest
<1>6. QED
  BY <1>3, <1>4, <1>5

\* A step that leaves the view alone is one that changes it to what it is.
LEMMA SameView ==
    ASSUME Invariant, NEW c \in Conns, pc[c] \in Open
    PROVE  /\ txn[c] \in Txn
           /\ txn[c].view \in Db
           /\ txn = [txn EXCEPT ![c].view = txn[c].view]
           /\ calls[c] \in 0..MaxCalls
           /\ calls = [calls EXCEPT ![c] = calls[c]]
<1>1. txn[c] \in Txn
  BY DEF Invariant, TxnWhileOpen, TypeOK
<1>2. QED
  BY <1>1 DEF Invariant, TypeOK, Txn

\* A handler fails: its transaction stays open until cleanup.
LEMMA FailStep ==
    ASSUME Invariant, NEW c \in Conns, pc[c] \in {"loop", "exec"},
           NEW s \in Nat, NEW d \in Nat \cup {None},
           GoTo(c, "cleanup"),
           status' = [status EXCEPT ![c] = s],
           detail' = [detail EXCEPT ![c] = d],
           NEW n \in 0..MaxCalls, calls' = [calls EXCEPT ![c] = n],
           NEW view \in Db, txn' = [txn EXCEPT ![c].view = view],
           UNCHANGED <<store, writer, req, frames, age, reply, applied>>
    PROVE  Invariant'
<1> USE DEF GoTo, Invariant
<1>1. pc'[c] = "cleanup" /\ \A e \in Conns \ {c} : pc'[e] = pc[e]
  BY DEF TypeOK
<1>2. /\ txn' \in [Conns -> Txn \cup {None}]
      /\ TxnWhileOpen' /\ LockHeld' /\ BaseIsLatest'
  BY <1>1, ViewStep DEF Open
<1>3. TypeOK'
  BY <1>2 DEF TypeOK, Labels
<1>4. Requested'
  BY <1>1 DEF Requested
<1>5. Stacks'
  <2>1. \A e \in Conns \ {c} : StackOf(e)'
    BY <1>1, StackStays DEF Stacks
  <2>2. StackOf(c)'
    BY <1>1 DEF Stacks, StackOf, Open
  <2>3. QED
    BY <2>1, <2>2 DEF Stacks
<1>6. CommitIsAnswered'
  BY <1>1 DEF CommitIsAnswered, TypeOK
<1>7. QED
  BY <1>2, <1>3, <1>4, <1>5, <1>6

\* It fails without having touched its view.
LEMMA FailQuietly ==
    ASSUME Invariant, NEW c \in Conns, pc[c] \in {"loop", "exec"},
           NEW s \in Nat, NEW d \in Nat,
           GoTo(c, "cleanup"),
           status' = [status EXCEPT ![c] = s],
           detail' = [detail EXCEPT ![c] = d],
           UNCHANGED <<store, writer, req, txn, frames, calls, age, reply,
                       applied>>
    PROVE  Invariant'
<1>1. /\ txn[c].view \in Db
      /\ txn = [txn EXCEPT ![c].view = txn[c].view]
      /\ calls[c] \in 0..MaxCalls
      /\ calls = [calls EXCEPT ![c] = calls[c]]
  BY SameView DEF Open
<1>2. txn' = [txn EXCEPT ![c].view = txn[c].view]
      /\ calls' = [calls EXCEPT ![c] = calls[c]]
  BY <1>1
<1>3. QED
  BY <1>1, <1>2, FailStep

LEMMA FailedOperation ==
    ASSUME Invariant, NEW c \in Conns, pc[c] \in {"loop", "exec"},
           NEW s \in Nat, Fail(c, s),
           UNCHANGED <<store, writer, req, txn, frames, calls, age, reply,
                       applied>>
    PROVE  Invariant'
<1> DEFINE answer == IF IsBatch(req[c]) THEN 400 ELSE s
<1>1. answer \in Nat /\ status' = [status EXCEPT ![c] = answer]
  BY DEF Fail
<1> HIDE DEF answer
<1>2. QED
  BY <1>1, FailQuietly DEF Fail

\* A handler goes on: with another stack, and at most another view.
LEMMA GoOnStep ==
    ASSUME Invariant, NEW c \in Conns, pc[c] \in {"loop", "exec"},
           NEW label \in {"loop", "exec", "end"}, GoTo(c, label),
           NEW t, IsStack(t), frames' = [frames EXCEPT ![c] = t],
           label = "loop" => IsBatch(req[c]),
           ~IsBatch(req[c]) => Len(t) = 1 /\ t[1].ops = <<req[c]>>,
           label = "exec" => Len(t[Len(t)].results) < Len(t[Len(t)].ops),
           label = "end" => /\ Len(t) = 1
                            /\ Len(t[Len(t)].results) = Len(t[Len(t)].ops),
           NEW n \in 0..MaxCalls, calls' = [calls EXCEPT ![c] = n],
           NEW view \in Db, txn' = [txn EXCEPT ![c].view = view],
           UNCHANGED <<store, writer, req, age, status, detail, reply, applied>>
    PROVE  Invariant'
<1> USE DEF GoTo, Invariant
<1>1. /\ pc'[c] = label /\ frames'[c] = t
      /\ \A e \in Conns \ {c} : pc'[e] = pc[e] /\ frames'[e] = frames[e]
  BY DEF TypeOK
<1>2. /\ txn' \in [Conns -> Txn \cup {None}]
      /\ TxnWhileOpen' /\ LockHeld' /\ BaseIsLatest'
  BY <1>1, ViewStep DEF Open
<1>3. TypeOK'
  <2>1. frames' \in [Conns -> Seq(Frame)]
    BY <1>1 DEF TypeOK, IsStack
  <2>2. QED
    BY <1>2, <2>1 DEF TypeOK, Labels
<1>4. Requested'
  BY <1>1 DEF Requested
<1>5. Stacks'
  <2>1. \A e \in Conns \ {c} : StackOf(e)'
    BY <1>1, StackStays DEF Stacks
  <2>2. StackOf(c)'
    BY <1>1 DEF StackOf, Top, Open
  <2>3. QED
    BY <2>1, <2>2 DEF Stacks
<1>6. CommitIsAnswered'
  BY <1>1 DEF CommitIsAnswered, TypeOK
<1>7. QED
  BY <1>2, <1>3, <1>4, <1>5, <1>6

\* TXN_BEGIN: the lock was free, or is not asked for.
LEMMA BeginStep ==
    ASSUME Invariant, NEW c \in Conns, Begin(c)
    PROVE  Invariant'
<1> USE DEF Begin, GoTo, Invariant
<1> DEFINE r == req[c]
           new == [readonly |-> ReadOnlyRequest(r), base |-> store,
                   view |-> store]
<1>1. r \in Op /\ (IsBatch(r) => ~BatchRefused(r))
  BY DEF Requested, Malformed
<1>2. IsStack(<<FrameOf(r)>>) /\ Len(<<FrameOf(r)>>) = 1
  BY <1>1, StackStart
<1>3. new \in Txn /\ new # None /\ new.base = store
      /\ new.readonly = ReadOnlyRequest(r)
  <2>1. ReadOnlyRequest(r) \in BOOLEAN
    BY DEF ReadOnlyRequest
  <2>2. store \in Db
    BY DEF TypeOK
  <2>3. new \in Txn
    BY <2>1, <2>2, Zenon DEF Txn
  <2>4. QED
    BY <2>3, NoneIsFresh
<1>4. /\ pc'[c] = IF IsBatch(r) THEN "loop" ELSE "exec"
      /\ txn'[c] = new
      /\ frames'[c] = <<FrameOf(r)>>
      /\ writer' = IF new.readonly THEN writer ELSE c
      /\ \A e \in Conns \ {c} : /\ pc'[e] = pc[e]
                                /\ txn'[e] = txn[e]
                                /\ frames'[e] = frames[e]
  BY <1>3 DEF TypeOK
<1>5. TypeOK'
  <2>1. frames' \in [Conns -> Seq(Frame)]
    BY <1>2, <1>4 DEF TypeOK, IsStack
  <2>2. txn' \in [Conns -> Txn \cup {None}]
    BY <1>3, <1>4 DEF TypeOK
  <2>3. QED
    BY <2>1, <2>2 DEF TypeOK, Labels
<1> HIDE DEF new
<1>6. TxnWhileOpen'
  BY <1>3, <1>4 DEF TxnWhileOpen, Open
<1>7. LockHeld'
  <2>1. new.readonly \/ writer = None
    BY <1>3
  <2>2. \A e \in Conns : e # None
    BY NoneIsFresh
  <2>3. pc[c] \notin Open
    BY DEF Open
  <2>4. QED
    BY <1>3, <1>4, <2>1, <2>2, <2>3 DEF LockHeld, TxnWhileOpen
<1>8. BaseIsLatest'
  BY <1>3, <1>4 DEF BaseIsLatest
<1>9. Requested'
  BY <1>1, <1>4 DEF Requested
<1>10. Stacks'
  <2>1. \A e \in Conns \ {c} : StackOf(e)'
    BY <1>4, StackStays DEF Stacks
  <2>2. StackOf(c)'
    <3>1. /\ Top(c)' = FrameOf(r)
          /\ frames'[c][1] = FrameOf(r)
      BY <1>2, <1>4 DEF Top
    <3>2. FrameOf(r) \in Frame /\ WellFormed(FrameOf(r))
          /\ Len(FrameOf(r).results) = 0
          /\ (~IsBatch(r) => FrameOf(r).ops = <<r>>)
      BY <1>1, FrameOfType
    <3>3. Len(FrameOf(r).results) < Len(FrameOf(r).ops)
      BY <3>2, FrameParts DEF WellFormed
    <3>4. QED
      BY <1>2, <1>4, <3>1, <3>2, <3>3 DEF StackOf
  <2>3. QED
    BY <2>1, <2>2 DEF Stacks
<1>11. CommitIsAnswered'
  BY <1>4 DEF CommitIsAnswered
<1>12. QED
  BY <1>5, <1>6, <1>7, <1>8, <1>9, <1>10, <1>11

\* What is on top of the stack of a thread that is within its handlers.
LEMMA CurrentHandler ==
    ASSUME Invariant, NEW c \in Conns, pc[c] \in Open
    PROVE  /\ IsStack(frames[c])
           /\ Len(frames[c]) \in Nat /\ Len(frames[c]) >= 1
           /\ Top(c) = frames[c][Len(frames[c])]
           /\ Top(c) \in Frame /\ WellFormed(Top(c))
           /\ Top(c).ops \in Seq(Op) /\ Len(Top(c).ops) \in Nat
           /\ Top(c).results \in Seq(Result) /\ Len(Top(c).results) \in Nat
           /\ Len(Top(c).results) < Len(Top(c).ops) =>
                 Index(Top(c)) \in 1..Len(Top(c).ops) /\ Current(c) \in Op
<1>1. IsStack(frames[c]) /\ Top(c) = frames[c][Len(frames[c])]
  BY DEF Invariant, Stacks, StackOf, Top
<1>2. Top(c) \in Frame /\ WellFormed(Top(c))
      /\ Len(frames[c]) \in Nat /\ Len(frames[c]) >= 1
  BY <1>1, StackTop
<1>3. QED
  BY <1>1, <1>2, FrameParts DEF Index, Current

LEMMA NextOperationStep ==
    ASSUME Invariant, NEW c \in Conns, NextOperation(c)
    PROVE  Invariant'
<1> DEFINE f == Top(c)
           op == Current(c)
<1>1. pc[c] = "loop" /\ pc[c] \in Open /\ IsBatch(req[c])
  BY DEF NextOperation, Open, Invariant, Stacks, StackOf
<1>2. /\ IsStack(frames[c]) /\ f = frames[c][Len(frames[c])]
      /\ f.results \in Seq(Result)
      /\ Len(f.results) \in Nat /\ Len(f.ops) \in Nat
      /\ Index(f) = Len(f.results) + 1
  BY <1>1, CurrentHandler DEF Index
<1>3. Len(f.results) < Len(f.ops)
  BY <1>2 DEF NextOperation
<1>4. Index(f) \in 1..Len(f.ops) /\ op \in Op /\ op = f.ops[Index(f)]
  BY <1>1, <1>3, CurrentHandler DEF Current
<1>5. /\ txn[c].view \in Db
      /\ txn = [txn EXCEPT ![c].view = txn[c].view]
      /\ calls[c] \in 0..MaxCalls
      /\ calls = [calls EXCEPT ![c] = calls[c]]
  BY <1>1, SameView
<1>6. CASE Resolvable(op, f.results)
  <2> DEFINE o == Substitute(op, f.results)
             t == [frames[c] EXCEPT ![Len(frames[c])].ops[Index(f)] = o]
  <2>1. o \in Op /\ o.kind = op.kind
    BY <1>2, <1>4, <1>6, SubstituteType
  <2> HIDE DEF o
  <2>2. /\ Index(f) \in 1..Len(frames[c][Len(frames[c])].ops)
        /\ o.kind = frames[c][Len(frames[c])].ops[Index(f)].kind
    BY <1>2, <1>4, <2>1
  <2>3. /\ IsStack(t) /\ Len(t) = Len(frames[c])
        /\ Len(t[Len(frames[c])].ops)
             = Len(frames[c][Len(frames[c])].ops)
        /\ t[Len(frames[c])].results = frames[c][Len(frames[c])].results
    BY <1>2, <2>1, <2>2, StackSubstitute
  <2>4. /\ frames' = [frames EXCEPT ![c][Len(frames[c])].ops[Index(f)] = o]
        /\ GoTo(c, "exec")
        /\ UNCHANGED <<store, writer, req, txn, calls, age, status, detail,
                       reply, applied>>
    BY <1>6 DEF NextOperation, o
  <2>5. frames' = [frames EXCEPT ![c] = t]
    BY <2>4
  <2>6. Len(t[Len(t)].results) < Len(t[Len(t)].ops)
    BY <1>2, <1>3, <2>3
  <2> HIDE DEF t, f
  <2>7. QED
    BY <1>1, <1>5, <2>3, <2>4, <2>5, <2>6, GoOnStep
<1>7. CASE ~Resolvable(op, f.results)
  <2>1. /\ Fail(c, 400)
        /\ UNCHANGED <<store, writer, req, txn, frames, calls, age, reply,
                       applied>>
    BY <1>7 DEF NextOperation
  <2>2. QED
    BY <1>1, <2>1, FailedOperation
<1>8. QED
  BY <1>6, <1>7

LEMMA BatchTimeoutStep ==
    ASSUME Invariant, NEW c \in Conns, BatchTimeout(c)
    PROVE  Invariant'
<1>1. pc[c] = "loop" /\ pc[c] \in Open
  BY DEF BatchTimeout, Open
<1>2. QED
  <2> DEFINE s == IF Len(frames[c]) = 1 THEN 408 ELSE 400
             d == 408
  <2>1. /\ s \in Nat /\ status' = [status EXCEPT ![c] = s]
        /\ d \in Nat /\ detail' = [detail EXCEPT ![c] = d]
    BY DEF BatchTimeout
  <2> HIDE DEF s, d
  <2>2. /\ GoTo(c, "cleanup")
        /\ UNCHANGED <<store, writer, req, txn, frames, calls, age, reply,
                       applied>>
    BY DEF BatchTimeout
  <2>3. QED
    BY <1>1, <2>1, <2>2, FailQuietly

LEMMA BatchDoneStep ==
    ASSUME Invariant, NEW c \in Conns, BatchDone(c)
    PROVE  Invariant'
<1> DEFINE f == Top(c)
<1>1. pc[c] = "loop" /\ pc[c] \in Open /\ IsBatch(req[c])
  BY DEF BatchDone, Open, Invariant, Stacks, StackOf
<1>2. /\ IsStack(frames[c]) /\ f = frames[c][Len(frames[c])]
      /\ Len(frames[c]) \in Nat /\ Len(frames[c]) >= 1
      /\ Len(f.results) \in Nat /\ Len(f.ops) \in Nat
      /\ WellFormed(f)
  BY <1>1, CurrentHandler
<1>3. Len(f.results) = Len(f.ops)
  BY <1>2 DEF BatchDone, Index, WellFormed
<1>4. /\ txn[c].view \in Db
      /\ txn = [txn EXCEPT ![c].view = txn[c].view]
      /\ calls[c] \in 0..MaxCalls
      /\ calls = [calls EXCEPT ![c] = calls[c]]
  BY <1>1, SameView
<1>5. UNCHANGED <<store, writer, req, txn, calls, age, status, detail, reply,
                  applied>>
  BY DEF BatchDone
<1>6. CASE Len(frames[c]) = 1
  <2>1. GoTo(c, "end") /\ frames' = frames
    BY <1>6 DEF BatchDone
  <2>2. frames' = [frames EXCEPT ![c] = frames[c]]
    BY <2>1 DEF Invariant, TypeOK
  <2>3. QED
    BY <1>1, <1>2, <1>3, <1>4, <1>5, <1>6, <2>1, <2>2, GoOnStep
<1>7. CASE Len(frames[c]) > 1
  <2> DEFINE s == Pop(frames[c])
             t == Record(s, Empty(200))
  <2>1. frames' = [frames EXCEPT ![c] = t] /\ pc' = pc
    BY <1>2, <1>7 DEF BatchDone
  <2>2. IsStack(s) /\ Len(s[Len(s)].results) < Len(s[Len(s)].ops)
    BY <1>2, <1>7, StackPop
  <2>3. Empty(200) \in Result /\ Empty(200).status < 400
    BY EmptyType
  <2> HIDE DEF s
  <2>4. IsStack(t)
    BY <2>2, <2>3, StackRecord
  <2>5. GoTo(c, "loop")
    BY <1>1, <2>1 DEF GoTo, Invariant, TypeOK
  <2> HIDE DEF t
  <2>6. QED
    BY <1>1, <1>4, <1>5, <2>1, <2>4, <2>5, GoOnStep
<1>8. \A n \in Nat : n >= 1 => n = 1 \/ n > 1
  OBVIOUS
<1>9. QED
  BY <1>2, <1>6, <1>7, <1>8

LEMMA EnterBatchStep ==
    ASSUME Invariant, NEW c \in Conns, EnterBatch(c)
    PROVE  Invariant'
<1> DEFINE f == Top(c)
           op == Current(c)
<1>1. pc[c] = "exec" /\ pc[c] \in Open /\ IsBatch(op)
  BY DEF EnterBatch, Open
<1>2. Len(f.results) < Len(f.ops)
  BY <1>1 DEF Invariant, Stacks, StackOf
<1>3. /\ IsStack(frames[c]) /\ f = frames[c][Len(frames[c])]
      /\ op = f.ops[Len(f.results) + 1] /\ op \in Op
  BY <1>1, <1>2, CurrentHandler DEF Current, Index
<1>4. /\ txn[c].view \in Db
      /\ txn = [txn EXCEPT ![c].view = txn[c].view]
      /\ calls[c] \in 0..MaxCalls
      /\ calls = [calls EXCEPT ![c] = calls[c]]
  BY <1>1, SameView
<1>5. UNCHANGED <<store, writer, req, txn, calls, age, reply, applied>>
  BY DEF EnterBatch
<1>6. CASE BatchRefused(op)
  <2>1. Fail(c, 400) /\ UNCHANGED frames
    BY <1>6 DEF EnterBatch
  <2>2. QED
    BY <1>1, <1>5, <2>1, FailedOperation
<1>7. CASE ~BatchRefused(op)
  <2> DEFINE t == Append(frames[c], FrameOf(op))
  <2>1. frames' = [frames EXCEPT ![c] = t] /\ GoTo(c, "loop")
        /\ UNCHANGED <<status, detail>>
    BY <1>7 DEF EnterBatch
  <2>2. IsStack(t)
    BY <1>1, <1>2, <1>3, <1>7, StackPush
  <2>3. IsBatch(req[c])
    \* a lone operation that is a batch would be the request itself
    <3>1. SUFFICES ASSUME ~IsBatch(req[c]) PROVE FALSE
      OBVIOUS
    <3>2. Len(frames[c]) = 1 /\ f.ops = <<req[c]>>
      BY <1>1, <1>3, <3>1 DEF Invariant, Stacks, StackOf
    <3>3. op = req[c]
      BY <1>1, <1>2, <1>3, <3>2, CurrentHandler
    <3>4. QED
      BY <1>1, <3>1, <3>3
  <2> HIDE DEF t
  <2>4. QED
    BY <1>1, <1>4, <1>5, <2>1, <2>2, <2>3, GoOnStep
<1>8. QED
  BY <1>6, <1>7

\* The result of a handler fits the stack, whichever handler it is.
LEMMA ExecuteStep ==
    ASSUME Invariant, NEW c \in Conns, Execute(c)
    PROVE  Invariant'
<1> DEFINE f == Top(c)
           out == Handle(txn[c].view, Current(c), Fresh[c][calls[c]])
           n == calls[c] + 1
<1>1. pc[c] = "exec" /\ pc[c] \in Open /\ calls[c] < MaxCalls
  BY DEF Execute, Open
<1>2. Len(f.results) < Len(f.ops)
  BY <1>1 DEF Invariant, Stacks, StackOf
<1>3. /\ IsStack(frames[c]) /\ f = frames[c][Len(frames[c])]
      /\ Len(frames[c]) \in Nat
      /\ Len(f.results) \in Nat /\ Len(f.ops) \in Nat
      /\ Current(c) \in Op
  BY <1>1, <1>2, CurrentHandler
<1>4. txn[c].view \in Db /\ calls[c] \in 0..MaxCalls
  BY <1>1, SameView
<1>5. Fresh[c][calls[c]] \in New
  BY <1>4, ServerAssumption DEF New
<1>6. out.db \in Db /\ out.result \in Result /\ out.result.status \in Nat
  <2>1. out \in Outcomes
    BY <1>3, <1>4, <1>5, HandleType
  <2> HIDE DEF out
  <2>2. QED
    BY <2>1 DEF Outcomes, Result
<1>7. n \in 0..MaxCalls
  BY <1>1, <1>4, ServerAssumption
<1>8. /\ txn' = [txn EXCEPT ![c].view = out.db]
      /\ calls' = [calls EXCEPT ![c] = n]
      /\ UNCHANGED <<store, writer, req, age, reply, applied>>
  BY <1>4 DEF Execute, Invariant, TypeOK
<1> HIDE DEF n
<1>9. CASE out.result.status >= 400
  <2> DEFINE s == out.result.status
             answer == IF IsBatch(req[c]) THEN 400 ELSE s
  <2>1. Fail(c, s) /\ UNCHANGED frames
    BY <1>9 DEF Execute
  <2>2. /\ answer \in Nat /\ s \in Nat
        /\ GoTo(c, "cleanup")
        /\ status' = [status EXCEPT ![c] = answer]
        /\ detail' = [detail EXCEPT ![c] = s]
    BY <1>6, <2>1 DEF Fail
  <2> HIDE DEF answer, s, out
  <2>3. QED
    BY <1>1, <1>6, <1>7, <1>8, <2>1, <2>2, FailStep
<1>10. CASE ~(out.result.status >= 400)
  <2> DEFINE r == out.result
             t == Record(frames[c], r)
             label == IF IsBatch(req[c]) THEN "loop" ELSE "end"
  <2>1. /\ frames' = [frames EXCEPT ![c] = t]
        /\ GoTo(c, label)
        /\ UNCHANGED <<status, detail>>
    BY <1>10 DEF Execute
  <2>2. r \in Result /\ r.status < 400
    BY <1>6, <1>10
  <2>3. Len(frames[c][Len(frames[c])].results)
          < Len(frames[c][Len(frames[c])].ops)
    BY <1>2, <1>3
  <2> HIDE DEF r, out
  <2>4. /\ IsStack(t) /\ Len(t) = Len(frames[c])
        /\ t[Len(frames[c])].ops = frames[c][Len(frames[c])].ops
        /\ Len(t[Len(frames[c])].results)
             = Len(frames[c][Len(frames[c])].results) + 1
    BY <1>3, <2>2, <2>3, StackRecord
  <2> HIDE DEF t
  <2>5. ASSUME ~IsBatch(req[c])
        PROVE  /\ Len(t) = 1 /\ t[1].ops = <<req[c]>>
               /\ Len(t[Len(t)].results) = Len(t[Len(t)].ops)
    <3>1. Len(frames[c]) = 1 /\ frames[c][1].ops = <<req[c]>>
      BY <1>1, <2>5 DEF Invariant, Stacks, StackOf
    <3>2. Len(f.ops) = 1 /\ Len(f.results) = 0
      BY <1>2, <1>3, <3>1
    <3>3. QED
      BY <1>3, <2>4, <3>1, <3>2
  <2>6. /\ label \in {"loop", "exec", "end"} /\ label # "exec"
        /\ label = "loop" => IsBatch(req[c])
        /\ label = "end" => ~IsBatch(req[c])
    OBVIOUS
  <2> HIDE DEF label
  <2>7. UNCHANGED <<store, writer, req, age, status, detail, reply, applied>>
    BY <1>8, <2>1
  <2>8. QED
    BY <1>1, <1>6, <1>7, <1>8, <2>1, <2>4, <2>5, <2>6, <2>7, GoOnStep
<1>11. QED
  BY <1>9, <1>10

\* The transaction is closed.  If it held the lock, nobody does now.
LEMMA CloseStep ==
    ASSUME Invariant, NEW c \in Conns, pc[c] \in {"end", "cleanup"},
           Release(c), GoTo(c, "respond"),
           txn[c].readonly => store' = store
    PROVE  TxnWhileOpen' /\ LockHeld' /\ BaseIsLatest'
<1> USE DEF Release, GoTo, Invariant
<1>1. /\ pc'[c] = "respond" /\ txn'[c] = None
      /\ \A e \in Conns \ {c} : pc'[e] = pc[e] /\ txn'[e] = txn[e]
  BY DEF TypeOK
<1>2. txn[c] # None
  BY DEF TxnWhileOpen, Open
<1>3. TxnWhileOpen'
  BY <1>1 DEF TxnWhileOpen, Open
<1>4. LockHeld'
  BY <1>1, <1>2, NoneIsFresh DEF LockHeld
<1>5. BaseIsLatest'
  BY <1>1, <1>2 DEF BaseIsLatest, LockHeld
<1>6. QED
  BY <1>3, <1>4, <1>5

\* The end of a request, with or without a commit.
LEMMA EndStep ==
    ASSUME Invariant, NEW c \in Conns, pc[c] \in {"end", "cleanup"},
           Release(c), GoTo(c, "respond"),
           txn[c].readonly => store' = store,
           NEW s \in Nat, status' = [status EXCEPT ![c] = s],
           store' \in Db,
           \/ applied' = applied
           \/ applied' = applied \cup {c} /\ s < 400,
           UNCHANGED <<req, frames, calls, age, detail, reply>>
    PROVE  Invariant'
<1>1. TxnWhileOpen' /\ LockHeld' /\ BaseIsLatest'
  BY CloseStep
<1>2. pc'[c] = "respond" /\ \A e \in Conns \ {c} : pc'[e] = pc[e]
  BY DEF GoTo, Invariant, TypeOK
<1>3. TypeOK'
  BY DEF TypeOK, Labels, GoTo, Release, Invariant
<1>4. Requested'
  BY <1>2 DEF Requested, Invariant
<1>5. Stacks'
  <2>1. \A e \in Conns \ {c} : StackOf(e)'
    BY <1>2, StackStays DEF Stacks, Invariant
  <2>2. StackOf(c)'
    BY <1>2 DEF StackOf, Open
  <2>3. QED
    BY <2>1, <2>2 DEF Stacks
<1>6. CommitIsAnswered'
  BY <1>2 DEF CommitIsAnswered, TypeOK, Invariant
<1>7. QED
  BY <1>1, <1>3, <1>4, <1>5, <1>6 DEF Invariant

\* The steps that end a transaction, and the response.
LEMMA ClosingSteps ==
    ASSUME Invariant, NEW c \in Conns,
           FinishRead(c) \/ Commit(c) \/ CommitFails(c) \/ Cleanup(c)
    PROVE  Invariant'
<1>1. /\ pc[c] \in {"end", "cleanup"} /\ pc[c] \in Open
      /\ Release(c) /\ GoTo(c, "respond")
      /\ UNCHANGED <<req, frames, calls, age, detail, reply>>
  BY DEF FinishRead, Commit, CommitFails, Cleanup, Open
<1>2. txn[c].view \in Db /\ store \in Db /\ status[c] \in Nat
  BY <1>1, SameView DEF Invariant, TypeOK
<1>3. CASE FinishRead(c) \/ CommitFails(c)
  <2> DEFINE s == IF FinishRead(c) THEN 200 ELSE 500
  <2>1. /\ store' = store /\ applied' = applied
        /\ s \in Nat /\ status' = [status EXCEPT ![c] = s]
    BY <1>3 DEF FinishRead, CommitFails
  <2> HIDE DEF s
  <2>2. QED
    BY <1>1, <1>2, <2>1, EndStep
<1>4. CASE Cleanup(c)
  <2>1. /\ store' = store /\ applied' = applied
        /\ status' = [status EXCEPT ![c] = status[c]]
    BY <1>4 DEF Cleanup, Invariant, TypeOK
  <2>2. QED
    BY <1>1, <1>2, <2>1, EndStep
<1>5. CASE Commit(c)
  <2> DEFINE s == IF IsBatch(req[c]) THEN 200
                  ELSE frames[c][1].results[1].status
  <2>1. /\ store' = txn[c].view /\ ~txn[c].readonly
        /\ applied' = applied \cup {c}
        /\ status' = [status EXCEPT ![c] = s]
    BY <1>5 DEF Commit
  <2>2. s \in Nat /\ s < 400
    <3>1. CASE IsBatch(req[c])
      BY <3>1
    <3>2. CASE ~IsBatch(req[c])
      <4>1. pc[c] = "end"
        BY <1>5 DEF Commit
      <4>2. Len(frames[c]) = 1 /\ Len(Top(c).results) = Len(Top(c).ops)
        BY <4>1 DEF Invariant, Stacks, StackOf
      <4>3. /\ Top(c) = frames[c][1] /\ WellFormed(Top(c))
            /\ Top(c).results \in Seq(Result) /\ Len(Top(c).ops) \in Nat
        BY <1>1, <4>2, CurrentHandler
      <4>4. 1 \in 1..Len(Top(c).results)
        BY <4>2, <4>3 DEF WellFormed
      <4>5. Top(c).results[1] \in Result /\ Top(c).results[1].status < 400
        BY <4>3, <4>4, ElementOfSeq DEF WellFormed
      <4>6. QED
        BY <3>2, <4>3, <4>5 DEF Result
    <3>3. QED
      BY <3>1, <3>2
  <2> HIDE DEF s
  <2>3. QED
    BY <1>1, <1>2, <2>1, <2>2, EndStep
<1>6. QED
  BY <1>3, <1>4, <1>5

LEMMA RespondStep ==
    ASSUME Invariant, NEW c \in Conns, Respond(c)
    PROVE  Invariant'
<1>1. PICK s \in Sent(c) : reply' = [reply EXCEPT ![c] = s]
  BY DEF Respond
<1>2. s = status[c] \/ s = 413 \/ s = 500
  BY DEF Sent
<1> USE DEF Respond, GoTo, Invariant
<1>3. /\ pc'[c] = "done" /\ reply'[c] = s /\ s \in Nat
      /\ \A e \in Conns \ {c} : pc'[e] = pc[e] /\ reply'[e] = reply[e]
  BY <1>1, <1>2 DEF TypeOK
<1>4. TypeOK'
  BY <1>1, <1>3 DEF TypeOK, Labels
<1>5. TxnWhileOpen' /\ LockHeld' /\ BaseIsLatest'
  BY <1>3 DEF TxnWhileOpen, LockHeld, BaseIsLatest, Open
<1>6. Requested'
  BY <1>3 DEF Requested
<1>7. Stacks'
  <2>1. \A e \in Conns \ {c} : StackOf(e)'
    BY <1>3, StackStays DEF Stacks
  <2>2. StackOf(c)'
    BY <1>3 DEF StackOf, Open
  <2>3. QED
    BY <2>1, <2>2 DEF Stacks
<1>8. CommitIsAnswered'
  BY <1>2, <1>3 DEF CommitIsAnswered
<1>9. QED
  BY <1>4, <1>5, <1>6, <1>7, <1>8

\* Steps that say nothing about transactions.
LEMMA PassiveStep ==
    ASSUME Invariant, Tick \/ UNCHANGED vars
    PROVE  Invariant'
<1>1. age' \in [Conns -> 0..Timeout]
  <2>1. age \in [Conns -> 0..Timeout] /\ Timeout \in Nat
    BY ServerAssumption DEF Invariant, TypeOK
  <2>2. CASE Tick
    <3>1. age' = [c \in Conns |->
                    IF pc[c] \notin {"idle", "done"} /\ age[c] < Timeout
                    THEN age[c] + 1 ELSE age[c]]
      BY <2>2 DEF Tick
    <3>2. QED
      BY <2>1, <3>1
  <2>3. QED
    BY <2>1, <2>2 DEF vars
<1>2. UNCHANGED <<store, writer, pc, req, txn, frames, calls, status, detail,
                  reply, applied>>
  BY DEF Tick, vars
<1>3. TypeOK'
  BY <1>1, <1>2 DEF Invariant, TypeOK
<1>4. TxnWhileOpen' /\ LockHeld' /\ BaseIsLatest' /\ Requested'
      /\ CommitIsAnswered'
  BY <1>2 DEF Invariant, TxnWhileOpen, LockHeld, BaseIsLatest, Requested,
              CommitIsAnswered
<1>5. Stacks'
  BY <1>2, StackStays DEF Invariant, Stacks
<1>6. QED
  BY <1>3, <1>4, <1>5 DEF Invariant

\* Every step of every thread, and every tick of the clock.
LEMMA Inductive == Invariant /\ [Next]_vars => Invariant'
<1> SUFFICES ASSUME Invariant, [Next]_vars PROVE Invariant'
  OBVIOUS
<1>1. ASSUME NEW c \in Conns, Thread(c) PROVE Invariant'
  <2>1. CASE Receive(c)
    BY <2>1, ReceiveStep
  <2>2. CASE Reject(c)
    <3> DEFINE s == Refusal(req[c])
    <3>1. s \in Nat /\ status' = [status EXCEPT ![c] = s]
      BY <2>2 DEF Reject, Refusal
    <3> HIDE DEF s
    <3>2. QED
      BY <2>2, <3>1, RefuseStep DEF Reject
  <2>3. CASE BeginFails(c)
    <3>1. PICK s \in {400, 500} :
             /\ s = 400 => "alloc" \in Faults /\ HasBody(req[c])
             /\ status' = [status EXCEPT ![c] = s]
      BY <2>3, Zenon DEF BeginFails
    <3>2. /\ pc[c] = "parsed" /\ GoTo(c, "respond")
          /\ UNCHANGED <<store, writer, req, txn, frames, calls, age, detail,
                         reply, applied>>
      BY <2>3, ZenonT(30) DEF BeginFails
    <3>3. s \in Nat /\ status' = [status EXCEPT ![c] = s]
      BY <3>1
    <3>4. QED
      BY <3>2, <3>3, RefuseStep
  <2>4. CASE Begin(c)
    BY <2>4, BeginStep
  <2>5. CASE NextOperation(c)
    BY <2>5, NextOperationStep
  <2>6. CASE BatchTimeout(c)
    BY <2>6, BatchTimeoutStep
  <2>7. CASE BatchDone(c)
    BY <2>7, BatchDoneStep
  <2>8. CASE EnterBatch(c)
    BY <2>8, EnterBatchStep
  <2>9. CASE Execute(c)
    BY <2>9, ExecuteStep
  <2>10. CASE HandlerTimeout(c)
    BY <2>10, FailedOperation DEF HandlerTimeout
  <2>11. CASE AllocationFails(c)
    <3>1. PICK s \in {400, 500} :
             /\ s = 400 => IsBatch(req[c])
             /\ status' = [status EXCEPT ![c] = s]
      BY <2>11, Zenon DEF AllocationFails
    <3> DEFINE d == 500
    <3>2. s \in Nat /\ d \in Nat /\ detail' = [detail EXCEPT ![c] = d]
      BY <2>11 DEF AllocationFails
    <3> HIDE DEF d
    <3>3. /\ pc[c] \in {"loop", "exec"} /\ GoTo(c, "cleanup")
          /\ UNCHANGED <<store, writer, req, txn, frames, calls, age, reply,
                         applied>>
      BY <2>11, ZenonT(30) DEF AllocationFails
    <3>4. QED
      BY <3>1, <3>2, <3>3, FailQuietly
  <2>12. CASE FinishRead(c) \/ Commit(c) \/ CommitFails(c) \/ Cleanup(c)
    BY <2>12, ClosingSteps
  <2>13. CASE Respond(c)
    BY <2>13, RespondStep
  <2>14. QED
    BY <1>1, <2>1, <2>2, <2>3, <2>4, <2>5, <2>6, <2>7, <2>8, <2>9, <2>10,
       <2>11, <2>12, <2>13 DEF Thread
<1>2. CASE Tick \/ AllServed \/ UNCHANGED vars
  BY <1>2, PassiveStep DEF AllServed
<1>3. QED
  BY <1>1, <1>2 DEF Next

-----------------------------------------------------------------------------
(***************************************************************************)
(* The properties.                                                         *)
(***************************************************************************)
\* The invariant holds in every reachable state.
THEOREM InvariantHolds == Spec => []Invariant
BY Initial, Inductive, PTL DEF Spec

\* Every variable keeps its type, whatever the engine answers and whichever
\* call fails.
THEOREM TypeCorrect == Spec => []TypeOK
<1>1. Invariant => TypeOK
  BY DEF Invariant
<1>2. QED
  BY <1>1, InvariantHolds, PTL

\* TXN_BEGIN, TXN_COMMIT and TXN_ABORT give a write transaction the latest
\* database, and keep it the latest one until its end.
THEOREM NeverLosesUpdates == Spec => []NoLostUpdate
<1>1. Invariant => NoLostUpdate
  BY DEF Invariant, NoLostUpdate, BaseIsLatest, LockHeld
<1>2. QED
  BY <1>1, InvariantHolds, PTL

\* No path through a handler, an error path included, keeps a transaction.
THEOREM NeverLeaks == Spec => []NothingLeaks
<1>1. Invariant => NothingLeaks
  BY DEF Invariant, NothingLeaks, TxnWhileOpen, LockHeld, Open
<1>2. QED
  BY <1>1, InvariantHolds, PTL

\* A refusal means that nothing was committed.
THEOREM RefusalIsHarmless == Spec => []RefusedHasNoEffect
<1>1. Invariant => RefusedHasNoEffect
  <2> SUFFICES ASSUME Invariant, NEW c \in Conns,
                      reply[c] \in {400, 404, 408, 409}, c \in applied
               PROVE  FALSE
    BY DEF RefusedHasNoEffect
  <2>1. status[c] \in Nat /\ status[c] < 400
    BY DEF Invariant, TypeOK, CommitIsAnswered
  <2>2. reply[c] # None
    BY NoneIsFresh
  <2>3. reply[c] \in {status[c], 413, 500}
    BY <2>2 DEF Invariant, CommitIsAnswered
  <2>4. QED
    BY <2>1, <2>3
<1>2. QED
  BY <1>1, InvariantHolds, PTL

\* The store changes only by the commit of a complete execution, on the
\* database that execution began with.
THEOREM CommitsAreAtomic == Spec => AllOrNothing
<1> DEFINE Whole ==
      store' # store =>
        \E c \in Conns :
            /\ pc[c] = "end" /\ pc'[c] = "respond"
            /\ txn[c].base = store /\ txn[c].view = store'
            /\ Len(frames[c]) = 1
            /\ Len(frames[c][1].results) = Len(frames[c][1].ops)
<1>1. ASSUME Invariant, [Next]_vars PROVE [Whole]_vars
  <2>1. ASSUME NEW c \in Conns, Thread(c) PROVE Whole
    <3>1. CASE Commit(c)
      <4>1. /\ pc[c] = "end" /\ pc'[c] = "respond"
            /\ ~txn[c].readonly /\ txn[c].view = store'
        BY <1>1, <3>1 DEF Commit, GoTo, Invariant, TypeOK
      <4>2. txn[c] # None /\ txn[c].base = store
        BY <1>1, <4>1 DEF Invariant, TxnWhileOpen, BaseIsLatest, Open
      <4>3. Len(frames[c]) = 1 /\ Len(Top(c).results) = Len(Top(c).ops)
        BY <1>1, <4>1 DEF Invariant, Stacks, StackOf
      <4>4. Top(c) = frames[c][1]
        BY <4>3 DEF Top
      <4>5. QED
        BY <4>1, <4>2, <4>3, <4>4
    <3>2. CASE ~Commit(c)
      <4>1. store' = store
        BY <2>1, <3>2
           DEF Thread, Receive, Reject, Begin, BeginFails, NextOperation,
               BatchTimeout, BatchDone, EnterBatch, Execute, HandlerTimeout,
               AllocationFails, FinishRead, CommitFails, Cleanup, Respond
      <4>2. QED
        BY <4>1
    <3>3. QED
      BY <3>1, <3>2
  <2>2. CASE Tick \/ AllServed \/ UNCHANGED vars
    BY <2>2 DEF Tick, AllServed, vars
  <2>3. QED
    BY <1>1, <2>1, <2>2 DEF Next
<1>2. QED
  BY <1>1, InvariantHolds, PTL DEF Spec, AllOrNothing

(***************************************************************************)
(* A request that is late, or has failed already.                          *)
(***************************************************************************)
Failed(c) ==
    /\ pc[c] \in {"cleanup", "respond", "done"}
    /\ status[c] >= 400
    /\ c \notin applied

Doomed(c) == Late(c) \/ Failed(c)

\* A thread that is late and takes a step of its own is late still, or fails.
LEMMA LateStep ==
    ASSUME Invariant, NEW c \in Conns, Late(c), Thread(c)
    PROVE  Doomed(c)'
<1> DEFINE f == Top(c)
           n == Len(frames[c])
<1>1. /\ pc[c] \in {"loop", "exec"} /\ pc[c] \in Open
      /\ lmjcore_txn_check_timeout(c)
  <2>1. pc[c] \in {"loop", "exec"} /\ Timeout > 0 /\ age[c] = Timeout
    BY DEF Late, WorkLeft
  <2>2. QED
    BY <2>1, ServerAssumption DEF lmjcore_txn_check_timeout, Open
<1>2. /\ IsStack(frames[c]) /\ f = frames[c][n]
      /\ n \in Nat /\ n >= 1
      /\ Len(f.results) \in Nat /\ Len(f.ops) \in Nat
  BY <1>1, CurrentHandler
<1>3. c \notin applied
  BY <1>1 DEF Invariant, CommitIsAnswered
<1>4. pc \in [Conns -> Labels] /\ status \in [Conns -> Nat]
      /\ frames \in [Conns -> Seq(Frame)]
  BY DEF Invariant, TypeOK
<1>5. ASSUME NEW s \in Nat, s >= 400, GoTo(c, "cleanup"),
             status' = [status EXCEPT ![c] = s], applied' = applied
      PROVE  Doomed(c)'
  BY <1>3, <1>4, <1>5 DEF GoTo, Doomed, Failed
<1>6. ASSUME NEW s \in {400, 408}, Fail(c, s), applied' = applied
      PROVE  Doomed(c)'
  <2> DEFINE answer == IF IsBatch(req[c]) THEN 400 ELSE s
  <2>1. answer \in Nat /\ answer >= 400
        /\ status' = [status EXCEPT ![c] = answer]
    BY <1>6 DEF Fail
  <2> HIDE DEF answer
  <2>2. QED
    BY <1>5, <1>6, <2>1 DEF Fail
<1>7. CASE BatchTimeout(c)
  <2> DEFINE answer == IF n = 1 THEN 408 ELSE 400
  <2>1. answer \in Nat /\ answer >= 400
        /\ status' = [status EXCEPT ![c] = answer]
    BY <1>7 DEF BatchTimeout
  <2> HIDE DEF answer
  <2>2. QED
    BY <1>5, <1>7, <2>1 DEF BatchTimeout
<1>8. CASE AllocationFails(c)
  <2>1. PICK s \in {400, 500} :
           /\ s = 400 => IsBatch(req[c])
           /\ status' = [status EXCEPT ![c] = s]
    BY <1>8, Zenon DEF AllocationFails
  <2>2. GoTo(c, "cleanup") /\ applied' = applied
    BY <1>8, ZenonT(30) DEF AllocationFails
  <2>3. s \in Nat /\ s >= 400 /\ status' = [status EXCEPT ![c] = s]
    BY <2>1
  <2>4. QED
    BY <1>5, <2>2, <2>3
<1>9. CASE HandlerTimeout(c)
  BY <1>6, <1>9 DEF HandlerTimeout
<1>10. CASE EnterBatch(c)
  <2>1. pc[c] = "exec" /\ IsBatch(Current(c)) /\ age' = age
        /\ applied' = applied
    BY <1>10 DEF EnterBatch
  <2>2. CASE BatchRefused(Current(c))
    BY <1>6, <1>10, <2>1, <2>2 DEF EnterBatch
  <2>3. CASE ~BatchRefused(Current(c))
    <3> DEFINE g == FrameOf(Current(c))
               t == Append(frames[c], g)
    <3>1. frames' = [frames EXCEPT ![c] = t] /\ GoTo(c, "loop")
      BY <1>10, <2>3 DEF EnterBatch
    <3>2. Current(c) \in Op
      <4>1. Len(f.results) < Len(f.ops)
        BY <2>1 DEF Invariant, Stacks, StackOf
      <4>2. QED
        BY <1>1, <4>1, CurrentHandler DEF Current, Index
    <3>3. g \in Frame /\ WellFormed(g) /\ Len(g.results) = 0
      BY <2>3, <3>2, FrameOfType
    <3> HIDE DEF g
    <3>4. Len(g.ops) \in Nat /\ Len(g.ops) >= 1
      BY <3>3, FrameParts DEF WellFormed
    <3>5. Len(t) = n + 1 /\ t[n + 1] = g
      BY <1>2, <3>3, AppendProperties DEF IsStack
    <3> HIDE DEF t
    <3>6. frames'[c] = t /\ pc'[c] = "loop"
      BY <1>4, <3>1 DEF GoTo
    <3>7. n + 1 \in 1..Len(t) /\ Len(t[n + 1].results) + 0 < Len(t[n + 1].ops)
      BY <1>2, <3>3, <3>4, <3>5
    <3>8. WorkLeft(c)'
      BY <3>5, <3>6, <3>7 DEF WorkLeft
    <3>9. QED
      BY <2>1, <3>8 DEF Doomed, Late
  <2>4. QED
    BY <2>2, <2>3
<1>11. CASE BatchDone(c)
  <2>1. /\ pc[c] = "loop" /\ Len(f.results) + 1 > Len(f.ops)
        /\ age' = age /\ applied' = applied
    BY <1>11 DEF BatchDone, Index
  <2>2. PICK i \in 1..n :
           Len(frames[c][i].results) + (IF i = n THEN 0 ELSE 1)
             < Len(frames[c][i].ops)
    BY <2>1 DEF Late, WorkLeft
  <2>3. i # n
    <3>1. SUFFICES ASSUME i = n PROVE FALSE
      OBVIOUS
    <3>2. Len(f.results) + 0 < Len(f.ops)
      BY <1>2, <2>2, <3>1
    <3>3. QED
      BY <1>2, <2>1, <3>2
  <2>4. i \in 1..n - 1 /\ n > 1
    BY <1>2, <2>2, <2>3
  <2> DEFINE s == Pop(frames[c])
             t == Record(s, Empty(200))
  <2>5. frames' = [frames EXCEPT ![c] = t] /\ pc' = pc
    BY <1>2, <1>11, <2>4 DEF BatchDone
  <2>6. /\ IsStack(s) /\ Len(s[Len(s)].results) < Len(s[Len(s)].ops)
        /\ Len(s) = n - 1
        /\ \A j \in 1..n - 1 : s[j] = frames[c][j]
    BY <1>2, <2>4, StackPop DEF Pop
  <2> HIDE DEF s
  <2>7. Empty(200) \in Result /\ Empty(200).status < 400
    BY EmptyType
  <2>8. /\ Len(t) = n - 1
        /\ t[n - 1].ops = s[n - 1].ops
        /\ Len(t[n - 1].results) = Len(s[n - 1].results) + 1
    <3>1. /\ Len(t) = Len(s)
          /\ t[Len(s)].ops = s[Len(s)].ops
          /\ Len(t[Len(s)].results) = Len(s[Len(s)].results) + 1
      BY <2>6, <2>7, StackRecord
    <3>2. QED
      BY <2>6, <3>1
  <2>9. \A j \in 1..n - 2 : t[j] = frames[c][j]
    <3>1. \A j \in 1..n - 2 : j \in 1..n - 1 /\ j # Len(s)
      BY <1>2, <2>6
    <3>2. DOMAIN s = 1..n - 1
      BY <2>6, LenProperties DEF IsStack
    <3>3. \A j \in DOMAIN s : j # Len(s) => t[j] = s[j]
      BY DEF Record
    <3>4. QED
      BY <2>6, <3>1, <3>2, <3>3
  <2> HIDE DEF t
  <2>10. frames'[c] = t /\ pc'[c] = "loop"
    BY <1>4, <2>1, <2>5
  <2>11. i \in 1..Len(t)
         /\ Len(t[i].results) + (IF i = Len(t) THEN 0 ELSE 1) < Len(t[i].ops)
    <3>1. CASE i = n - 1
      <4>1. Len(t[i].results) = Len(frames[c][i].results) + 1
            /\ t[i].ops = frames[c][i].ops
        BY <2>4, <2>6, <2>8, <3>1
      <4>2. Len(frames[c][i].results) + 1 < Len(frames[c][i].ops)
        BY <2>2, <2>3
      <4>3. Len(t[i].results) < Len(t[i].ops) /\ Len(t[i].results) \in Nat
        BY <1>2, <2>4, <4>1, <4>2, FrameParts, ElementOfSeq DEF IsStack
      <4>4. i = Len(t) /\ i \in 1..Len(t)
        BY <1>2, <2>4, <2>8, <3>1
      <4>5. QED
        BY <4>3, <4>4
    <3>2. CASE i # n - 1
      <4>1. i \in 1..n - 2 /\ t[i] = frames[c][i]
        BY <1>2, <2>4, <2>9, <3>2
      <4>2. QED
        BY <1>2, <2>2, <2>3, <2>4, <2>8, <3>2, <4>1
    <3>3. QED
      BY <3>1, <3>2
  <2>12. WorkLeft(c)'
    BY <2>10, <2>11 DEF WorkLeft
  <2>13. QED
    BY <2>1, <2>12 DEF Doomed, Late
<1>12. QED
  BY <1>1, <1>7, <1>8, <1>9, <1>10, <1>11
     DEF Thread, Receive, Reject, Begin, BeginFails, NextOperation, Execute,
         FinishRead, Commit, CommitFails, Cleanup, Respond

\* What others do, and the clock, changes nothing of it.
LEMMA DoomedStays ==
    ASSUME Invariant, NEW c \in Conns, Doomed(c),
           pc'[c] = pc[c], frames'[c] = frames[c], age'[c] = age[c],
           status'[c] = status[c], c \in applied' => c \in applied
    PROVE  Doomed(c)'
BY DEF Doomed, Late, WorkLeft, Failed

LEMMA OnceDoomed ==
    ASSUME NEW c \in Conns
    PROVE  Invariant /\ Doomed(c) /\ [Next]_vars => Doomed(c)'
<1> SUFFICES ASSUME Invariant, Doomed(c), [Next]_vars
             PROVE  Doomed(c)'
  OBVIOUS
<1>1. /\ pc \in [Conns -> Labels] /\ frames \in [Conns -> Seq(Frame)]
      /\ age \in [Conns -> 0..Timeout] /\ status \in [Conns -> Nat]
  BY DEF Invariant, TypeOK
<1>2. ASSUME NEW d \in Conns, d # c, Thread(d) PROVE Doomed(c)'
  <2>1. /\ pc'[c] = pc[c] /\ status'[c] = status[c] /\ age' = age
        /\ applied' \subseteq applied \cup {d}
    BY <1>1, <1>2
       DEF Thread, Receive, Reject, Begin, BeginFails, NextOperation,
           BatchTimeout, BatchDone, EnterBatch, Execute, HandlerTimeout,
           AllocationFails, FinishRead, Commit, CommitFails, Cleanup,
           Respond, GoTo, Fail
  <2>2. frames'[c] = frames[c]
    BY <1>1, <1>2
       DEF Thread, Receive, Reject, Begin, BeginFails, NextOperation,
           BatchTimeout, BatchDone, EnterBatch, Execute, HandlerTimeout,
           AllocationFails, FinishRead, Commit, CommitFails, Cleanup,
           Respond
  <2>3. QED
    BY <1>2, <2>1, <2>2, DoomedStays
<1>3. CASE Thread(c)
  <2>1. CASE Late(c)
    BY <1>3, <2>1, LateStep
  <2>2. CASE Failed(c)
    <3>1. Cleanup(c) \/ Respond(c)
      BY <1>3, <2>2
         DEF Failed, Thread, Receive, Reject, Begin, BeginFails,
             NextOperation, BatchTimeout, BatchDone, EnterBatch, Execute,
             HandlerTimeout, AllocationFails, FinishRead, Commit, CommitFails
    <3>2. /\ pc'[c] \in {"respond", "done"} /\ status' = status
          /\ applied' = applied
      BY <1>1, <3>1 DEF Cleanup, Respond, GoTo
    <3>3. QED
      BY <2>2, <3>2 DEF Doomed, Failed
  <2>3. QED
    BY <2>1, <2>2 DEF Doomed
<1>4. CASE Tick
  <2>1. /\ pc' = pc /\ frames' = frames /\ status' = status
        /\ applied' = applied
    BY <1>4 DEF Tick
  <2>2. CASE Late(c)
    <3>1. age[c] = Timeout /\ age'[c] = age[c]
      BY <1>1, <1>4, <2>2, ServerAssumption DEF Tick, Late
    <3>2. QED
      BY <2>1, <3>1, DoomedStays
  <2>3. CASE Failed(c)
    BY <2>1, <2>3 DEF Doomed, Failed
  <2>4. QED
    BY <2>2, <2>3 DEF Doomed
<1>5. CASE AllServed \/ UNCHANGED vars
  BY <1>5, DoomedStays DEF AllServed, vars
<1>6. QED
  BY <1>2, <1>3, <1>4, <1>5 DEF Next

\* A request that runs out of time with operations still to run is late until
\* it fails, and a request that has failed neither commits nor succeeds.
THEOREM LateRequestsFail == Spec => LateNeverSucceeds
<1> SUFFICES ASSUME NEW c \in Conns
             PROVE  Spec => [](Late(c) => []~Succeeded(c))
  BY DEF LateNeverSucceeds
<1>1. Late(c) => Doomed(c)
  BY DEF Doomed
<1>2. Invariant /\ Doomed(c) => ~Succeeded(c)
  <2> SUFFICES ASSUME Invariant, Doomed(c), Succeeded(c) PROVE FALSE
    OBVIOUS
  <2>1. status[c] \in Nat
    BY DEF Invariant, TypeOK
  <2>2. CASE Late(c)
    <3>1. pc[c] \in {"loop", "exec"}
      BY <2>2 DEF Late, WorkLeft
    <3>2. QED
      BY <3>1 DEF Invariant, CommitIsAnswered, Succeeded
  <2>3. CASE Failed(c)
    BY <2>1, <2>3 DEF Failed, Succeeded
  <2>4. QED
    BY <2>2, <2>3 DEF Doomed
<1>3. Invariant /\ Doomed(c) /\ [Next]_vars => Doomed(c)'
  BY OnceDoomed
<1>4. QED
  BY <1>1, <1>2, <1>3, InvariantHolds, PTL DEF Spec

\* A view changes only by a handler that writes, and the check of
\* handle_batch_core keeps those out of every read-only batch, whatever the
\* depth it is nested at.
THEOREM ReadOnlyBatchesRead == Spec => ReadOnlyBatchNeverWrites
<1> DEFINE Kept ==
      \A c \in Conns :
        txn[c] # None /\ txn'[c] # None /\ txn[c].view # txn'[c].view =>
            \A i \in 1..Len(frames[c]) : ~frames[c][i].readonly
<1>1. ASSUME Invariant, [Next]_vars PROVE [Kept]_vars
  <2>1. ASSUME NEW d \in Conns, Thread(d) PROVE Kept
    <3>1. CASE Execute(d)
      <4> SUFFICES ASSUME NEW i \in 1..Len(frames[d]), frames[d][i].readonly
                   PROVE  txn'[d].view = txn[d].view
        BY <1>1, <3>1 DEF Execute, Invariant, TypeOK
      <4>1. pc[d] = "exec" /\ pc[d] \in Open
        BY <3>1 DEF Execute, Open
      <4>2. Len(Top(d).results) < Len(Top(d).ops)
        BY <1>1, <4>1 DEF Invariant, Stacks, StackOf
      <4>3. /\ IsStack(frames[d]) /\ Top(d) = frames[d][Len(frames[d])]
            /\ Len(frames[d]) \in Nat /\ WellFormed(Top(d))
            /\ Index(Top(d)) \in 1..Len(Top(d).ops) /\ Current(d) \in Op
        BY <1>1, <4>1, <4>2, CurrentHandler
      <4>4. Top(d).readonly
        <5>1. Len(frames[d]) \in 1..Len(frames[d])
              /\ (i = Len(frames[d]) \/ i < Len(frames[d]))
          BY <4>3
        <5>2. QED
          BY <4>3, <5>1 DEF IsStack
      <4>5. ~IsWrite(Current(d))
        BY <4>3, <4>4 DEF WellFormed, Current
      <4>6. /\ txn[d] \in Txn /\ txn[d].view \in Db
            /\ Fresh[d][calls[d]] \in New
        BY <1>1, <4>1, SameView, ServerAssumption DEF New
      <4>7. Handle(txn[d].view, Current(d), Fresh[d][calls[d]]).db
              = txn[d].view
        BY <4>3, <4>5, <4>6, ReadKeepsView
      <4>8. txn' = [txn EXCEPT ![d].view = txn[d].view]
        BY <3>1, <4>7 DEF Execute
      <4>9. QED
        BY <1>1, <4>6, <4>8 DEF Invariant, TypeOK
    <3>2. CASE Begin(d)
      <4>1. txn[d] = None /\ \A c \in Conns \ {d} : txn'[c] = txn[c]
        BY <1>1, <3>2
           DEF Begin, Invariant, TxnWhileOpen, TypeOK, Open
      <4>2. QED
        BY <4>1
    <3>3. CASE ~Execute(d) /\ ~Begin(d)
      <4>1. txn' = txn \/ txn' = [txn EXCEPT ![d] = None]
        BY <2>1, <3>3
           DEF Thread, Receive, Reject, BeginFails, NextOperation,
               BatchTimeout, BatchDone, EnterBatch, HandlerTimeout,
               AllocationFails, FinishRead, Commit, CommitFails, Cleanup,
               Respond, Release
      <4>2. QED
        BY <1>1, <4>1 DEF Invariant, TypeOK
    <3>4. QED
      BY <3>1, <3>2, <3>3
  <2>2. CASE Tick \/ AllServed \/ UNCHANGED vars
    BY <2>2 DEF Tick, AllServed, vars
  <2>3. QED
    BY <1>1, <2>1, <2>2 DEF Next
<1>2. QED
  BY <1>1, InvariantHolds, PTL DEF Spec, ReadOnlyBatchNeverWrites

=============================================================================
