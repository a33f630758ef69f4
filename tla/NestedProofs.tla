---------------------------- MODULE NestedProofs -----------------------------
(***************************************************************************)
(* For every JSON tree, nesting limit, path, buffer size and value size:   *)
(* types are kept, the recursion of an init is bounded, nothing of an init *)
(* is stored before all of it is, what is stored is the tree that was      *)
(* sent, an init is refused for its tree exactly if the tree is not as     *)
(* documented and its message leads to the place, and a query answers what *)
(* a walk along its path comes to, so finds what an init was sent.         *)
(***************************************************************************)
EXTENDS NestedProperties, InductionLemmas, FiniteSetTheorems, SequenceTheorems,
        TLAPS

\* A frame is about an object or an array, and has an entity of that kind.
FrameOk(f) ==
    /\ f \in Frame
    /\ IsNested(f.node)
    /\ f.ptr \in IF Type[f.node] = "array" THEN SetPtr ELSE ObjPtr

\* The calls in progress: the first is about the body.
IsStack(s) ==
    /\ s \in Seq(Frame)
    /\ \A i \in 1..Len(s) : FrameOk(s[i])
    /\ s # <<>> => Type[s[1].node] = request.route

\* The loop of a call is not at its end.
Busy(f) == f.next <= Len(Kids[f.node])

\* Calls below the top, and on a failure all of them, are at a kid.
Waiting(s) == \A i \in 1..(Len(s) - 1) : Busy(s[i])
Stopped(s) == \A i \in 1..Len(s) : Busy(s[i])

IsView(db) == db \in Db /\ \A p \in SetPtr : IsFiniteSet(db.set[p])

\* A failure has its cause, and until the commit there is none.
Causeless == pc \in {"start", "fill", "commit"} => cause = None

InitInv ==
    /\ InitTypeOK
    /\ IsView(store) /\ IsView(view)
    /\ IsStack(stack) /\ Waiting(stack)
    /\ pc = "unwind" => Stopped(stack)
    /\ DepthBounded
    /\ NothingUntilCommitted
    /\ Causeless

-----------------------------------------------------------------------------
\* A level puts a value in place.
LEMMA PutType ==
    ASSUME IsView(view), NEW f, FrameOk(f), NEW v \in Val
    PROVE  IsView(Put(f, v))
<1>1. /\ view = [obj |-> view.obj, set |-> view.set]
      /\ view.obj \in [ObjPtr -> Members]
      /\ view.set \in [SetPtr -> SUBSET Val]
      /\ \A p \in SetPtr : IsFiniteSet(view.set[p])
  BY DEF IsView, Db
<1>2. CASE Type[f.node] = "array"
  <2> DEFINE db == set_add(view, f.ptr, v)
  <2>1. f.ptr \in SetPtr
    BY <1>2 DEF FrameOk
  <2>2. db \in Db
    BY <1>1, <2>1 DEF Db, set_add
  <2>3. \A p \in SetPtr : db.set[p] = IF p = f.ptr THEN view.set[p] \cup {v}
                                      ELSE view.set[p]
    BY <1>1, <2>1 DEF set_add
  <2>4. IsFiniteSet(view.set[f.ptr] \cup {v})
    BY <1>1, <2>1, FS_AddElement
  <2>5. QED
    BY <1>1, <1>2, <2>2, <2>3, <2>4 DEF IsView, Put
<1>3. CASE Type[f.node] # "array"
  <2> DEFINE n == Kids[f.node][f.next].key
             db == obj_member_put(view, f.ptr, n, v)
  <2>1. f.ptr \in ObjPtr
    BY <1>3 DEF FrameOk
  <2>2. db \in Db /\ db.set = view.set
    BY <1>1, <2>1 DEF Db, Members, obj_member_put
  <2>3. QED
    BY <1>1, <1>3, <2>2 DEF IsView, Put
<1>4. QED
  BY <1>2, <1>3

\* A kid that is next exists.
LEMMA KidType ==
    ASSUME NEW f, FrameOk(f), Busy(f)
    PROVE  Kids[f.node][f.next] \in Kid
<1>1. Kids[f.node] \in Seq(Kid) /\ f.next \in Nat \ {0}
  BY NestedAssumption DEF FrameOk, Frame
<1>2. f.next \in 1..Len(Kids[f.node])
  BY <1>1, LenProperties DEF Busy
<1>3. QED
  BY <1>1, <1>2, ElementOfSeq

\* A loop goes on to its next kid.
LEMMA StackAdvance ==
    ASSUME NEW s, IsStack(s), s # <<>>, Waiting(s)
    PROVE  /\ IsStack(Advance(s)) /\ Waiting(Advance(s))
           /\ Len(Advance(s)) = Len(s) /\ Advance(s) # <<>>
<1> DEFINE f == s[Len(s)]
           g == [f EXCEPT !.next = @ + 1]
           t == Advance(s)
<1>1. s \in Seq(Frame) /\ Len(s) \in Nat /\ Len(s) \in 1..Len(s)
  BY EmptySeq, LenProperties DEF IsStack
<1>2. FrameOk(f) /\ f \in Frame
  BY <1>1 DEF IsStack, FrameOk
<1>3. g \in Frame /\ g.node = f.node /\ g.ptr = f.ptr
  BY <1>2 DEF Frame
<1>4. FrameOk(g)
  BY <1>2, <1>3 DEF FrameOk
<1>5. t = [s EXCEPT ![Len(s)] = g]
  BY DEF Advance
<1>6. t \in Seq(Frame) /\ Len(t) = Len(s)
      /\ \A i \in 1..Len(s) : t[i] = IF i = Len(s) THEN g ELSE s[i]
  BY <1>1, <1>3, <1>5, ExceptSeq
<1>7. \A i \in 1..Len(t) : FrameOk(t[i]) /\ t[i].node = s[i].node
  BY <1>3, <1>4, <1>6 DEF IsStack
<1>8. IsStack(t)
  BY <1>1, <1>6, <1>7 DEF IsStack
<1>9. Waiting(t)
  BY <1>1, <1>6 DEF Waiting
<1>10. t # <<>>
  BY <1>1, <1>6
<1>11. QED
  BY <1>6, <1>8, <1>9, <1>10

\* A call returns.
LEMMA StackPop ==
    ASSUME NEW s, IsStack(s), s # <<>>
    PROVE  LET t == SubSeq(s, 1, Len(s) - 1)
           IN /\ IsStack(t) /\ Len(t) = Len(s) - 1
              /\ \A i \in 1..Len(t) : t[i] = s[i]
<1> DEFINE t == SubSeq(s, 1, Len(s) - 1)
<1>1. s \in Seq(Frame) /\ Len(s) \in Nat /\ Len(s) >= 1
  BY EmptySeq, LenProperties DEF IsStack
<1>2. /\ t \in Seq(Frame)
      /\ Len(t) = Len(s) - 1
      /\ \A i \in 1..Len(t) : t[i] = s[i]
  <2>1. ASSUME NEW n \in Nat, n = Len(s) - 1, NEW u, u = SubSeq(s, 1, n)
        PROVE  u \in Seq(Frame) /\ Len(u) = n /\ \A i \in 1..n : u[i] = s[i]
    <3>1. n \in Int /\ 1 \in Int /\ \A i \in 1..n : s[i] \in Frame
      BY <1>1, <2>1, ElementOfSeq
    <3>2. /\ u \in Seq(Frame)
          /\ Len(u) = IF 1 <= n THEN n - 1 + 1 ELSE 0
          /\ \A i \in 1..(n - 1 + 1) : u[i] = s[1 + i - 1]
      BY <2>1, <3>1, SubSeqProperties
    <3>3. Len(u) = n
      BY <3>2
    <3>4. ASSUME NEW i \in 1..n
          PROVE  u[i] = s[i]
      <4>1. i \in 1..(n - 1 + 1) /\ 1 + i - 1 = i
        OBVIOUS
      <4>2. QED
        BY <3>2, <4>1
    <3>5. QED
      BY <3>2, <3>3, <3>4
  <2>2. Len(s) - 1 \in Nat
    BY <1>1
  <2>3. QED
    BY <2>1, <2>2
<1> HIDE DEF t
<1>3. t # <<>> => Len(t) >= 1
  BY <1>2, EmptySeq, LenProperties
<1>4. IsStack(t)
  BY <1>1, <1>2, <1>3 DEF IsStack
<1>5. QED
  BY <1>2, <1>4 DEF t

\* A call of encode_obj_node or encode_array_node begins.
LEMMA StackPush ==
    ASSUME NEW s, IsStack(s), s # <<>>, Waiting(s), Busy(s[Len(s)]),
           NEW f, FrameOk(f)
    PROVE  /\ IsStack(Append(s, f)) /\ Waiting(Append(s, f))
           /\ Len(Append(s, f)) = Len(s) + 1 /\ Append(s, f) # <<>>
<1> DEFINE t == Append(s, f)
<1>1. s \in Seq(Frame) /\ Len(s) \in Nat /\ Len(s) >= 1 /\ f \in Frame
  BY EmptySeq, LenProperties DEF IsStack, FrameOk
<1>2. /\ t \in Seq(Frame) /\ t # <<>> /\ Len(t) = Len(s) + 1
      /\ \A i \in 1..Len(s) : t[i] = s[i]
      /\ t[Len(s) + 1] = f
  BY <1>1, AppendProperties
<1> HIDE DEF t
<1>3. \A i \in 1..Len(t) : FrameOk(t[i])
  BY <1>1, <1>2 DEF IsStack
<1>4. IsStack(t)
  BY <1>1, <1>2, <1>3 DEF IsStack
<1>5. Waiting(t)
  BY <1>1, <1>2 DEF Waiting
<1>6. QED
  BY <1>2, <1>4, <1>5 DEF t

-----------------------------------------------------------------------------
\* What a step leaves alone, and what it has to show of the rest.
LEMMA Assemble ==
    ASSUME InitInv,
           request' = request,
           pc' \in {"start", "fill", "unwind", "commit", "cleanup", "done"},
           IsView(store'), IsView(view'),
           made' \in Nat,
           IsStack(stack'), Waiting(stack'),
           pc' = "unwind" => Stopped(stack'),
           pc' \in {"fill", "unwind", "commit"} => stack' # <<>>,
           Len(stack') <= NestMax + 1,
           trail' \in Seq(Place), message' \in Message,
           cause' \in Causes \cup {None},
           answer' \in Response \cup {None},
           NothingUntilCommitted', Causeless'
    PROVE  InitInv'
<1>1. IsStack(stack)' /\ Waiting(stack)' /\ (pc = "unwind" => Stopped(stack))'
  BY DEF IsStack, Waiting, Stopped
<1>2. IsView(store)' /\ IsView(view)' /\ store' \in Db /\ view' \in Db
  BY DEF IsView
<1>3. InitTypeOK'
  BY <1>2 DEF InitInv, InitTypeOK, IsStack
<1>4. QED
  BY <1>1, <1>2, <1>3 DEF InitInv, DepthBounded

-----------------------------------------------------------------------------
(***************************************************************************)
(* Every step of an init preserves its invariant.                          *)
(***************************************************************************)
\* The call on top.
LEMMA TopOk ==
    ASSUME InitInv, stack # <<>>
    PROVE  /\ stack \in Seq(Frame) /\ Len(stack) \in Nat /\ Len(stack) >= 1
           /\ FrameOk(Top) /\ Top.node \in Nodes /\ Top.ptr \in Ptr
           /\ Top.next \in Nat \ {0}
<1>1. stack \in Seq(Frame) /\ Len(stack) \in Nat /\ Len(stack) >= 1
  BY EmptySeq, LenProperties DEF InitInv, IsStack
<1>2. FrameOk(Top)
  BY <1>1 DEF InitInv, IsStack, Top
<1>3. QED
  BY <1>1, <1>2 DEF FrameOk, Frame

\* A step before the end finds nothing stored.
LEMMA StoreKept ==
    ASSUME InitInv, pc # "done", store' = store, request' = request
    PROVE  IsView(store') /\ NothingUntilCommitted' /\ store = InitDb
BY DEF InitInv, NothingUntilCommitted, IsView

\* The entities of a pointer that the engine generates.
LEMMA FreshType ==
    ASSUME NEW i \in 1..Len(Fresh), NEW node \in Nodes, IsNested(node)
    PROVE  FrameOk([node |-> node, ptr |-> Fresh[i][Type[node]], next |-> 1])
<1>1. Fresh[i] \in [object: ObjPtr, array: SetPtr]
  BY NestedAssumption, ElementOfSeq
<1>2. Type[node] \in {"object", "array"}
  BY NestedAssumption DEF IsNested
<1>3. Fresh[i][Type[node]] \in IF Type[node] = "array" THEN SetPtr ELSE ObjPtr
  BY <1>1, <1>2
<1>4. Fresh[i][Type[node]] \in Ptr
  BY <1>3 DEF Ptr
<1>5. QED
  BY <1>3, <1>4 DEF FrameOk, Frame

LEMMA RefusePreserves ==
    ASSUME InitInv, Refuse PROVE InitInv'
<1>1. /\ pc = "start" /\ pc' = "done" /\ cause' = "type"
      /\ answer' = Reply(400, None, 0)
      /\ UNCHANGED <<request, store, view, made, stack, trail, message>>
  BY DEF Refuse, StatusOf
<1>2. answer' \in Response
  BY <1>1 DEF Reply, Response
<1>3. IsView(store') /\ NothingUntilCommitted'
  BY <1>1, StoreKept
<1>4. IsView(view') /\ made' \in Nat /\ IsStack(stack') /\ Waiting(stack')
      /\ Len(stack') <= NestMax + 1 /\ trail' \in Seq(Place) /\ message' \in Message
  BY <1>1 DEF InitInv, InitTypeOK, DepthBounded, IsView, IsStack, Waiting
<1>5. cause' \in Causes /\ Causeless'
  BY <1>1 DEF Causes, Causeless
<1>6. QED
  BY <1>1, <1>2, <1>3, <1>4, <1>5, Assemble

LEMMA ParseFailsPreserves ==
    ASSUME InitInv, ParseFails PROVE InitInv'
<1>1. /\ pc = "start" /\ pc' = "done" /\ cause' = "parse"
      /\ answer' = Reply(400, None, 0)
      /\ UNCHANGED <<request, store, view, made, stack, trail, message>>
  BY DEF ParseFails, StatusOf
<1>2. answer' \in Response
  BY <1>1 DEF Reply, Response
<1>3. IsView(store') /\ NothingUntilCommitted'
  BY <1>1, StoreKept
<1>4. IsView(view') /\ made' \in Nat /\ IsStack(stack') /\ Waiting(stack')
      /\ Len(stack') <= NestMax + 1 /\ trail' \in Seq(Place) /\ message' \in Message
  BY <1>1 DEF InitInv, InitTypeOK, DepthBounded, IsView, IsStack, Waiting
<1>5. cause' \in Causes /\ Causeless'
  BY <1>1 DEF Causes, Causeless
<1>6. QED
  BY <1>1, <1>2, <1>3, <1>4, <1>5, Assemble

LEMMA BeginPreserves ==
    ASSUME InitInv, Begin PROVE InitInv'
<1>1. /\ pc = "start" /\ pc' = "fill" /\ BodyOk /\ made' = 1
      /\ stack' = <<[node |-> request.body, ptr |-> Fresh[1][request.route],
                     next |-> 1]>>
      /\ UNCHANGED <<request, store, view, trail, message, cause, answer>>
  BY DEF Begin
<1>2. /\ request.route \in {"object", "array"} /\ request.body \in Nodes
      /\ Type[request.body] = request.route
  BY <1>1, NestedAssumption DEF InitInv, InitTypeOK, BodyOk, Request
<1>3. IsNested(request.body) /\ 1 \in 1..Len(Fresh)
  BY <1>2, NestedAssumption, EmptySeq, LenProperties DEF IsNested
<1> DEFINE f == [node |-> request.body, ptr |-> Fresh[1][request.route], next |-> 1]
<1>4. FrameOk(f) /\ f \in Frame /\ f.node = request.body
  BY <1>2, <1>3, FreshType DEF FrameOk
<1> HIDE DEF f
<1>5. stack' = <<f>> /\ Len(stack') = 1 /\ stack'[1] = f /\ stack' \in Seq(Frame)
  BY <1>1, <1>4 DEF f
<1>6. IsStack(stack') /\ Waiting(stack') /\ stack' # <<>>
  <2>1. request' = request
    BY <1>1
  <2>2. IsStack(stack')
    BY <1>2, <1>4, <1>5, <2>1 DEF IsStack
  <2>3. QED
    BY <1>5, <2>2 DEF Waiting
<1>7. IsView(store') /\ NothingUntilCommitted'
  BY <1>1, StoreKept
<1>8. Len(stack') <= NestMax + 1
  BY <1>5, NestedAssumption
<1>9. IsView(view') /\ trail' \in Seq(Place) /\ message' \in Message
      /\ answer' \in Response \cup {None}
      /\ cause' \in Causes \cup {None} /\ Causeless'
  BY <1>1 DEF InitInv, InitTypeOK, IsView, Causeless
<1>10. QED
  BY <1>1, <1>6, <1>7, <1>8, <1>9, Assemble

LEMMA BeginFailsPreserves ==
    ASSUME InitInv, BeginFails PROVE InitInv'
<1>1. /\ pc = "start" /\ pc' = "cleanup" /\ cause' \in {"begin", "time"}
      /\ answer' = Reply(StatusOf(cause'), None, 0)
      /\ UNCHANGED <<request, store, view, made, stack, trail, message>>
  BY DEF BeginFails
<1>2. answer' \in Response
  BY <1>1 DEF Reply, Response, StatusOf
<1>3. IsView(store') /\ NothingUntilCommitted'
  BY <1>1, StoreKept
<1>4. IsView(view') /\ made' \in Nat /\ IsStack(stack') /\ Waiting(stack')
      /\ Len(stack') <= NestMax + 1 /\ trail' \in Seq(Place) /\ message' \in Message
  BY <1>1 DEF InitInv, InitTypeOK, DepthBounded, IsView, IsStack, Waiting
<1>5. cause' \in Causes /\ Causeless'
  BY <1>1 DEF Causes, Causeless
<1>6. QED
  BY <1>1, <1>2, <1>3, <1>4, <1>5, Assemble

LEMMA EncodeScalarPreserves ==
    ASSUME InitInv, EncodeScalar PROVE InitInv'
<1>1. /\ pc = "fill" /\ pc' = pc /\ ~Exhausted
      /\ view' = Put(Top, Text[TopKid.node])
      /\ stack' = Advance(stack)
      /\ UNCHANGED <<request, store, made, trail, message, cause, answer>>
  BY DEF EncodeScalar
<1>2. stack # <<>> /\ IsStack(stack) /\ Waiting(stack) /\ Len(stack) <= NestMax + 1
  BY <1>1 DEF InitInv, InitTypeOK, DepthBounded
<1>3. FrameOk(Top) /\ Top.next \in Nat \ {0} /\ Len(Kids[Top.node]) \in Nat
  BY <1>2, TopOk, NestedAssumption, LenProperties
<1>4. Busy(Top)
  BY <1>1, <1>3 DEF Busy, Exhausted, TopKids
<1>5. Text[TopKid.node] \in Val
  BY <1>3, <1>4, KidType, NestedAssumption DEF TopKid, TopKids, Kid, Val
<1>6. IsView(view')
  BY <1>1, <1>3, <1>5, PutType DEF InitInv
<1>7. /\ IsStack(stack') /\ Waiting(stack') /\ stack' # <<>>
      /\ Len(stack') <= NestMax + 1
  BY <1>1, <1>2, StackAdvance DEF IsStack
<1>8. IsView(store') /\ NothingUntilCommitted'
  BY <1>1, StoreKept
<1>9. made' \in Nat /\ trail' \in Seq(Place) /\ message' \in Message
      /\ answer' \in Response \cup {None}
      /\ cause' \in Causes \cup {None} /\ Causeless'
  BY <1>1 DEF InitInv, InitTypeOK, Causeless
<1>10. QED
  BY <1>1, <1>6, <1>7, <1>8, <1>9, Assemble

LEMMA EnterNestedPreserves ==
    ASSUME InitInv, EnterNested PROVE InitInv'
<1> DEFINE f == [node |-> TopKid.node, ptr |-> Fresh[made + 1][Type[TopKid.node]],
                 next |-> 1]
<1>1. /\ pc = "fill" /\ pc' = pc /\ ~Exhausted /\ IsNested(TopKid.node)
      /\ ~(depth >= NestMax) /\ made < Len(Fresh) /\ made' = made + 1
      /\ stack' = Append(stack, f)
      /\ UNCHANGED <<request, store, view, trail, message, cause, answer>>
  BY DEF EnterNested, DepthOk
<1>2. stack # <<>> /\ IsStack(stack) /\ Waiting(stack) /\ made \in Nat
  BY <1>1 DEF InitInv, InitTypeOK
<1>3. /\ FrameOk(Top) /\ Top.next \in Nat \ {0} /\ Len(Kids[Top.node]) \in Nat
      /\ Len(stack) \in Nat
  BY <1>2, TopOk, NestedAssumption, LenProperties
<1>4. Busy(Top)
  BY <1>1, <1>3 DEF Busy, Exhausted, TopKids
<1>5. TopKid.node \in Nodes
  BY <1>3, <1>4, KidType DEF TopKid, TopKids, Kid
<1>6. made + 1 \in 1..Len(Fresh)
  BY <1>1, <1>2, NestedAssumption, LenProperties
<1>7. FrameOk(f)
  BY <1>1, <1>5, <1>6, FreshType
<1> HIDE DEF f
<1>8. /\ IsStack(Append(stack, f)) /\ Waiting(stack')
      /\ stack' # <<>> /\ Len(stack') = Len(stack) + 1
  BY <1>1, <1>2, <1>4, <1>7, StackPush DEF Top
<1>9. IsStack(stack')
  BY <1>1, <1>8 DEF IsStack
<1>10. Len(stack') <= NestMax + 1
  BY <1>1, <1>3, <1>8, NestedAssumption DEF depth
<1>11. IsView(store') /\ NothingUntilCommitted'
  BY <1>1, StoreKept
<1>12. /\ IsView(view') /\ made' \in Nat /\ trail' \in Seq(Place) /\ message' \in Message
       /\ answer' \in Response \cup {None} /\ cause' \in Causes \cup {None}
       /\ Causeless'
  BY <1>1, <1>2 DEF InitInv, InitTypeOK, IsView, Causeless
<1>13. QED
  BY <1>1, <1>8, <1>9, <1>10, <1>11, <1>12, Assemble

\* What is below a call is where it was when the call began.
LEMMA BelowOk ==
    ASSUME InitInv, stack # <<>>
    PROVE  /\ IsStack(Below) /\ Waiting(Below) /\ Stopped(Below)
           /\ Len(Below) = Len(stack) - 1
           /\ Len(stack) > 1 => /\ Below # <<>>
                                /\ Below[Len(Below)] = stack[Len(stack) - 1]
                                /\ FrameOk(stack[Len(stack) - 1])
<1>1. IsStack(stack) /\ Waiting(stack) /\ Len(stack) \in Nat /\ Len(stack) >= 1
  BY TopOk DEF InitInv
<1>2. /\ IsStack(Below) /\ Len(Below) = Len(stack) - 1
      /\ \A i \in 1..Len(Below) : Below[i] = stack[i]
  BY <1>1, StackPop DEF Below
<1>3. Stopped(Below) /\ Waiting(Below)
  BY <1>1, <1>2 DEF Stopped, Waiting
<1>4. ASSUME Len(stack) > 1
      PROVE  /\ Below # <<>>
             /\ Below[Len(Below)] = stack[Len(stack) - 1]
             /\ FrameOk(stack[Len(stack) - 1])
  <2>1. Len(Below) # 0 /\ Len(stack) - 1 \in 1..Len(Below)
        /\ Len(stack) - 1 \in 1..Len(stack)
    BY <1>1, <1>2, <1>4
  <2>2. Below # <<>>
    BY <2>1
  <2>3. QED
    BY <1>1, <1>2, <2>1, <2>2 DEF IsStack
<1>5. QED
  BY <1>2, <1>3, <1>4

LEMMA LeaveNestedPreserves ==
    ASSUME InitInv, LeaveNested PROVE InitInv'
<1>1. /\ pc = "fill" /\ pc' = pc /\ Len(stack) > 1
      /\ view' = Put(stack[Len(stack) - 1], Top.ptr)
      /\ stack' = Advance(Below)
      /\ UNCHANGED <<request, store, made, trail, message, cause, answer>>
  BY DEF LeaveNested
<1>2. stack # <<>> /\ Len(stack) \in Nat /\ Len(stack) <= NestMax + 1
      /\ Top.ptr \in Val
  BY <1>1, TopOk DEF InitInv, InitTypeOK, DepthBounded, Val
<1>3. /\ IsStack(Below) /\ Waiting(Below) /\ Below # <<>>
      /\ Len(Below) = Len(stack) - 1 /\ FrameOk(stack[Len(stack) - 1])
  BY <1>1, <1>2, BelowOk
<1>4. IsView(view')
  BY <1>1, <1>2, <1>3, PutType DEF InitInv
<1>5. /\ IsStack(Advance(Below)) /\ Waiting(Advance(Below))
      /\ Len(Advance(Below)) = Len(Below) /\ Advance(Below) # <<>>
  BY <1>3, StackAdvance
<1>6. /\ IsStack(stack') /\ Waiting(stack') /\ stack' # <<>>
      /\ Len(stack') <= NestMax + 1
  BY <1>1, <1>2, <1>3, <1>5, NestedAssumption DEF IsStack
<1>7. IsView(store') /\ NothingUntilCommitted'
  BY <1>1, StoreKept
<1>8. made' \in Nat /\ trail' \in Seq(Place) /\ message' \in Message
      /\ answer' \in Response \cup {None}
      /\ cause' \in Causes \cup {None} /\ Causeless'
  BY <1>1 DEF InitInv, InitTypeOK, Causeless
<1>9. QED
  BY <1>1, <1>4, <1>6, <1>7, <1>8, Assemble

\* A failure below the loop of a kid: every call on the stack is at a kid.
LEMMA FailurePreserves ==
    ASSUME InitInv, pc = "fill", pc' = "unwind", cause' \in Causes,
           message' = Reason(cause'),
           UNCHANGED <<request, store, view, made, trail, answer>>,
           IsStack(stack'), Waiting(stack'), Stopped(stack'), stack' # <<>>,
           Len(stack') <= NestMax + 1
    PROVE  InitInv'
<1>1. IsView(store') /\ NothingUntilCommitted'
  BY StoreKept
<1>2. /\ IsView(view') /\ made' \in Nat /\ trail' \in Seq(Place)
      /\ answer' \in Response \cup {None} /\ Causeless'
  BY DEF InitInv, InitTypeOK, IsView, Causeless
<1>3. message' \in Message
  <2>1. ReasonLen[cause'] \in Nat /\ <<>> \in Seq(Place)
    BY CauseAssumption
  <2>2. QED
    BY <2>1 DEF Reason, Message
<1>4. QED
  BY <1>1, <1>2, <1>3, Assemble

\* The kid that is refused is that of the call on top.
LEMMA AtKid ==
    ASSUME InitInv, pc = "fill", ~Exhausted, stack' = stack, request' = request
    PROVE  /\ IsStack(stack') /\ Waiting(stack') /\ Stopped(stack')
           /\ stack' # <<>> /\ Len(stack') <= NestMax + 1
<1>1. /\ IsStack(stack) /\ Waiting(stack) /\ stack # <<>>
      /\ Len(stack) <= NestMax + 1
  BY DEF InitInv, InitTypeOK, DepthBounded
<1>2. /\ Len(stack) \in Nat /\ Top.next \in Nat \ {0}
      /\ Len(Kids[Top.node]) \in Nat
  BY <1>1, TopOk, NestedAssumption, LenProperties
<1>3. Busy(stack[Len(stack)])
  BY <1>2 DEF Busy, Exhausted, TopKids, Top
<1>4. \A i \in 1..Len(stack) : i # Len(stack) => i \in 1..(Len(stack) - 1)
  BY <1>2
<1>5. Stopped(stack)
  BY <1>1, <1>3, <1>4 DEF Waiting, Stopped
<1>6. QED
  BY <1>1, <1>5 DEF IsStack

LEMMA KidRefusedPreserves ==
    ASSUME InitInv, KidRefused PROVE InitInv'
<1>1. /\ pc = "fill" /\ ~Exhausted /\ cause' \in Causes /\ pc' = "unwind"
      /\ message' = Reason(cause')
      /\ UNCHANGED <<request, store, view, made, stack, trail, answer>>
  BY DEF KidRefused, Causes
<1>2. QED
  BY <1>1, AtKid, FailurePreserves

LEMMA KidFailsPreserves ==
    ASSUME InitInv, KidFails PROVE InitInv'
<1>1. /\ pc = "fill" /\ ~Exhausted /\ cause' \in Causes /\ pc' = "unwind"
      /\ message' = Reason(cause')
      /\ UNCHANGED <<request, store, view, made, stack, trail, answer>>
  BY DEF KidFails, Causes
<1>2. QED
  BY <1>1, AtKid, FailurePreserves

LEMMA RefFailsPreserves ==
    ASSUME InitInv, RefFails PROVE InitInv'
<1>1. /\ pc = "fill" /\ Len(stack) > 1 /\ cause' \in Causes /\ pc' = "unwind"
      /\ message' = Reason(cause')
      /\ stack' = Below
      /\ UNCHANGED <<request, store, view, made, trail, answer>>
  BY DEF RefFails, Causes
<1>2. stack # <<>> /\ Len(stack) \in Nat /\ Len(stack) <= NestMax + 1
  BY <1>1, TopOk DEF InitInv, InitTypeOK, DepthBounded
<1>3. /\ IsStack(Below) /\ Waiting(Below) /\ Stopped(Below) /\ Below # <<>>
      /\ Len(Below) = Len(stack) - 1
  BY <1>1, <1>2, BelowOk
<1>4. /\ IsStack(stack') /\ Waiting(stack') /\ Stopped(stack')
      /\ stack' # <<>> /\ Len(stack') <= NestMax + 1
  BY <1>1, <1>2, <1>3, NestedAssumption DEF IsStack
<1>5. QED
  BY <1>1, <1>4, FailurePreserves

\* What a level prints.
LEMMA PlaceType ==
    ASSUME NEW f, FrameOk(f), Busy(f)
    PROVE  PlaceOf(f) \in Place /\ PlaceLen(f) \in Nat \ {0}
<1>1. Kids[f.node][f.next] \in Kid /\ f.next \in Nat \ {0}
  BY KidType DEF FrameOk, Frame
<1>2. Kids[f.node][f.next].key \in Keys /\ f.next - 1 \in Nat
  BY <1>1 DEF Kid
<1>3. KeyLen[Kids[f.node][f.next].key] \in Nat
  BY <1>2, NestedAssumption
<1>4. PlaceLen(f) \in Nat \ {0}
  BY <1>3, NestedAssumption DEF PlaceLen
<1>5. QED
  BY <1>2, <1>4 DEF PlaceOf, Place

\* A buffer takes a place while there is room, and is full when there is none.
LEMMA PrintedIs ==
    ASSUME message \in Message, NEW place \in Place, NEW n \in Nat,
           NEW limit \in Nat
    PROVE  /\ Printed(place, n, limit) \in Message
           /\ message.length + n <= limit =>
                 /\ Printed(place, n, limit).places = Append(message.places, place)
                 /\ Printed(place, n, limit).length = message.length + n
           /\ ~(message.length + n <= limit) =>
                 /\ Printed(place, n, limit).places = message.places
                 /\ Printed(place, n, limit).length = limit
<1> DEFINE m == Printed(place, n, limit)
<1>1. /\ message = [places |-> message.places, length |-> message.length]
      /\ message.places \in Seq(Place) /\ message.length \in Nat
  BY DEF Message
<1>2. Append(message.places, place) \in Seq(Place)
  BY <1>1, AppendProperties
<1>3. CASE message.length + n <= limit
  <2>1. m = [places |-> Append(message.places, place), length |-> message.length + n]
    BY <1>3 DEF Printed
  <2>2. message.length + n \in Nat
    BY <1>1
  <2>3. QED
    BY <1>2, <1>3, <2>1, <2>2 DEF Message
<1>4. CASE ~(message.length + n <= limit)
  <2>1. m = [places |-> message.places, length |-> limit]
    BY <1>1, <1>4 DEF Printed
  <2>2. QED
    BY <1>1, <1>4, <2>1 DEF Message
<1>5. QED
  BY <1>3, <1>4

LEMMA PrintedType ==
    ASSUME message \in Message, NEW f, FrameOk(f), Busy(f)
    PROVE  fail_in(f) \in Message /\ Replied(f) \in Message
<1>1. PlaceOf(f) \in Place /\ PlaceLen(f) \in Nat /\ CtxMax \in Nat
      /\ TmpMax \in Nat /\ ReplyMax \in Nat
  BY PlaceType, NestedAssumption
<1>2. QED
  BY <1>1, PrintedIs DEF fail_in, Replied

LEMMA UnwindPreserves ==
    ASSUME InitInv, Unwind PROVE InitInv'
<1>1. /\ pc = "unwind" /\ trail' = Append(trail, PlaceOf(Top)) /\ stack' = Below
      /\ IF Len(stack) = 1
         THEN pc' = "cleanup" /\ answer' = Reply(StatusOf(cause), None, 0)
         ELSE UNCHANGED <<pc, answer>>
      /\ message' = fail_in(Top) \/ message' = Replied(Top)
      /\ UNCHANGED <<request, store, view, made, cause>>
  BY DEF Unwind
<1>2. /\ stack # <<>> /\ Stopped(stack) /\ Len(stack) \in Nat /\ Len(stack) >= 1
      /\ Len(stack) <= NestMax + 1 /\ FrameOk(Top) /\ Top.node \in Nodes
      /\ Top.next \in Nat \ {0}
  BY <1>1, TopOk DEF InitInv, InitTypeOK, DepthBounded
<1>3. /\ IsStack(Below) /\ Waiting(Below) /\ Stopped(Below)
      /\ Len(Below) = Len(stack) - 1 /\ (Len(stack) > 1 => Below # <<>>)
  BY <1>2, BelowOk
<1>5. PlaceOf(Top) \in Place /\ message' \in Message
  <2>1. Busy(Top)
    BY <1>2 DEF Stopped, Top
  <2>2. QED
    BY <1>1, <1>2, <2>1, PlaceType, PrintedType DEF InitInv, InitTypeOK
<1>6. trail' \in Seq(Place)
  BY <1>1, <1>5, AppendProperties DEF InitInv, InitTypeOK
<1>7. StatusOf(cause) \in Nat
  BY DEF StatusOf
<1>8. answer' \in Response \cup {None}
  BY <1>1, <1>7 DEF Reply, Response, InitInv, InitTypeOK
<1>9. /\ IsStack(stack') /\ Waiting(stack') /\ Stopped(stack')
      /\ Len(stack') <= NestMax + 1
  BY <1>1, <1>2, <1>3, NestedAssumption DEF IsStack
<1>10. pc' \in {"unwind", "cleanup"} /\ (pc' = "unwind" => stack' # <<>>)
  BY <1>1, <1>2, <1>3
<1>11. IsView(store') /\ NothingUntilCommitted'
  BY <1>1, StoreKept
<1>12. IsView(view') /\ made' \in Nat /\ cause' \in Causes \cup {None}
  BY <1>1 DEF InitInv, InitTypeOK, IsView
<1>13. Causeless'
  BY <1>10 DEF Causeless
<1>14. request' = request /\ pc' \in {"start", "fill", "unwind", "commit", "cleanup", "done"}
       /\ (pc' \in {"fill", "unwind", "commit"} => stack' # <<>>)
  BY <1>1, <1>10
<1>15. QED
  BY <1>5, <1>6, <1>8, <1>9, <1>11, <1>12, <1>13, <1>14, Assemble

\* What a 201 reports.
LEMMA FinishAnswers ==
    ASSUME InitInv, Finish
    PROVE  answer' \in Response /\ answer'.status = 201
<1>1. Len(stack) = 1 /\ answer' = Reply(201, Top.ptr, Count)
  BY DEF Finish
<1>2. /\ stack # <<>> /\ IsStack(stack)
      /\ FrameOk(Top) /\ Top.ptr \in Ptr /\ Top.next \in Nat \ {0}
  BY <1>1, TopOk DEF InitInv, InitTypeOK, Finish
<1>3. Count \in Nat
  <2>1. request.route \in {"object", "array"}
    BY NestedAssumption DEF InitInv, InitTypeOK, Request
  <2>2. CASE request.route = "object"
    BY <1>2, <2>2 DEF Count
  <2>3. CASE request.route = "array"
    <3>1. Type[Top.node] = "array"
      BY <1>1, <1>2, <2>3 DEF IsStack, Top
    <3>2. Top.ptr \in SetPtr
      BY <1>2, <3>1 DEF FrameOk
    <3>3. IsFiniteSet(view.set[Top.ptr])
      BY <3>2 DEF InitInv, IsView
    <3>4. QED
      BY <2>3, <3>3, FS_CardinalityType DEF Count
  <2>4. QED
    BY <2>1, <2>2, <2>3
<1>4. QED
  BY <1>1, <1>2, <1>3 DEF Reply, Response

LEMMA FinishPreserves ==
    ASSUME InitInv, Finish PROVE InitInv'
<1>1. /\ pc = "fill" /\ pc' = "commit" /\ Len(stack) = 1
      /\ UNCHANGED <<request, store, view, made, stack, trail, message, cause>>
  BY DEF Finish
<1>2. /\ stack # <<>> /\ IsStack(stack) /\ Waiting(stack)
      /\ Len(stack) <= NestMax + 1
  BY <1>1 DEF InitInv, InitTypeOK, DepthBounded
<1>3. answer' \in Response
  BY FinishAnswers
<1>4. IsView(store') /\ NothingUntilCommitted'
  BY <1>1, StoreKept
<1>5. IsView(view') /\ made' \in Nat /\ trail' \in Seq(Place) /\ message' \in Message
      /\ cause' \in Causes \cup {None} /\ Causeless'
  BY <1>1 DEF InitInv, InitTypeOK, IsView, Causeless
<1>6. IsStack(stack') /\ Waiting(stack') /\ stack' # <<>>
      /\ Len(stack') <= NestMax + 1
  BY <1>1, <1>2 DEF IsStack
<1>7. QED
  BY <1>1, <1>3, <1>4, <1>5, <1>6, Assemble

LEMMA CommitPreserves ==
    ASSUME InitInv, Commit PROVE InitInv'
<1>1. /\ pc = "commit" /\ pc' = "done"
      /\ store' = IF request.shared THEN store ELSE view
      /\ (answer' = answer \/ answer' = Reply(500, None, 0))
      /\ UNCHANGED <<request, view, made, stack, trail, message, cause>>
  BY DEF Commit
<1>2. store = InitDb /\ cause = None
  BY <1>1 DEF InitInv, NothingUntilCommitted, Causeless
<1>3. IsView(store') /\ IsView(view')
  BY <1>1 DEF InitInv, IsView
<1>4. NothingUntilCommitted'
  BY <1>1, <1>2 DEF NothingUntilCommitted
<1>5. answer' \in Response \cup {None}
  BY <1>1 DEF InitInv, InitTypeOK, Reply, Response
<1>6. made' \in Nat /\ trail' \in Seq(Place) /\ message' \in Message
      /\ cause' \in Causes \cup {None}
      /\ Causeless' /\ IsStack(stack') /\ Waiting(stack')
      /\ Len(stack') <= NestMax + 1
  BY <1>1 DEF InitInv, InitTypeOK, Causeless, IsStack, Waiting, DepthBounded
<1>7. QED
  BY <1>1, <1>3, <1>4, <1>5, <1>6, Assemble

LEMMA CommitFailsPreserves ==
    ASSUME InitInv, CommitFails PROVE InitInv'
<1>1. /\ pc = "commit" /\ pc' = "cleanup" /\ cause' = "internal"
      /\ answer' = Reply(500, None, 0)
      /\ UNCHANGED <<request, store, view, made, stack, trail, message>>
  BY DEF CommitFails
<1>2. IsView(store') /\ NothingUntilCommitted'
  BY <1>1, StoreKept
<1>3. answer' \in Response
  BY <1>1 DEF Reply, Response
<1>4. cause' \in Causes /\ Causeless'
  BY <1>1 DEF Causes, Causeless
<1>5. IsView(view') /\ made' \in Nat /\ trail' \in Seq(Place) /\ message' \in Message
      /\ IsStack(stack') /\ Waiting(stack') /\ Len(stack') <= NestMax + 1
  BY <1>1 DEF InitInv, InitTypeOK, IsView, IsStack, Waiting, DepthBounded
<1>6. QED
  BY <1>1, <1>2, <1>3, <1>4, <1>5, Assemble

LEMMA CleanupPreserves ==
    ASSUME InitInv, Cleanup PROVE InitInv'
<1>1. /\ pc = "cleanup" /\ pc' = "done"
      /\ view' = IF request.shared THEN view ELSE store
      /\ UNCHANGED <<request, store, made, stack, trail, message, cause, answer>>
  BY DEF Cleanup
<1>2. IsView(store') /\ NothingUntilCommitted'
  BY <1>1, StoreKept
<1>3. IsView(view')
  BY <1>1 DEF InitInv, IsView
<1>4. made' \in Nat /\ trail' \in Seq(Place) /\ message' \in Message
      /\ answer' \in Response \cup {None} /\ cause' \in Causes \cup {None}
      /\ IsStack(stack') /\ Waiting(stack') /\ Len(stack') <= NestMax + 1
      /\ Causeless'
  BY <1>1 DEF InitInv, InitTypeOK, IsStack, Waiting, DepthBounded, Causeless
<1>5. QED
  BY <1>1, <1>2, <1>3, <1>4, Assemble

LEMMA InitStarts == Init => InitInv
<1> SUFFICES ASSUME Init PROVE InitInv
  OBVIOUS
<1>1. /\ request \in Requests /\ pc = "start" /\ store = InitDb /\ view = InitDb
      /\ made = 0 /\ stack = <<>> /\ trail = <<>> /\ cause = None /\ answer = None
      /\ message = [places |-> <<>>, length |-> 0]
  BY DEF Init
<1>2. IsView(store) /\ IsView(view) /\ store \in Db /\ view \in Db
  BY <1>1, NestedAssumption DEF IsView
<1>3. stack \in Seq(Frame) /\ Len(stack) = 0 /\ trail \in Seq(Place)
      /\ message \in Message
  BY <1>1 DEF Message
<1>4. IsStack(stack) /\ Waiting(stack)
  BY <1>1, <1>3 DEF IsStack, Waiting
<1>5. InitTypeOK
  BY <1>1, <1>2, <1>3 DEF InitTypeOK
<1>6. DepthBounded /\ NothingUntilCommitted /\ Causeless
  BY <1>1, <1>3, NestedAssumption
     DEF DepthBounded, NothingUntilCommitted, Causeless
<1>7. QED
  BY <1>1, <1>2, <1>4, <1>5, <1>6 DEF InitInv

LEMMA InitStutters ==
    ASSUME InitInv, UNCHANGED init_vars PROVE InitInv'
BY DEF InitInv, InitTypeOK, IsView, IsStack, Waiting, Stopped, DepthBounded,
       NothingUntilCommitted, Causeless, init_vars

LEMMA InitPreserves == InitInv /\ InitNext => InitInv'
<1> SUFFICES ASSUME InitInv, InitNext PROVE InitInv'
  OBVIOUS
<1>1. \/ Refuse \/ Begin \/ EncodeScalar \/ EnterNested \/ LeaveNested
      \/ KidRefused \/ Unwind \/ Finish \/ Commit \/ Cleanup
      \/ ParseFails \/ BeginFails \/ KidFails \/ RefFails \/ CommitFails
  BY DEF InitNext, InitWork
<1>2. QED
  BY <1>1, RefusePreserves, BeginPreserves, EncodeScalarPreserves,
     EnterNestedPreserves, LeaveNestedPreserves, KidRefusedPreserves,
     UnwindPreserves, FinishPreserves, CommitPreserves, CleanupPreserves,
     ParseFailsPreserves, BeginFailsPreserves, KidFailsPreserves, RefFailsPreserves,
     CommitFailsPreserves

-----------------------------------------------------------------------------
(***************************************************************************)
(* Queries.                                                                *)
(***************************************************************************)
\* While a member is looked for, there is an object and a name to look for; and
\* the buffer of the capped read never passes the limit.
QueryInv ==
    /\ QueryTypeOK
    /\ at \in {"walk", "read"} =>
         /\ cur \in ObjPtr
         /\ seg \in 1..Len(path.segments)
         /\ \A i \in 1..Len(path.segments) : path.segments[i] \in Names
    /\ at = "read" => seg = Len(path.segments) /\ capacity <= max_bytes
    /\ at = "root" => \A i \in 1..Len(path.segments) : path.segments[i] \in Names
    /\ at = "root" => Len(path.segments) >= 1
    /\ LimitIsExact

\* What a path is.
LEMMA PathType ==
    ASSUME path \in Paths
    PROVE  /\ path.segments \in Seq(Names \cup {Blank})
           /\ Len(path.segments) \in Nat
           /\ \A i \in 1..Len(path.segments) : path.segments[i] \in Names \cup {Blank}
           /\ path.root \in Ptr \cup {None}
<1>1. path.segments \in Seq(Names \cup {Blank}) /\ path.root \in Ptr \cup {None}
  BY QueryAssumption DEF Path
<1>2. QED
  BY <1>1, LenProperties, ElementOfSeq

LEMMA LimitType == max_bytes \in Nat /\ max_bytes >= 1
BY QueryAssumption DEF max_bytes

\* A path that is accepted has segments, and each is a name.
LEMMA ParsedOk ==
    ASSUME path \in Paths, segments_parse(path) = "OK"
    PROVE  /\ Len(path.segments) >= 1
           /\ \A i \in 1..Len(path.segments) : path.segments[i] \in Names
<1>1. /\ Len(path.segments) \in Nat
      /\ \A i \in 1..Len(path.segments) : path.segments[i] \in Names \cup {Blank}
  BY PathType
<1>2. Len(path.segments) # 0
  BY DEF segments_parse
<1>3. \A i \in 1..Len(path.segments) : path.segments[i] # Blank
  BY <1>2 DEF segments_parse
<1>4. QED
  BY <1>1, <1>2, <1>3

\* What a read finds has its type.
LEMMA FoundType ==
    ASSUME NEW p \in ObjPtr, NEW n \in Names, NEW size, snap \in Db,
           obj_member_get(p, n, size) \in {"OK", "BUFFER_TOO_SMALL"}
    PROVE  /\ snap.obj[p][n] \in Val /\ Size[snap.obj[p][n]] \in Nat
           /\ obj_member_get(p, n, size) = "OK" <=> ~(Size[snap.obj[p][n]] > size)
<1>1. snap.obj[p][n] \in Val \cup {None}
  BY DEF Db, Members
<1>2. snap.obj[p][n] # None
  BY DEF obj_member_get
<1>3. Size[snap.obj[p][n]] \in Nat
  BY <1>1, <1>2, QueryAssumption
<1>4. QED
  BY <1>1, <1>2, <1>3 DEF obj_member_get

\* A query is answered.
LEMMA AnswerPreserves ==
    ASSUME QueryInv, path \in Paths, NEW rc \in Codes,
           NEW value \in Val \cup {None}, NEW segment \in Nat \cup {None},
           NEW found \in {"raw", "null", "set", None},
           Answer(rc, value, segment, found),
           rc = "VALUE_TOO_LARGE" => Size[snap.obj[cur][Segment]] > max_bytes,
           rc = "OK" => Size[value] <= max_bytes
    PROVE  QueryInv'
<1>1. /\ at' = "answered"
      /\ result' = [rc |-> rc, value |-> value, segment |-> segment, found |-> found]
      /\ UNCHANGED <<path, snap, cur, seg, capacity>>
  BY DEF Answer
<1>2. result' \in QueryResult
  BY <1>1 DEF QueryResult
<1>3. QueryTypeOK'
  BY <1>1, <1>2 DEF QueryInv, QueryTypeOK
<1>4. LimitIsExact'
  BY <1>1 DEF LimitIsExact, Segment, max_bytes
<1>5. QED
  BY <1>1, <1>3, <1>4 DEF QueryInv

\* The same, for an error other than that of the limit.
LEMMA FailPreserves ==
    ASSUME QueryInv, path \in Paths,
           NEW rc \in Codes \ {"OK", "VALUE_TOO_LARGE"},
           NEW found \in {"raw", "null", "set", None}, Fail(rc, found)
    PROVE  QueryInv'
BY AnswerPreserves DEF Fail, QueryInv, QueryTypeOK

\* What a read may return.
LEMMA ReadCodes ==
    ASSUME NEW p, NEW n, NEW size
    PROVE  obj_member_get(p, n, size) \in
             {"ENTITY_NOT_FOUND", "MEMBER_NOT_FOUND", "BUFFER_TOO_SMALL", "OK"}
BY DEF obj_member_get

LEMMA BeginQueryPreserves ==
    ASSUME InitInv, QueryInv, QueryBegins PROVE QueryInv'
<1>1. /\ path' \in Paths /\ snap' = store /\ at' = "parse"
      /\ UNCHANGED <<cur, seg, capacity, result>>
  BY DEF QueryBegins, BeginQuery
<1>2. QueryTypeOK'
  BY <1>1 DEF QueryInv, QueryTypeOK, InitInv, InitTypeOK
<1>3. QED
  BY <1>1, <1>2 DEF QueryInv, LimitIsExact

LEMMA ParsePreserves ==
    ASSUME QueryInv, Parse PROVE QueryInv'
<1>1. at = "parse" /\ path \in Paths
  BY DEF Parse, QueryInv, QueryTypeOK
<1>2. CASE segments_parse(path) = "OK"
  <2>1. at' = "root" /\ UNCHANGED <<path, snap, cur, seg, capacity, result>>
    BY <1>2 DEF Parse
  <2>2. /\ Len(path.segments) >= 1
        /\ \A i \in 1..Len(path.segments) : path.segments[i] \in Names
    BY <1>1, <1>2, ParsedOk
  <2>3. QueryTypeOK'
    BY <1>1, <2>1 DEF QueryInv, QueryTypeOK
  <2>4. QED
    BY <2>1, <2>2, <2>3 DEF QueryInv, LimitIsExact
<1>3. CASE segments_parse(path) # "OK"
  <2>1. Answer(segments_parse(path), None, None, None)
    BY <1>3 DEF Parse
  <2>2. segments_parse(path) \in {"PATH_PARSE", "PATH_TOO_DEEP"}
    BY <1>3 DEF segments_parse
  <2>3. QED
    BY <1>1, <2>1, <2>2, AnswerPreserves DEF Codes
<1>4. QED
  BY <1>2, <1>3

LEMMA RootPreserves ==
    ASSUME QueryInv, Root PROVE QueryInv'
<1>1. /\ at = "root" /\ path \in Paths /\ Len(path.segments) \in Nat
      /\ Len(path.segments) >= 1
      /\ \A i \in 1..Len(path.segments) : path.segments[i] \in Names
  BY PathType DEF Root, QueryInv, QueryTypeOK
<1>2. CASE path.root \in ObjPtr
  <2>1. /\ at' = "walk" /\ cur' = path.root /\ seg' = 1
        /\ UNCHANGED <<path, snap, capacity, result>>
    BY <1>2 DEF Root
  <2>2. QueryTypeOK'
    BY <1>1, <1>2, <2>1 DEF QueryInv, QueryTypeOK
  <2>3. seg' \in 1..Len(path'.segments)
    BY <1>1, <2>1
  <2>4. QED
    BY <1>1, <1>2, <2>1, <2>2, <2>3 DEF QueryInv, LimitIsExact
<1>3. CASE path.root \notin ObjPtr /\ path.root \in SetPtr
  BY <1>1, <1>3, FailPreserves DEF Root, Codes
<1>4. CASE path.root \notin ObjPtr /\ path.root \notin SetPtr
  BY <1>1, <1>4, FailPreserves DEF Root, Codes
<1>5. QED
  BY <1>2, <1>3, <1>4

LEMMA FollowPreserves ==
    ASSUME QueryInv, Follow PROVE QueryInv'
<1> DEFINE rc == obj_member_get(cur, Segment, RefSize)
           value == snap.obj[cur][Segment]
<1>1. /\ at = "walk" /\ path \in Paths /\ Len(path.segments) \in Nat
      /\ seg \in 1..Len(path.segments) /\ seg < Len(path.segments)
      /\ cur \in ObjPtr /\ Segment \in Names /\ snap \in Db
      /\ \A i \in 1..Len(path.segments) : path.segments[i] \in Names
  BY PathType DEF Follow, QueryInv, QueryTypeOK, LastSegment, Segment
<1>2. rc \in {"ENTITY_NOT_FOUND", "MEMBER_NOT_FOUND", "BUFFER_TOO_SMALL", "OK"}
  BY ReadCodes
<1>3. rc = "OK" => value \in Val
  BY <1>1, FoundType
<1> HIDE DEF rc, value
<1>4. CASE rc = "OK" /\ value \in ObjPtr
  <2>1. /\ cur' = value /\ seg' = seg + 1
        /\ UNCHANGED <<path, at, snap, capacity, result>>
    BY <1>4, StoreAssumption DEF Follow, rc, value
  <2>2. QueryTypeOK'
    BY <1>1, <1>4, <2>1 DEF QueryInv, QueryTypeOK
  <2>3. seg' \in 1..Len(path'.segments)
    BY <1>1, <2>1
  <2>4. QED
    BY <1>1, <1>4, <2>1, <2>2, <2>3 DEF QueryInv, LimitIsExact
<1>5. CASE rc = "OK" /\ value \in SetPtr
  <2>1. value \notin ObjPtr /\ value \notin Raw
    BY <1>5, StoreAssumption
  <2>2. Fail("SET_NOT_SUPPORTED", "set")
    BY <1>5, <2>1 DEF Follow, rc, value
  <2>3. QED
    BY <1>1, <2>2, FailPreserves DEF Codes
<1>6. CASE rc = "OK" /\ value \in Raw
  <2>1. value \notin ObjPtr /\ value \notin SetPtr
    BY <1>6, StoreAssumption
  <2>2. Fail("TYPE_MISMATCH", TagOf(value)) /\ TagOf(value) \in {"null", "raw"}
    BY <1>6, <2>1 DEF Follow, rc, value, TagOf
  <2>3. QED
    BY <1>1, <2>2, FailPreserves DEF Codes
<1>7. CASE rc = "BUFFER_TOO_SMALL"
  <2>1. Fail("TYPE_MISMATCH", None)
    BY <1>7 DEF Follow, rc
  <2>2. QED
    BY <1>1, <2>1, FailPreserves DEF Codes
<1>8. CASE rc \in {"ENTITY_NOT_FOUND", "MEMBER_NOT_FOUND"}
  <2>1. Fail(rc, None)
    BY <1>8 DEF Follow, rc
  <2>2. QED
    BY <1>1, <1>8, <2>1, FailPreserves DEF Codes
<1>9. QED
  BY <1>2, <1>3, <1>4, <1>5, <1>6, <1>7, <1>8 DEF Val, Ptr

\* What the capped read knows of its member and its buffer.
LEMMA ReadContext ==
    ASSUME QueryInv, at = "read"
    PROVE  /\ path \in Paths /\ Len(path.segments) \in Nat
           /\ seg \in 1..Len(path.segments) /\ seg = Len(path.segments)
           /\ cur \in ObjPtr /\ Segment \in Names /\ snap \in Db
           /\ capacity \in Nat /\ capacity <= max_bytes
           /\ \A i \in 1..Len(path.segments) : path.segments[i] \in Names
BY PathType DEF QueryInv, QueryTypeOK, Segment

LEMMA StartReadPreserves ==
    ASSUME QueryInv, StartRead PROVE QueryInv'
<1>1. /\ at = "walk" /\ at' = "read" /\ seg = Len(path.segments)
      /\ capacity' = IF FirstCapacity > max_bytes THEN max_bytes ELSE FirstCapacity
      /\ UNCHANGED <<path, snap, cur, seg, result>>
  BY DEF StartRead, LastSegment
<1>2. capacity' \in Nat /\ capacity' <= max_bytes
  BY <1>1, LimitType, QueryAssumption
<1>3. max_bytes' = max_bytes
  BY DEF max_bytes
<1>4. QueryTypeOK'
  BY <1>1, <1>2 DEF QueryInv, QueryTypeOK
<1>5. QED
  BY <1>1, <1>2, <1>3, <1>4 DEF QueryInv, LimitIsExact

LEMMA GrowPreserves ==
    ASSUME QueryInv, Grow PROVE QueryInv'
<1>1. at = "read" /\ obj_member_get(cur, Segment, capacity) = "BUFFER_TOO_SMALL"
  BY DEF Grow
<1>2. Size[snap.obj[cur][Segment]] > capacity
  BY <1>1, ReadContext, FoundType
<1>3. CASE capacity >= max_bytes
  <2>1. Answer("VALUE_TOO_LARGE", None, seg, None)
    BY <1>3 DEF Grow, Fail
  <2>2. Size[snap.obj[cur][Segment]] > max_bytes
    <3>1. capacity = max_bytes
      BY <1>1, <1>3, ReadContext, LimitType
    <3>2. QED
      BY <1>2, <3>1
  <2>3. QED
    BY <1>1, <2>1, <2>2, ReadContext, AnswerPreserves DEF Codes
<1>4. CASE ~(capacity >= max_bytes)
  <2>1. /\ capacity' = IF capacity * 2 > max_bytes THEN max_bytes ELSE capacity * 2
        /\ UNCHANGED <<path, at, snap, cur, seg, result>>
    BY <1>4 DEF Grow
  <2>2. capacity' \in Nat /\ capacity' <= max_bytes
    BY <1>1, <2>1, ReadContext, LimitType
  <2>3. max_bytes' = max_bytes
    BY DEF max_bytes
  <2>4. QueryTypeOK'
    BY <2>1, <2>2 DEF QueryInv, QueryTypeOK
  <2>5. QED
    BY <1>1, <2>1, <2>2, <2>3, <2>4 DEF QueryInv, LimitIsExact
<1>5. QED
  BY <1>3, <1>4

LEMMA ReadPreserves ==
    ASSUME QueryInv, Read PROVE QueryInv'
<1> DEFINE rc == obj_member_get(cur, Segment, capacity)
<1>1. at = "read" /\ rc # "BUFFER_TOO_SMALL"
  BY DEF Read
<1>2. rc \in {"ENTITY_NOT_FOUND", "MEMBER_NOT_FOUND", "OK"}
  BY <1>1, ReadCodes
<1> HIDE DEF rc
<1>3. CASE rc = "OK"
  <2>1. Answer("OK", snap.obj[cur][Segment], None, None)
    BY <1>3 DEF Read, rc
  <2>2. /\ snap.obj[cur][Segment] \in Val
        /\ Size[snap.obj[cur][Segment]] \in Nat
        /\ Size[snap.obj[cur][Segment]] <= capacity
    BY <1>1, <1>3, ReadContext, FoundType DEF rc
  <2>3. Size[snap.obj[cur][Segment]] <= max_bytes
    BY <1>1, <2>2, ReadContext, LimitType
  <2>4. QED
    BY <1>1, <2>1, <2>2, <2>3, ReadContext, AnswerPreserves DEF Codes
<1>4. CASE rc # "OK"
  <2>1. Fail(rc, None)
    BY <1>4 DEF Read, rc
  <2>2. QED
    BY <1>1, <1>2, <1>4, <2>1, ReadContext, FailPreserves DEF Codes
<1>5. QED
  BY <1>3, <1>4

LEMMA QueryAllocPreserves ==
    ASSUME QueryInv, QueryAllocFails PROVE QueryInv'
<1>1. CASE at = "parse" /\ Answer("MEMORY", None, None, None)
  BY <1>1, AnswerPreserves DEF QueryInv, QueryTypeOK, Codes
<1>2. CASE at = "read" /\ Fail("MEMORY", None)
  BY <1>2, ReadContext, FailPreserves DEF Codes
<1>3. QED
  BY <1>1, <1>2 DEF QueryAllocFails

LEMMA BeginQueryFailsPreserves ==
    ASSUME QueryInv, BeginQueryFails PROVE QueryInv'
<1>1. PICK rc \in {"TXN_BEGIN", "TIMEOUT"} :
         result' = [rc |-> rc, value |-> None, segment |-> None, found |-> None]
  BY DEF BeginQueryFails
<1>2. /\ path' \in Paths /\ at' = "answered"
      /\ UNCHANGED <<snap, cur, seg, capacity>>
  BY DEF BeginQueryFails
<1>3. result' \in QueryResult
  BY <1>1 DEF QueryResult, Codes
<1>4. QueryTypeOK'
  BY <1>2, <1>3 DEF QueryInv, QueryTypeOK
<1>5. result'.rc # "OK" /\ result'.rc # "VALUE_TOO_LARGE"
  BY <1>1
<1>6. QED
  BY <1>2, <1>4, <1>5 DEF QueryInv, LimitIsExact

LEMMA QueryPreserves == InitInv /\ QueryInv /\ (QueryBegins \/ QueryNext) => QueryInv'
<1> SUFFICES ASSUME InitInv, QueryInv, QueryBegins \/ QueryNext PROVE QueryInv'
  OBVIOUS
<1>1. QueryBegins \/ Parse \/ Root \/ Follow \/ StartRead \/ Grow \/ Read
      \/ BeginQueryFails \/ QueryAllocFails
  BY DEF QueryNext, QueryWork
<1>2. QED
  BY <1>1, BeginQueryPreserves, ParsePreserves, RootPreserves, FollowPreserves,
     StartReadPreserves, GrowPreserves, ReadPreserves,
     BeginQueryFailsPreserves, QueryAllocPreserves

LEMMA QueryStarts == QueryInit => QueryInv
<1> SUFFICES ASSUME QueryInit PROVE QueryInv
  OBVIOUS
<1>1. EmptyDb \in Db
  BY DEF EmptyDb, Db, NoMembers, Members
<1>2. QED
  BY <1>1 DEF QueryInit, QueryInv, QueryTypeOK, LimitIsExact

LEMMA QueryStutters ==
    ASSUME QueryInv, UNCHANGED query_vars PROVE QueryInv'
BY DEF QueryInv, QueryTypeOK, LimitIsExact, Segment, query_vars, max_bytes

-----------------------------------------------------------------------------
(***************************************************************************)
(* The theorems.                                                           *)
(***************************************************************************)
LEMMA Inductive == Spec => [](InitInv /\ QueryInv)
<1>1. Start => InitInv /\ QueryInv
  BY InitStarts, QueryStarts DEF Start
<1>2. InitInv /\ QueryInv /\ [Next]_vars => (InitInv /\ QueryInv)'
  <2> SUFFICES ASSUME InitInv, QueryInv, [Next]_vars
               PROVE  (InitInv /\ QueryInv)'
    OBVIOUS
  <2>1. CASE InitNext /\ UNCHANGED query_vars
    BY <2>1, InitPreserves, QueryStutters
  <2>2. CASE (QueryBegins \/ QueryNext) /\ UNCHANGED init_vars
    BY <2>2, QueryPreserves, InitStutters
  <2>3. CASE UNCHANGED vars
    BY <2>3, InitStutters, QueryStutters DEF vars
  <2>4. QED
    BY <2>1, <2>2, <2>3 DEF Next, Ended
<1>3. QED
  BY <1>1, <1>2, PTL DEF Spec

\* The type invariant of an init and of a query, whatever is sent and asked.
THEOREM TypeCorrect == Spec => []TypeOK
<1>1. InitInv /\ QueryInv => TypeOK
  BY DEF InitInv, QueryInv, TypeOK
<1>2. QED
  BY <1>1, Inductive, PTL

\* No JSON makes encode_obj_node and encode_array_node call each other deeper
\* than the limit allows.
THEOREM RecursionIsBounded == Spec => []DepthBounded
<1>1. InitInv => DepthBounded
  BY DEF InitInv
<1>2. QED
  BY <1>1, Inductive, PTL

\* An init stores all of its tree or nothing, whichever node or call fails, and
\* in a batch's transaction it stores nothing itself.
THEOREM AllOrNothing == Spec => []NothingUntilCommitted
<1>1. InitInv => NothingUntilCommitted
  BY DEF InitInv
<1>2. QED
  BY <1>1, Inductive, PTL

\* The doubling buffer of lmjcore_obj_member_get_capped refuses exactly what is
\* longer than the limit, whatever the limit and the first buffer are.
THEOREM LimitHolds == Spec => []LimitIsExact
<1>1. QueryInv => LimitIsExact
  BY DEF QueryInv
<1>2. QED
  BY <1>1, Inductive, PTL

-----------------------------------------------------------------------------
(***************************************************************************)
(* The tree, level by level.                                               *)
(***************************************************************************)
LEMMA KidsType ==
    ASSUME NEW node \in Nodes
    PROVE  /\ Kids[node] \in Seq(Kid) /\ Len(Kids[node]) \in Nat
           /\ DOMAIN Kids[node] = 1..Len(Kids[node])
           /\ \A i \in 1..Len(Kids[node]) :
                 /\ Kids[node][i] \in Kid
                 /\ Kids[node][i].node \in Nodes /\ Kids[node][i].key \in Keys
<1>1. Kids[node] \in Seq(Kid)
  BY NestedAssumption
<1>2. \A i \in 1..Len(Kids[node]) : Kids[node][i] \in Kid
  BY <1>1, ElementOfSeq
<1>3. QED
  BY <1>1, <1>2, LenProperties DEF Kid

\* The recursive definition of the levels says what it seems to say.
LEMMA LevelsAre ==
    ASSUME NEW body \in Nodes
    PROVE  /\ Levels(body)[0] = {body}
           /\ \A n \in 1..(NestMax + 1) :
                 Levels(body)[n] = {k.node : k \in UNION {KidsOf(node) :
                                               node \in Levels(body)[n - 1]}}
<1> DEFINE N == NestMax + 1
           Next1(S) == {k.node : k \in UNION {KidsOf(node) : node \in S}}
           Def(f) == [n \in 0..N |-> IF n = 0 THEN {body} ELSE Next1(f[n - 1])]
           g == [n \in 1..N |-> [S \in SUBSET Nodes |-> Next1(S)]]
<1>1. N \in Nat
  BY NestedAssumption
<1>2. ASSUME NEW S \in SUBSET Nodes PROVE Next1(S) \in SUBSET Nodes
  BY KidsType DEF KidsOf
<1>3. g \in [1..N -> [SUBSET Nodes -> SUBSET Nodes]]
  BY <1>2
<1>4. PICK f \in [0..N -> SUBSET Nodes] :
         f[0] = {body} /\ \A n \in 1..N : f[n] = g[n][f[n - 1]]
  <2> HIDE DEF g, N
  <2>1. {body} \in SUBSET Nodes
    OBVIOUS
  <2>2. PICK S : S = SUBSET Nodes
    OBVIOUS
  <2>3. PICK a : a = {body}
    OBVIOUS
  <2>4. a \in S /\ g \in [1..N -> [S -> S]]
    BY <1>3, <2>1, <2>2, <2>3
  <2>5. \E f \in [0..N -> S] : f[0] = a /\ \A n \in 1..N : f[n] = g[n][f[n - 1]]
    BY <1>1, <2>4, IterationExists
  <2>6. QED
    BY <2>2, <2>3, <2>5
<1>5. f = Def(f)
  <2>1. ASSUME NEW n \in 1..N PROVE f[n] = Next1(f[n - 1])
    <3>1. n - 1 \in 0..N
      BY <1>1
    <3>2. f[n - 1] \in SUBSET Nodes
      BY <3>1
    <3>3. g[n][f[n - 1]] = Next1(f[n - 1])
      BY <3>2
    <3> HIDE DEF Next1, g
    <3>4. QED
      BY <1>4, <3>3
  <2> HIDE DEF Next1, g, N
  <2>2. \A n \in 0..N : n # 0 => n \in 1..N
    BY <1>1
  <2>3. QED
    BY <1>4, <2>1, <2>2
<1>6. Levels(body) = CHOOSE h : h = Def(h)
  BY DEF Levels
<1> HIDE DEF Def
<1>7. Levels(body) = Def(Levels(body))
  BY <1>5, <1>6
<1>8. QED
  <2> HIDE DEF Next1
  <2>1. 0 \in 0..N /\ \A n \in 1..N : n \in 0..N /\ n # 0
    BY <1>1
  <2>2. /\ Def(Levels(body))[0] = {body}
        /\ \A n \in 1..N : Def(Levels(body))[n] = Next1(Levels(body)[n - 1])
    BY <2>1 DEF Def
  <2>3. QED
    BY <1>7, <2>2 DEF Next1

-----------------------------------------------------------------------------
(***************************************************************************)
(* What a tree that is accepted has shown of its nodes, kid by kid.        *)
(***************************************************************************)
\* Nodes with their depths, all with good keys and none too deep, and with each
\* node its kids.
Sound(V) ==
    \A x \in V :
        IsNested(x[1]) =>
            /\ x[2] <= NestMax
            /\ \A i \in DOMAIN Kids[x[1]] :
                  /\ Type[x[1]] = "object" => Kids[x[1]][i].key \in Names
                  /\ <<Kids[x[1]][i].node, x[2] + 1>> \in V

\* The tree at the node may stand at the depth.
Fine(node, d) ==
    \E V \in SUBSET (Nodes \X Nat) : Sound(V) /\ <<node, d>> \in V

KidFine(node, i, d) ==
    /\ Type[node] = "object" => Kids[node][i].key \in Names
    /\ Fine(Kids[node][i].node, d)

LEMMA ScalarFine ==
    ASSUME NEW node \in Nodes, ~IsNested(node), NEW d \in Nat
    PROVE  Fine(node, d)
<1>1. Sound({<<node, d>>})
  BY DEF Sound
<1>2. QED
  BY <1>1 DEF Fine

LEMMA NodeFine ==
    ASSUME NEW node \in Nodes, NEW d \in Nat, d <= NestMax,
           \A i \in 1..Len(Kids[node]) : KidFine(node, i, d + 1)
    PROVE  Fine(node, d)
<1> DEFINE All == UNION {V \in SUBSET (Nodes \X Nat) : Sound(V)}
           V == All \cup {<<node, d>>}
<1>1. \A x \in All : \E W \in SUBSET (Nodes \X Nat) : Sound(W) /\ x \in W /\ W \subseteq All
  OBVIOUS
<1>2. All \in SUBSET (Nodes \X Nat)
  OBVIOUS
<1>3. \A k \in Nodes, e \in Nat : Fine(k, e) => <<k, e>> \in All
  BY DEF Fine
<1> HIDE DEF All
<1>4. Sound(V)
  <2>1. ASSUME NEW x \in All, IsNested(x[1])
        PROVE  /\ x[2] <= NestMax
               /\ \A i \in DOMAIN Kids[x[1]] :
                     /\ Type[x[1]] = "object" => Kids[x[1]][i].key \in Names
                     /\ <<Kids[x[1]][i].node, x[2] + 1>> \in V
    <3>1. PICK W \in SUBSET (Nodes \X Nat) : Sound(W) /\ x \in W /\ W \subseteq All
      BY <1>1
    <3>2. /\ x[2] <= NestMax
          /\ \A i \in DOMAIN Kids[x[1]] :
                /\ Type[x[1]] = "object" => Kids[x[1]][i].key \in Names
                /\ <<Kids[x[1]][i].node, x[2] + 1>> \in W
      BY <2>1, <3>1 DEF Sound
    <3>3. QED
      BY <3>1, <3>2
  <2>2. ASSUME NEW i \in DOMAIN Kids[node]
        PROVE  /\ Type[node] = "object" => Kids[node][i].key \in Names
               /\ <<Kids[node][i].node, d + 1>> \in V
    <3>1. i \in 1..Len(Kids[node]) /\ Kids[node][i].node \in Nodes /\ d + 1 \in Nat
      BY KidsType
    <3>2. KidFine(node, i, d + 1)
      BY <3>1
    <3>3. QED
      BY <1>3, <3>1, <3>2 DEF KidFine
  <2>3. \A x \in V : x \in All \/ (x[1] = node /\ x[2] = d)
    OBVIOUS
  <2> HIDE DEF V
  <2>4. QED
    BY <2>1, <2>2, <2>3 DEF Sound
<1>5. V \in SUBSET (Nodes \X Nat)
  BY <1>2
<1>6. QED
  BY <1>4, <1>5 DEF Fine

\* At every level, a fine tree is as an init may take it.
LEMMA FineIsAcceptable ==
    ASSUME NEW body \in Nodes, Fine(body, 0), NEW n \in 0..(NestMax + 1),
           NEW node \in Levels(body)[n]
    PROVE  /\ node \in Nodes
           /\ IsNested(node) => n <= NestMax
           /\ Type[node] = "object" => \A k \in KidsOf(node) : k.key \in Names
<1>1. PICK V \in SUBSET (Nodes \X Nat) : Sound(V) /\ <<body, 0>> \in V
  BY DEF Fine
<1> DEFINE P(m) == m <= NestMax + 1 => \A x \in Levels(body)[m] : <<x, m>> \in V
           T == {m \in Nat : P(m)}
<1>2. NestMax \in Nat
  BY NestedAssumption
<1>3. P(0)
  BY <1>1, LevelsAre
<1>4. ASSUME NEW m \in Nat, P(m) PROVE P(m + 1)
  <2>1. SUFFICES ASSUME m + 1 <= NestMax + 1, NEW x \in Levels(body)[m + 1]
                 PROVE  <<x, m + 1>> \in V
    OBVIOUS
  <2>2. PICK l \in 1..(NestMax + 1) : l = m + 1
    BY <1>2, <2>1
  <2>3. Levels(body)[l] = {k.node : k \in UNION {KidsOf(y) : y \in Levels(body)[l - 1]}}
    BY LevelsAre
  <2>4. l - 1 = m
    BY <2>2
  <2>5. PICK y \in Levels(body)[m] : \E k \in KidsOf(y) : x = k.node
    BY <2>2, <2>3, <2>4
  <2>6. <<y, m>> \in V /\ y \in Nodes
    BY <1>1, <1>2, <1>4, <2>1, <2>5
  <2>7. IsNested(y) /\ \E i \in DOMAIN Kids[y] : x = Kids[y][i].node
    BY <2>5 DEF KidsOf
  <2>8. QED
    BY <1>1, <2>6, <2>7 DEF Sound
<1>5. P(n)
  <2> HIDE DEF P
  <2>1. T \in SUBSET Nat /\ 0 \in T /\ \A m \in T : m + 1 \in T
    BY <1>3, <1>4
  <2>2. T = Nat
    <3> HIDE DEF T
    <3>1. QED
      BY <2>1, Induction
  <2>3. QED
    BY <1>2, <2>2
<1>6. <<node, n>> \in V /\ node \in Nodes
  BY <1>1, <1>2, <1>5
<1>7. ASSUME IsNested(node)
      PROVE  n <= NestMax /\ (Type[node] = "object" => \A k \in KidsOf(node) : k.key \in Names)
  BY <1>1, <1>6, <1>7 DEF Sound, KidsOf
<1>8. QED
  BY <1>6, <1>7 DEF IsNested

-----------------------------------------------------------------------------
(***************************************************************************)
(* What the steps of an init do to the calls in progress.                  *)
(***************************************************************************)
\* Each call is about the kid at which the call below it is, the first about
\* the body.
Descends(s) ==
    /\ s # <<>> => s[1].node = request.body
    /\ \A i \in 1..Len(s) : s[i].next <= Len(Kids[s[i].node]) + 1
    /\ \A i \in 1..(Len(s) - 1) :
          /\ s[i + 1].node = Kids[s[i].node][s[i].next].node
          /\ Type[s[i].node] = "object" => Kids[s[i].node][s[i].next].key \in Names

KidOf(f) == Kids[f.node][f.next]

\* The value v is put in place by the n-th call, which goes on to its next kid;
\* it is the text of a scalar, or refers to what the call above has made.
StoredAt(n, v) ==
    /\ n \in 1..Len(stack) /\ Len(stack') = n
    /\ Busy(stack[n])
    /\ \A i \in 1..n :
          /\ stack'[i].node = stack[i].node /\ stack'[i].ptr = stack[i].ptr
          /\ stack'[i].next = IF i = n THEN stack[i].next + 1 ELSE stack[i].next
    /\ view' = Put(stack[n], v)
    /\ UNCHANGED <<request, made>>
    /\ Type[stack[n].node] = "object" => KidOf(stack[n]).key \in Names
    /\ \/ n = Len(stack) /\ ~IsNested(KidOf(stack[n]).node)
                         /\ v = Text[KidOf(stack[n]).node]
       \/ /\ n + 1 = Len(stack) /\ KidOf(stack[n]).node = stack[n + 1].node
          /\ v = stack[n + 1].ptr
          /\ stack[n + 1].next = Len(Kids[stack[n + 1].node]) + 1

\* A call is made for the kid of the n-th, the last.
EnteredAt(n) ==
    /\ n = Len(stack) /\ n >= 1 /\ n <= NestMax /\ Len(stack') = n + 1
    /\ Busy(stack[n])
    /\ \A i \in 1..n : stack'[i] = stack[i]
    /\ IsNested(KidOf(stack[n]).node)
    /\ Type[stack[n].node] = "object" => KidOf(stack[n]).key \in Names
    /\ stack'[n + 1] = [node |-> KidOf(stack[n]).node,
                        ptr |-> Fresh[made + 1][Type[KidOf(stack[n]).node]],
                        next |-> 1]
    /\ made < Len(Fresh) /\ made' = made + 1
    /\ UNCHANGED <<request, view>>

LEMMA AdvanceIs ==
    ASSUME NEW s \in Seq(Frame), s # <<>>
    PROVE  /\ Len(Advance(s)) = Len(s)
           /\ \A i \in 1..Len(s) :
                 /\ Advance(s)[i].node = s[i].node /\ Advance(s)[i].ptr = s[i].ptr
                 /\ Advance(s)[i].next = IF i = Len(s) THEN s[i].next + 1 ELSE s[i].next
<1> DEFINE f == s[Len(s)]
           g == [f EXCEPT !.next = @ + 1]
<1>1. Len(s) \in Nat /\ Len(s) \in 1..Len(s) /\ f \in Frame
  BY EmptySeq, LenProperties, ElementOfSeq
<1>2. g \in Frame /\ g.node = f.node /\ g.ptr = f.ptr /\ g.next = f.next + 1
  BY <1>1 DEF Frame
<1>3. Advance(s) = [s EXCEPT ![Len(s)] = g]
  BY DEF Advance
<1> HIDE DEF g
<1>4. Len(Advance(s)) = Len(s)
      /\ \A i \in 1..Len(s) : Advance(s)[i] = IF i = Len(s) THEN g ELSE s[i]
  BY <1>1, <1>2, <1>3, ExceptSeq
<1>5. QED
  BY <1>2, <1>4

LEMMA NameChecked ==
    ASSUME InitInv, stack # <<>>, Busy(Top), NameOk
    PROVE  Type[Top.node] = "object" => KidOf(Top).key \in Names
<1>1. KidOf(Top) = TopKid /\ KidOf(Top) \in Kid
  BY TopOk, KidType DEF KidOf, TopKid, TopKids
<1>2. KidOf(Top).key \in Keys /\ KeyLen[KidOf(Top).key] \in Nat
  BY <1>1, NestedAssumption DEF Kid
<1>3. QED
  BY <1>1, <1>2, NestedAssumption DEF NameOk, lmjcore_nested_member_name_check

LEMMA BusyIs == ASSUME InitInv, stack # <<>> PROVE Busy(Top) <=> ~Exhausted
<1>1. Top.next \in Nat /\ Len(Kids[Top.node]) \in Nat
  BY TopOk, KidsType
<1>2. QED
  BY <1>1 DEF Busy, Exhausted, TopKids

LEMMA ScalarIs ==
    ASSUME InitInv, EncodeScalar
    PROVE  \E n \in Nat, v \in Val : StoredAt(n, v)
<1>1. /\ pc = "fill" /\ ~Exhausted /\ NameOk /\ ~IsNested(TopKid.node)
      /\ view' = Put(Top, Text[TopKid.node])
      /\ stack' = Advance(stack)
      /\ UNCHANGED <<request, made>>
  BY DEF EncodeScalar
<1>2. stack # <<>> /\ stack \in Seq(Frame) /\ Len(stack) \in Nat /\ Len(stack) >= 1
      /\ Top.node \in Nodes /\ FrameOk(Top)
  BY <1>1, TopOk DEF InitInv, InitTypeOK
<1>3. Busy(Top) /\ KidOf(Top) = TopKid
  BY <1>1, <1>2, BusyIs DEF KidOf, TopKid, TopKids
<1>4. Type[Top.node] = "object" => KidOf(Top).key \in Names
  BY <1>1, <1>2, <1>3, NameChecked
<1>5. Text[TopKid.node] \in Val
  <2>1. TopKid \in Kid
    BY <1>2, <1>3, KidType DEF KidOf
  <2>2. QED
    BY <2>1, NestedAssumption DEF Kid, Val
<1>6. PICK n \in Nat : n = Len(stack)
  BY <1>2
<1>7. PICK v \in Val : v = Text[TopKid.node]
  BY <1>5
<1>8. StoredAt(n, v)
  <2>1. Top = stack[n] /\ n \in 1..Len(stack)
    BY <1>2, <1>6 DEF Top
  <2>2. /\ Len(stack') = n
        /\ \A i \in 1..n :
          /\ stack'[i].node = stack[i].node /\ stack'[i].ptr = stack[i].ptr
          /\ stack'[i].next = IF i = n THEN stack[i].next + 1 ELSE stack[i].next
    BY <1>1, <1>2, <1>6, AdvanceIs
  <2>3. QED
    BY <1>1, <1>3, <1>4, <1>6, <1>7, <2>1, <2>2 DEF StoredAt
<1>9. QED
  BY <1>8

LEMMA LeaveIs ==
    ASSUME InitInv, Descends(stack), LeaveNested
    PROVE  \E n \in Nat, v \in Val : StoredAt(n, v)
<1>1. /\ pc = "fill" /\ Exhausted /\ Len(stack) > 1
      /\ view' = Put(stack[Len(stack) - 1], Top.ptr)
      /\ stack' = Advance(Below)
      /\ UNCHANGED <<request, made>>
  BY DEF LeaveNested
<1>2. stack # <<>> /\ stack \in Seq(Frame) /\ Len(stack) \in Nat /\ Len(stack) >= 1
      /\ Top.node \in Nodes /\ Top.ptr \in Ptr /\ Top.next \in Nat
  BY <1>1, TopOk DEF InitInv, InitTypeOK
<1>3. PICK n \in Nat : n + 1 = Len(stack) /\ n >= 1
  <2>1. Len(stack) - 1 \in Nat /\ Len(stack) - 1 + 1 = Len(stack) /\ Len(stack) - 1 >= 1
    BY <1>1, <1>2
  <2>2. QED
    BY <2>1
<1>4. PICK v \in Val : v = Top.ptr
  BY <1>2 DEF Val
<1>5. n \in 1..Len(stack) /\ n = Len(stack) - 1 /\ Top = stack[n + 1]
      /\ n \in 1..(Len(stack) - 1) /\ n + 1 \in 1..Len(stack)
  BY <1>3 DEF Top
<1>6. /\ Below \in Seq(Frame) /\ Below # <<>> /\ Len(Below) = n
      /\ \A i \in 1..n : Below[i] = stack[i]
  <2>1. IsStack(Below) /\ Below # <<>> /\ Len(Below) = Len(stack) - 1
    BY <1>1, <1>2, BelowOk
  <2>2. \A i \in 1..Len(Below) : Below[i] = stack[i]
    BY <1>2, StackPop DEF Below, InitInv
  <2>3. QED
    BY <1>5, <2>1, <2>2 DEF IsStack
<1>7. /\ Len(stack') = n
      /\ \A i \in 1..n :
          /\ stack'[i].node = stack[i].node /\ stack'[i].ptr = stack[i].ptr
          /\ stack'[i].next = IF i = n THEN stack[i].next + 1 ELSE stack[i].next
  BY <1>1, <1>6, AdvanceIs
<1>8. Busy(stack[n])
  BY <1>2, <1>5 DEF InitInv, Waiting
<1>9. KidOf(stack[n]).node = stack[n + 1].node
      /\ (Type[stack[n].node] = "object" => KidOf(stack[n]).key \in Names)
  BY <1>5 DEF Descends, KidOf
<1>10. Top.next = Len(Kids[Top.node]) + 1
  <2>1. Top.next <= Len(Kids[Top.node]) + 1
    BY <1>5 DEF Descends
  <2>2. Top.next > Len(Kids[Top.node]) /\ Len(Kids[Top.node]) \in Nat
    BY <1>1, <1>2, KidsType DEF Exhausted, TopKids
  <2>3. QED
    BY <1>2, <2>1, <2>2
<1>11. StoredAt(n, v)
  <2>1. view' = Put(stack[n], v)
    BY <1>1, <1>4, <1>5
  <2>2. QED
    BY <1>1, <1>3, <1>4, <1>5, <1>7, <1>8, <1>9, <1>10, <2>1 DEF StoredAt
<1>12. QED
  BY <1>11

LEMMA EnterIs ==
    ASSUME InitInv, EnterNested
    PROVE  \E n \in Nat : EnteredAt(n)
<1>1. /\ pc = "fill" /\ ~Exhausted /\ NameOk /\ IsNested(TopKid.node)
      /\ ~(depth >= NestMax) /\ made < Len(Fresh) /\ made' = made + 1
      /\ stack' = Append(stack, [node |-> TopKid.node,
                                 ptr |-> Fresh[made + 1][Type[TopKid.node]], next |-> 1])
      /\ UNCHANGED <<request, view>>
  BY DEF EnterNested, DepthOk
<1>2. stack # <<>> /\ stack \in Seq(Frame) /\ Len(stack) \in Nat /\ Len(stack) >= 1
      /\ Top.node \in Nodes /\ FrameOk(Top) /\ made \in Nat
  BY <1>1, TopOk DEF InitInv, InitTypeOK
<1>3. Busy(Top) /\ KidOf(Top) = TopKid
  BY <1>1, <1>2, BusyIs DEF KidOf, TopKid, TopKids
<1>4. Type[Top.node] = "object" => KidOf(Top).key \in Names
  BY <1>1, <1>2, <1>3, NameChecked
<1>5. PICK n \in Nat : n = Len(stack)
  BY <1>2
<1>6. Top = stack[n] /\ n <= NestMax /\ n >= 1
  BY <1>1, <1>2, <1>5, NestedAssumption DEF Top, depth
<1> DEFINE f == [node |-> TopKid.node, ptr |-> Fresh[made + 1][Type[TopKid.node]],
                 next |-> 1]
<1>7. f \in Frame
  <2>1. TopKid.node \in Nodes
    BY <1>2, <1>3, KidType DEF KidOf, Kid
  <2>2. made + 1 \in 1..Len(Fresh)
    BY <1>1, <1>2, NestedAssumption, LenProperties
  <2>3. QED
    BY <1>1, <2>1, <2>2, FreshType DEF FrameOk
<1>8. stack' = Append(stack, f)
  BY <1>1
<1> HIDE DEF f
<1>9. Len(stack') = n + 1 /\ (\A i \in 1..n : stack'[i] = stack[i]) /\ stack'[n + 1] = f
  BY <1>2, <1>5, <1>7, <1>8, AppendProperties
<1>10. QED
  BY <1>1, <1>3, <1>4, <1>5, <1>6, <1>9 DEF EnteredAt, f

LEMMA BeginIs ==
    ASSUME InitInv, Begin
    PROVE  /\ Len(stack') = 1 /\ stack' # <<>>
           /\ stack'[1] = [node |-> request.body, ptr |-> Fresh[1][request.route], next |-> 1]
           /\ pc = "start" /\ made' = 1 /\ UNCHANGED <<request, view>>
           /\ BodyOk /\ request.body \in Nodes /\ IsNested(request.body)
           /\ request.route = Type[request.body]
<1>1. /\ pc = "start" /\ BodyOk /\ made' = 1 /\ UNCHANGED <<request, view>>
      /\ stack' = <<[node |-> request.body, ptr |-> Fresh[1][request.route], next |-> 1]>>
  BY DEF Begin
<1>2. Len(stack') = 1 /\ stack' # <<>>
      /\ stack'[1] = [node |-> request.body, ptr |-> Fresh[1][request.route], next |-> 1]
  BY <1>1
<1>3. /\ request.route \in {"object", "array"} /\ request.body \in Nodes
      /\ Type[request.body] = request.route
  BY <1>1, NestedAssumption DEF InitInv, InitTypeOK, BodyOk, Request
<1>4. IsNested(request.body)
  BY <1>3 DEF IsNested
<1>5. QED
  BY <1>1, <1>2, <1>3, <1>4

\* While the tree is stored, the calls follow it.
DescentInv == pc = "fill" => BodyOk /\ Descends(stack)

LEMMA FillCases ==
    ASSUME InitInv, InitNext, pc' = "fill"
    PROVE  Begin \/ (pc = "fill" /\ (EncodeScalar \/ EnterNested \/ LeaveNested))
<1>1. \/ Refuse \/ Begin \/ EncodeScalar \/ EnterNested \/ LeaveNested
      \/ KidRefused \/ Unwind \/ Finish \/ Commit \/ Cleanup
      \/ ParseFails \/ BeginFails \/ KidFails \/ RefFails \/ CommitFails
  BY DEF InitNext, InitWork
<1>2. (EncodeScalar \/ EnterNested \/ LeaveNested) => pc = "fill"
  BY DEF EncodeScalar, EnterNested, LeaveNested
<1>3. ~Refuse /\ ~KidRefused /\ ~Unwind /\ ~Finish /\ ~Commit /\ ~Cleanup
      /\ ~ParseFails /\ ~BeginFails /\ ~KidFails /\ ~RefFails /\ ~CommitFails
  BY DEF Refuse, KidRefused, Unwind, Finish, Commit, Cleanup, ParseFails,
         BeginFails, KidFails, RefFails, CommitFails
<1>4. QED
  BY <1>1, <1>2, <1>3

\* The kinds of steps while a tree is stored.
LEMMA FillSteps ==
    ASSUME InitInv, DescentInv, InitNext, pc' = "fill"
    PROVE  \/ Begin
           \/ pc = "fill" /\ \E n \in Nat, v \in Val : StoredAt(n, v)
           \/ pc = "fill" /\ \E n \in Nat : EnteredAt(n)
<1>1. Begin \/ (pc = "fill" /\ (EncodeScalar \/ EnterNested \/ LeaveNested))
  BY FillCases
<1>2. pc = "fill" => Descends(stack)
  BY DEF DescentInv
<1>3. QED
  BY <1>1, <1>2, ScalarIs, LeaveIs, EnterIs

\* What is known of the frames of a stack.
LEMMA FramesType ==
    ASSUME NEW s, IsStack(s)
    PROVE  /\ Len(s) \in Nat
           /\ \A i \in 1..Len(s) :
                 /\ FrameOk(s[i]) /\ s[i].node \in Nodes /\ s[i].ptr \in Ptr
                 /\ s[i].next \in Nat \ {0} /\ IsNested(s[i].node)
                 /\ Len(Kids[s[i].node]) \in Nat
<1>1. Len(s) \in Nat
  BY LenProperties DEF IsStack
<1>2. ASSUME NEW i \in 1..Len(s)
      PROVE  /\ FrameOk(s[i]) /\ s[i].node \in Nodes /\ s[i].ptr \in Ptr
             /\ s[i].next \in Nat \ {0} /\ IsNested(s[i].node)
             /\ Len(Kids[s[i].node]) \in Nat
  <2>1. FrameOk(s[i])
    BY DEF IsStack
  <2>2. s[i].node \in Nodes /\ s[i].ptr \in Ptr /\ s[i].next \in Nat \ {0}
    BY <2>1 DEF FrameOk, Frame
  <2>3. QED
    BY <2>1, <2>2, KidsType DEF FrameOk
<1>3. QED
  BY <1>1, <1>2

LEMMA StoredDescends ==
    ASSUME InitInv, Descends(stack), NEW n \in Nat, NEW v, StoredAt(n, v)
    PROVE  Descends(stack)'
<1>1. /\ n \in 1..Len(stack) /\ Len(stack') = n /\ Busy(stack[n]) /\ request' = request
      /\ \A i \in 1..n :
          /\ stack'[i].node = stack[i].node
          /\ stack'[i].next = IF i = n THEN stack[i].next + 1 ELSE stack[i].next
  BY DEF StoredAt
<1>2. Len(stack) \in Nat /\ stack # <<>> /\ 1 \in 1..n /\ IsStack(stack)
  BY <1>1, FramesType, EmptySeq DEF InitInv
<1>3. stack'[1].node = request'.body
  BY <1>1, <1>2 DEF Descends
<1>4. ASSUME NEW i \in 1..n
      PROVE  stack'[i].next <= Len(Kids[stack'[i].node]) + 1
  <2>1. i \in 1..Len(stack) /\ stack[i].next \in Nat /\ Len(Kids[stack[i].node]) \in Nat
    BY <1>1, <1>2, FramesType
  <2>2. stack[i].next <= Len(Kids[stack[i].node]) + 1
    BY <2>1 DEF Descends
  <2>3. QED
    BY <1>1, <2>1, <2>2 DEF Busy
<1>5. ASSUME NEW i \in 1..(n - 1)
      PROVE  /\ stack'[i + 1].node = Kids[stack'[i].node][stack'[i].next].node
             /\ Type[stack'[i].node] = "object" =>
                  Kids[stack'[i].node][stack'[i].next].key \in Names
  <2>1. i \in 1..n /\ i # n /\ i + 1 \in 1..n /\ i \in 1..(Len(stack) - 1)
    BY <1>1, <1>2
  <2>2. /\ stack[i + 1].node = Kids[stack[i].node][stack[i].next].node
        /\ Type[stack[i].node] = "object" =>
             Kids[stack[i].node][stack[i].next].key \in Names
    BY <2>1 DEF Descends
  <2>3. stack'[i].node = stack[i].node /\ stack'[i].next = stack[i].next
        /\ stack'[i + 1].node = stack[i + 1].node
    BY <1>1, <2>1
  <2>4. QED
    BY <2>2, <2>3
<1>6. QED
  BY <1>1, <1>3, <1>4, <1>5 DEF Descends

LEMMA EnteredDescends ==
    ASSUME InitInv, Descends(stack), NEW n \in Nat, EnteredAt(n)
    PROVE  Descends(stack)'
<1>1. /\ n = Len(stack) /\ n >= 1 /\ Len(stack') = n + 1 /\ request' = request
      /\ \A i \in 1..n : stack'[i] = stack[i]
      /\ stack'[n + 1].node = KidOf(stack[n]).node /\ stack'[n + 1].next = 1
      /\ Type[stack[n].node] = "object" => KidOf(stack[n]).key \in Names
  BY DEF EnteredAt
<1>2. stack # <<>> /\ 1 \in 1..n /\ IsStack(stack)
  BY <1>1, EmptySeq DEF InitInv
<1>3. stack'[1].node = request'.body
  BY <1>1, <1>2 DEF Descends
<1>4. Len(Kids[stack'[n + 1].node]) \in Nat
  <2>1. stack[n].node \in Nodes /\ stack[n].next \in Nat \ {0} /\ FrameOk(stack[n])
    BY <1>1, <1>2, FramesType
  <2>2. KidOf(stack[n]) \in Kid
    BY <2>1, KidType DEF KidOf, EnteredAt
  <2>3. QED
    BY <1>1, <2>2, KidsType DEF Kid
<1>5. ASSUME NEW i \in 1..(n + 1)
      PROVE  stack'[i].next <= Len(Kids[stack'[i].node]) + 1
  <2>1. CASE i = n + 1
    BY <1>1, <1>4, <2>1
  <2>2. CASE i # n + 1
    <3>1. i \in 1..n
      BY <2>2
    <3>2. QED
      BY <1>1, <3>1 DEF Descends
  <2>3. QED
    BY <2>1, <2>2
<1>6. ASSUME NEW i \in 1..n
      PROVE  /\ stack'[i + 1].node = Kids[stack'[i].node][stack'[i].next].node
             /\ Type[stack'[i].node] = "object" =>
                  Kids[stack'[i].node][stack'[i].next].key \in Names
  <2>1. CASE i = n
    BY <1>1, <2>1 DEF KidOf
  <2>2. CASE i # n
    <3>1. i \in 1..(Len(stack) - 1) /\ i + 1 \in 1..n
      BY <1>1, <2>2
    <3>2. /\ stack[i + 1].node = Kids[stack[i].node][stack[i].next].node
          /\ Type[stack[i].node] = "object" =>
               Kids[stack[i].node][stack[i].next].key \in Names
      BY <3>1 DEF Descends
    <3>3. QED
      BY <1>1, <3>1, <3>2
  <2>3. QED
    BY <2>1, <2>2
<1>7. Len(stack') - 1 = n
  BY <1>1
<1>8. QED
  BY <1>1, <1>3, <1>5, <1>6, <1>7 DEF Descends

LEMMA BeginDescends ==
    ASSUME InitInv, Begin PROVE Descends(stack)'
<1>1. /\ Len(stack') = 1 /\ stack' # <<>> /\ request' = request
      /\ stack'[1].node = request.body /\ stack'[1].next = 1
      /\ request.body \in Nodes
  BY BeginIs
<1>2. Len(Kids[request.body]) \in Nat
  BY <1>1, KidsType
<1>3. QED
  BY <1>1, <1>2 DEF Descends

LEMMA DescentPreserved ==
    ASSUME InitInv, DescentInv, InitNext PROVE DescentInv'
<1> SUFFICES ASSUME pc' = "fill" PROVE BodyOk' /\ Descends(stack)'
  BY DEF DescentInv
<1>1. CASE Begin
  <2>1. BodyOk'
    BY <1>1, BeginIs DEF BodyOk
  <2>2. QED
    BY <1>1, <2>1, BeginDescends
<1>2. CASE pc = "fill" /\ \E n \in Nat, v \in Val : StoredAt(n, v)
  <2>1. PICK n \in Nat, v \in Val : StoredAt(n, v)
    BY <1>2
  <2>2. Descends(stack) /\ BodyOk
    BY <1>2 DEF DescentInv
  <2>3. BodyOk'
    BY <2>1, <2>2 DEF StoredAt, BodyOk
  <2>4. QED
    BY <2>1, <2>2, <2>3, StoredDescends
<1>3. CASE pc = "fill" /\ \E n \in Nat : EnteredAt(n)
  <2>1. PICK n \in Nat : EnteredAt(n)
    BY <1>3
  <2>2. Descends(stack) /\ BodyOk
    BY <1>3 DEF DescentInv
  <2>3. BodyOk'
    BY <2>1, <2>2 DEF EnteredAt, BodyOk
  <2>4. QED
    BY <2>1, <2>2, <2>3, EnteredDescends
<1>4. QED
  BY <1>1, <1>2, <1>3, FillSteps

-----------------------------------------------------------------------------
(***************************************************************************)
(* Answers, and where they come from.                                      *)
(***************************************************************************)
AnswerInv ==
    /\ pc \in {"cleanup", "done"} => answer \in Response
    /\ pc = "cleanup" => answer.status # 201
    /\ pc = "commit" => answer \in Response /\ answer.status = 201
    /\ pc \in {"cleanup", "done"} /\ answer.status = 400 =>
         cause \in {"parse", "type", "name", "depth"}
    /\ cause = "type" => ~BodyOk

\* The tree is in place, and will be answered so unless the commit fails.
Sent == pc = "commit" \/ Accepted

LEMMA AnswerKept == ASSUME InitInv, AnswerInv, InitNext PROVE AnswerInv'
<1>1. \/ Refuse \/ Begin \/ EncodeScalar \/ EnterNested \/ LeaveNested
      \/ KidRefused \/ Unwind \/ Finish \/ Commit \/ Cleanup
      \/ ParseFails \/ BeginFails \/ KidFails \/ RefFails \/ CommitFails
  BY DEF InitNext, InitWork
<1>0. request' = request /\ BodyOk' = BodyOk
  BY <1>1 DEF Refuse, Begin, EncodeScalar, EnterNested, LeaveNested, KidRefused, Unwind,
         Finish, Commit, Cleanup, ParseFails, BeginFails, KidFails, RefFails,
         CommitFails, BodyOk
<1>2. InitInv'
  BY InitPreserves
<1>3. CASE Refuse
  <2>1. pc' = "done" /\ cause' = "type" /\ answer' = Reply(400, None, 0) /\ ~BodyOk
    BY <1>3 DEF Refuse, StatusOf
  <2>2. answer' \in Response /\ answer'.status = 400
    BY <2>1 DEF Reply, Response
  <2>3. QED
    BY <1>0, <2>1, <2>2 DEF AnswerInv
<1>13. CASE ParseFails
  <2>1. pc' = "done" /\ cause' = "parse" /\ answer' = Reply(400, None, 0)
    BY <1>13 DEF ParseFails, StatusOf
  <2>2. answer' \in Response /\ answer'.status = 400
    BY <2>1 DEF Reply, Response
  <2>3. QED
    BY <2>1, <2>2 DEF AnswerInv
<1>4. CASE Begin \/ EncodeScalar \/ EnterNested \/ LeaveNested
  BY <1>0, <1>4 DEF AnswerInv, Begin, EncodeScalar, EnterNested, LeaveNested
<1>12. CASE Finish
  <2>1. pc' = "commit" /\ cause' = cause
    BY <1>12 DEF Finish
  <2>2. answer' \in Response /\ answer'.status = 201
    BY <1>12, FinishAnswers
  <2>3. QED
    BY <1>0, <2>1, <2>2 DEF AnswerInv
<1>5. CASE KidRefused \/ KidFails \/ RefFails
  BY <1>0, <1>5 DEF AnswerInv, KidRefused, KidFails, RefFails
<1>6. CASE BeginFails
  <2>1. pc' = "cleanup" /\ cause' \in {"begin", "time"}
        /\ answer' = Reply(StatusOf(cause'), None, 0) /\ StatusOf(cause') \in {408, 500}
    BY <1>6 DEF BeginFails, StatusOf
  <2>2. answer' \in Response /\ answer'.status \in {408, 500}
    BY <2>1 DEF Reply, Response
  <2>3. QED
    BY <2>1, <2>2 DEF AnswerInv
<1>7. CASE Unwind
  <2>1. CASE Len(stack) = 1
    <3>1. pc' = "cleanup" /\ answer' = Reply(StatusOf(cause), None, 0) /\ cause' = cause
      BY <1>7, <2>1 DEF Unwind
    <3>2. StatusOf(cause) \in {400, 408, 500}
          /\ (StatusOf(cause) = 400 => cause \in {"parse", "type", "name", "depth"})
      BY DEF StatusOf
    <3>3. answer' \in Response /\ answer'.status = StatusOf(cause)
      BY <3>1, <3>2 DEF Reply, Response
    <3>4. QED
      BY <1>0, <3>1, <3>2, <3>3 DEF AnswerInv
  <2>2. CASE Len(stack) # 1
    BY <1>0, <1>7, <2>2 DEF AnswerInv, Unwind
  <2>3. QED
    BY <2>1, <2>2
<1>8. CASE Commit
  <2>1. pc = "commit" /\ pc' = "done" /\ cause' = cause /\ cause = None
        /\ (answer' = answer \/ answer' = Reply(500, None, 0))
    BY <1>8 DEF Commit, InitInv, Causeless
  <2>2. answer' \in Response /\ answer'.status \in {201, 500}
    <3>1. CASE answer' = Reply(500, None, 0)
      BY <3>1 DEF Reply, Response
    <3>2. CASE answer' = answer
      BY <2>1, <3>2 DEF AnswerInv
    <3>3. QED
      BY <2>1, <3>1, <3>2
  <2>3. QED
    BY <1>0, <2>1, <2>2 DEF AnswerInv
<1>9. CASE Cleanup
  BY <1>0, <1>9 DEF AnswerInv, Cleanup
<1>10. CASE CommitFails
  <2>1. pc' = "cleanup" /\ cause' = "internal" /\ answer' = Reply(500, None, 0)
    BY <1>10 DEF CommitFails
  <2>2. answer' \in Response /\ answer'.status = 500
    BY <2>1 DEF Reply, Response
  <2>3. QED
    BY <2>1, <2>2 DEF AnswerInv
<1>11. QED
  BY <1>1, <1>3, <1>4, <1>5, <1>6, <1>7, <1>8, <1>9, <1>10, <1>12,
     <1>13

LEMMA FinishIs ==
    ASSUME InitInv, DescentInv, Finish
    PROVE  /\ pc = "fill" /\ Len(stack) = 1 /\ 1 \in 1..Len(stack) /\ BodyOk
           /\ request.body \in Nodes /\ stack[1].node = request.body /\ FrameOk(stack[1])
           /\ stack[1].next = Len(Kids[request.body]) + 1
           /\ answer' = Reply(201, stack[1].ptr, Count)
           /\ request.route = Type[request.body]
           /\ UNCHANGED <<request, view, made, stack>>
<1>1. /\ pc = "fill" /\ Exhausted /\ Len(stack) = 1
      /\ answer' = Reply(201, Top.ptr, Count)
      /\ UNCHANGED <<request, view, made, stack>>
  BY DEF Finish
<1>2. Top = stack[1] /\ stack # <<>> /\ 1 \in 1..Len(stack) /\ IsStack(stack)
  BY <1>1, EmptySeq DEF Top, InitInv
<1>3. /\ FrameOk(stack[1]) /\ stack[1].node \in Nodes /\ stack[1].next \in Nat
      /\ Len(Kids[stack[1].node]) \in Nat
  BY <1>2, FramesType
<1>4. /\ BodyOk /\ stack[1].node = request.body
      /\ stack[1].next <= Len(Kids[stack[1].node]) + 1
  BY <1>1, <1>2 DEF DescentInv, Descends
<1>5. stack[1].next > Len(Kids[stack[1].node])
  BY <1>1, <1>2 DEF Exhausted, TopKids
<1>6. stack[1].next = Len(Kids[request.body]) + 1
  BY <1>3, <1>4, <1>5
<1>7. QED
  BY <1>1, <1>2, <1>3, <1>4, <1>6 DEF BodyOk

LEMMA SentCases ==
    ASSUME InitInv, AnswerInv, InitNext, Sent'
    PROVE  \/ Finish
           \/ Sent /\ UNCHANGED <<request, view, made, answer>>
<1>1. \/ Refuse \/ Begin \/ EncodeScalar \/ EnterNested \/ LeaveNested
      \/ KidRefused \/ Unwind \/ Finish \/ Commit \/ Cleanup
      \/ ParseFails \/ BeginFails \/ KidFails \/ RefFails \/ CommitFails
  BY DEF InitNext, InitWork
<1>2. pc' = "commit" \/ (pc' = "done" /\ answer'.status = 201)
  BY DEF Sent, Accepted
<1>3. ~(Begin \/ EncodeScalar \/ EnterNested \/ LeaveNested \/ KidRefused
        \/ BeginFails \/ KidFails \/ RefFails \/ CommitFails)
  BY <1>2 DEF Begin, EncodeScalar, EnterNested, LeaveNested, KidRefused, BeginFails,
         KidFails, RefFails, CommitFails
<1>4. ~Unwind
  BY <1>2 DEF Unwind
<1>5. ~Refuse /\ ~ParseFails
  <2>1. Refuse \/ ParseFails => answer'.status = 400 /\ pc' = "done"
    BY DEF Refuse, ParseFails, StatusOf, Reply
  <2>2. QED
    BY <1>2, <2>1
<1>6. ~Cleanup
  BY <1>2 DEF Cleanup, AnswerInv
<1>7. ASSUME Commit PROVE Sent /\ UNCHANGED <<request, view, made, answer>>
  <2>1. pc = "commit" /\ pc' = "done" /\ (answer' = answer \/ answer' = Reply(500, None, 0))
        /\ UNCHANGED <<request, view, made>>
    BY <1>7 DEF Commit
  <2>2. Reply(500, None, 0).status # 201
    BY DEF Reply
  <2>3. QED
    BY <1>2, <2>1, <2>2 DEF Sent
<1>8. QED
  BY <1>1, <1>3, <1>4, <1>5, <1>6, <1>7

-----------------------------------------------------------------------------
(***************************************************************************)
(* An init takes fine trees only.                                          *)
(***************************************************************************)
FramesFine(s) == \A j \in 1..Len(s) : \A i \in 1..(s[j].next - 1) : KidFine(s[j].node, i, j)

FineInv ==
    /\ pc = "fill" => FramesFine(stack)
    /\ Sent => BodyOk /\ Fine(request.body, 0)

LEMMA StoredFine ==
    ASSUME InitInv, FramesFine(stack), NEW n \in Nat, NEW v, StoredAt(n, v)
    PROVE  FramesFine(stack)'
<1>1. /\ n \in 1..Len(stack) /\ Len(stack') = n /\ Busy(stack[n])
      /\ \A i \in 1..n :
          /\ stack'[i].node = stack[i].node
          /\ stack'[i].next = IF i = n THEN stack[i].next + 1 ELSE stack[i].next
  BY DEF StoredAt
<1>2. Len(stack) \in Nat /\ Len(stack) <= NestMax + 1
      /\ \A i \in 1..Len(stack) :
            /\ FrameOk(stack[i]) /\ stack[i].node \in Nodes
            /\ stack[i].next \in Nat \ {0} /\ IsNested(stack[i].node)
            /\ Len(Kids[stack[i].node]) \in Nat
  BY FramesType DEF InitInv, DepthBounded
<1> DEFINE f == stack[n]
<1>3. /\ KidOf(f) \in Kid /\ KidOf(f).node \in Nodes
      /\ Type[f.node] = "object" => KidOf(f).key \in Names
  BY <1>1, <1>2, KidType DEF StoredAt, KidOf, Kid
<1>4. Fine(KidOf(f).node, n)
  <2>1. CASE n = Len(stack) /\ ~IsNested(KidOf(stack[n]).node)
    BY <1>3, <2>1, ScalarFine
  <2>2. CASE /\ n + 1 = Len(stack) /\ KidOf(stack[n]).node = stack[n + 1].node
             /\ stack[n + 1].next = Len(Kids[stack[n + 1].node]) + 1
    <3>1. n + 1 \in 1..Len(stack) /\ n <= NestMax
      BY <1>2, <2>2, NestedAssumption
    <3>2. stack[n + 1].node \in Nodes /\ Len(Kids[stack[n + 1].node]) \in Nat
      BY <1>2, <3>1
    <3>3. stack[n + 1].next - 1 = Len(Kids[stack[n + 1].node])
      BY <2>2, <3>2
    <3>4. \A i \in 1..Len(Kids[stack[n + 1].node]) : KidFine(stack[n + 1].node, i, n + 1)
      BY <3>1, <3>3 DEF FramesFine
    <3>5. Fine(stack[n + 1].node, n)
      BY <3>1, <3>2, <3>4, NodeFine
    <3>6. QED
      BY <2>2, <3>5
  <2>3. QED
    BY <2>1, <2>2 DEF StoredAt
<1>5. KidFine(f.node, f.next, n)
  BY <1>3, <1>4 DEF KidFine, KidOf
<1>6. ASSUME NEW j \in 1..n, NEW i \in 1..(stack'[j].next - 1)
      PROVE  KidFine(stack'[j].node, i, j)
  <2>1. j \in 1..Len(stack) /\ stack[j].next \in Nat
    BY <1>1, <1>2
  <2>2. CASE i \in 1..(stack[j].next - 1)
    BY <1>1, <2>1, <2>2 DEF FramesFine
  <2>3. CASE i \notin 1..(stack[j].next - 1)
    <3>1. j = n /\ i = stack[j].next
      BY <1>1, <2>1, <2>3
    <3>2. QED
      BY <1>1, <1>5, <3>1
  <2>4. QED
    BY <2>2, <2>3
<1>7. QED
  BY <1>1, <1>6 DEF FramesFine

LEMMA FinePreserved ==
    ASSUME InitInv, DescentInv, AnswerInv, FineInv, InitNext PROVE FineInv'
<1>1. ASSUME pc' = "fill" PROVE FramesFine(stack)'
  <2>1. CASE Begin
    <3>1. Len(stack') = 1 /\ stack'[1].next = 1
      BY <2>1, BeginIs
    <3>2. QED
      BY <3>1 DEF FramesFine
  <2>2. CASE pc = "fill" /\ \E n \in Nat, v \in Val : StoredAt(n, v)
    BY <2>2, StoredFine DEF FineInv
  <2>3. CASE pc = "fill" /\ \E n \in Nat : EnteredAt(n)
    <3>1. PICK n \in Nat : EnteredAt(n)
      BY <2>3
    <3>2. n = Len(stack) /\ Len(stack') = n + 1 /\ stack'[n + 1].next = 1
          /\ \A i \in 1..n : stack'[i] = stack[i]
      BY <3>1 DEF EnteredAt
    <3>3. ASSUME NEW j \in 1..(n + 1), NEW i \in 1..(stack'[j].next - 1)
          PROVE  KidFine(stack'[j].node, i, j)
      <4>1. j # n + 1
        BY <3>2
      <4>2. j \in 1..n
        BY <4>1
      <4>3. QED
        BY <2>3, <3>2, <4>2 DEF FineInv, FramesFine
    <3>4. QED
      BY <3>2, <3>3 DEF FramesFine
  <2>4. QED
    BY <1>1, <2>1, <2>2, <2>3, FillSteps
<1>2. ASSUME Sent' PROVE BodyOk' /\ Fine(request.body, 0)'
  <2>1. CASE Finish
    <3>1. /\ pc = "fill" /\ Len(stack) = 1 /\ 1 \in 1..Len(stack) /\ BodyOk
          /\ request.body \in Nodes /\ stack[1].node = request.body
          /\ stack[1].next = Len(Kids[request.body]) + 1 /\ request' = request
      BY <2>1, FinishIs
    <3>2. Len(Kids[request.body]) \in Nat
      BY <3>1, KidsType
    <3>3. \A i \in 1..Len(Kids[request.body]) : KidFine(request.body, i, 0 + 1)
      <4>1. stack[1].next - 1 = Len(Kids[request.body])
        BY <3>1, <3>2
      <4>2. QED
        BY <3>1, <4>1 DEF FineInv, FramesFine
    <3>4. PICK body \in Nodes : body = request.body
      BY <3>1
    <3>5. Fine(body, 0)
      BY <3>3, <3>4, NodeFine, NestedAssumption
    <3>6. QED
      BY <3>1, <3>4, <3>5 DEF BodyOk
  <2>2. CASE Sent /\ UNCHANGED <<request, view, made, answer>>
    BY <2>2 DEF FineInv, BodyOk
  <2>3. QED
    BY <1>2, <2>1, <2>2, SentCases
<1>3. QED
  BY <1>1, <1>2 DEF FineInv

-----------------------------------------------------------------------------
(***************************************************************************)
(* A failure is passed from the call that met it to the handler.           *)
(***************************************************************************)
\* The calls that were in progress when a kid was refused: those that have
\* returned since have left their places.
Passed(full) ==
    /\ IsStack(full) /\ Descends(full) /\ Stopped(full)
    /\ full # <<>> /\ Len(full) <= NestMax + 1
    /\ Len(full) = Len(stack) + Len(trail)
    /\ \A i \in 1..Len(stack) : stack[i] = full[i]
    /\ \A j \in 1..Len(trail) : trail[j] = PlaceOf(full[Len(full) + 1 - j])
    /\ LET f == full[Len(full)]
       IN IF cause = "name" THEN Type[f.node] = "object" /\ KidOf(f).key \notin Names
          ELSE IsNested(KidOf(f).node) /\ Len(full) > NestMax

ErrorInv ==
    /\ pc \in {"start", "fill", "commit"} => trail = <<>>
    /\ pc \in {"unwind", "cleanup", "done"} /\ cause \in {"name", "depth"} =>
          /\ pc # "unwind" => stack = <<>>
          /\ \E full \in Seq(Frame) : Passed(full)

LEMMA RefusedPassed ==
    ASSUME InitInv, DescentInv, ErrorInv, KidRefused
    PROVE  ErrorInv'
<1>1. /\ pc = "fill" /\ ~Exhausted /\ pc' = "unwind"
      /\ \/ ~NameOk /\ cause' = "name"
         \/ NameOk /\ IsNested(TopKid.node) /\ ~DepthOk /\ cause' = "depth"
      /\ UNCHANGED <<request, stack, trail>>
  BY DEF KidRefused
<1>2. stack # <<>> /\ Len(stack) \in Nat /\ Len(stack) >= 1 /\ Len(stack) <= NestMax + 1
      /\ IsStack(stack) /\ stack \in Seq(Frame) /\ trail = <<>> /\ Descends(stack)
  BY <1>1, TopOk DEF InitInv, InitTypeOK, DepthBounded, ErrorInv, DescentInv
<1>3. IsStack(stack') /\ Stopped(stack')
  BY <1>1, AtKid
<1>4. KidOf(Top) = TopKid /\ Top = stack[Len(stack)]
  BY DEF KidOf, TopKid, TopKids, Top
<1>5. IF cause' = "name" THEN Type[Top.node] = "object" /\ KidOf(Top).key \notin Names
      ELSE IsNested(KidOf(Top).node) /\ Len(stack) > NestMax
  <2>1. CASE ~NameOk /\ cause' = "name"
    BY <1>4, <2>1, NestedAssumption DEF NameOk, lmjcore_nested_member_name_check
  <2>2. CASE NameOk /\ IsNested(TopKid.node) /\ ~DepthOk /\ cause' = "depth"
    <3>1. Len(stack) > NestMax
      BY <1>2, <2>2, NestedAssumption DEF DepthOk, depth
    <3>2. QED
      BY <1>4, <2>2, <3>1
  <2>3. QED
    BY <1>1, <2>1, <2>2
<1>6. PICK full \in Seq(Frame) : full = stack
  BY <1>2
<1>7. IsStack(full)' /\ Stopped(full) /\ Descends(full)'
  BY <1>1, <1>2, <1>3, <1>6 DEF IsStack, Descends
<1>8. Len(full) = Len(stack') + Len(trail') /\ Len(trail') = 0
  BY <1>1, <1>2, <1>6
<1>9. Passed(full)'
  BY <1>1, <1>2, <1>4, <1>5, <1>6, <1>7, <1>8 DEF Passed, Stopped
<1>10. QED
  BY <1>1, <1>9 DEF ErrorInv

LEMMA UnwindPasses ==
    ASSUME InitInv, ErrorInv, Unwind
    PROVE  ErrorInv'
<1>1. /\ pc = "unwind" /\ trail' = Append(trail, PlaceOf(Top)) /\ stack' = Below
      /\ pc' = IF Len(stack) = 1 THEN "cleanup" ELSE "unwind"
      /\ UNCHANGED <<request, cause>>
  BY DEF Unwind
<1>2. SUFFICES ASSUME cause \in {"name", "depth"}
               PROVE  /\ pc' # "unwind" => stack' = <<>>
                      /\ \E full \in Seq(Frame) : Passed(full)'
  BY <1>1 DEF ErrorInv
<1>3. PICK full \in Seq(Frame) : Passed(full)
  BY <1>1, <1>2 DEF ErrorInv
<1>4. stack # <<>> /\ Len(stack) \in Nat /\ Len(stack) >= 1 /\ Len(trail) \in Nat
      /\ trail \in Seq(Place) /\ IsStack(stack)
  BY <1>1, TopOk, LenProperties DEF InitInv, InitTypeOK
<1>5. Len(Below) = Len(stack) - 1 /\ \A i \in 1..Len(Below) : Below[i] = stack[i]
  BY <1>4, StackPop DEF Below
<1>6. PlaceOf(Top) \in Place
  <2>1. Stopped(stack) /\ FrameOk(Top) /\ Top.next \in Nat \ {0}
    BY <1>1, <1>4, TopOk DEF InitInv
  <2>2. Kids[Top.node][Top.next] \in Kid
    BY <1>4, <2>1, KidType DEF Stopped, Top
  <2>3. Kids[Top.node][Top.next].key \in Keys /\ Top.next - 1 \in Nat
    BY <2>1, <2>2 DEF Kid
  <2>4. QED
    BY <2>3 DEF PlaceOf, Place
<1>7. /\ Len(trail') = Len(trail) + 1
      /\ \A j \in 1..Len(trail) : trail'[j] = trail[j]
      /\ trail'[Len(trail) + 1] = PlaceOf(Top)
  BY <1>1, <1>4, <1>6, AppendProperties
<1>8. Len(full) = Len(stack) + Len(trail) /\ Top = full[Len(stack)]
  BY <1>3, <1>4 DEF Passed, Top
<1>9. ASSUME NEW j \in 1..Len(trail')
      PROVE  trail'[j] = PlaceOf(full[Len(full) + 1 - j])
  <2>1. CASE j = Len(trail) + 1
    <3>1. Len(full) + 1 - j = Len(stack)
      BY <1>4, <1>8, <2>1
    <3>2. QED
      BY <1>7, <1>8, <2>1, <3>1
  <2>2. CASE j # Len(trail) + 1
    <3>1. j \in 1..Len(trail)
      BY <1>4, <1>7, <2>2
    <3>2. QED
      BY <1>3, <1>7, <3>1 DEF Passed
  <2>3. QED
    BY <2>1, <2>2
<1>10. ASSUME NEW i \in 1..Len(stack') PROVE stack'[i] = full[i]
  BY <1>1, <1>3, <1>4, <1>5 DEF Passed
<1>11. Len(full) = Len(stack') + Len(trail')
  BY <1>1, <1>4, <1>5, <1>7, <1>8
<1>12. IsStack(full)' /\ Descends(full)'
  BY <1>1, <1>3 DEF Passed, IsStack, Descends
<1>13. Passed(full)'
  BY <1>1, <1>3, <1>9, <1>10, <1>11, <1>12 DEF Passed
<1>14. pc' # "unwind" => stack' = <<>>
  <2>1. IsStack(Below)
    BY <1>4, BelowOk
  <2>2. Len(stack) = 1 => Below = <<>>
    BY <1>5, <2>1, EmptySeq DEF IsStack
  <2>3. QED
    BY <1>1, <2>2
<1>15. QED
  BY <1>13, <1>14

LEMMA ErrorPreserved ==
    ASSUME InitInv, DescentInv, ErrorInv, InitNext PROVE ErrorInv'
<1>1. \/ Refuse \/ Begin \/ EncodeScalar \/ EnterNested \/ LeaveNested
      \/ KidRefused \/ Unwind \/ Finish \/ Commit \/ Cleanup
      \/ ParseFails \/ BeginFails \/ KidFails \/ RefFails \/ CommitFails
  BY DEF InitNext, InitWork
<1>2. CASE Begin \/ EncodeScalar \/ EnterNested \/ LeaveNested \/ Finish
  <2>1. pc \in {"start", "fill"} /\ pc' \in {"fill", "commit"} /\ trail' = trail
    BY <1>2 DEF Begin, EncodeScalar, EnterNested, LeaveNested, Finish
  <2>2. QED
    BY <2>1 DEF ErrorInv
<1>3. CASE Refuse \/ ParseFails \/ BeginFails \/ KidFails \/ RefFails \/ CommitFails
  <2>1. pc' \in {"unwind", "cleanup", "done"} /\ cause' \notin {"name", "depth"}
    BY <1>3 DEF Refuse, ParseFails, BeginFails, KidFails, RefFails, CommitFails
  <2>2. QED
    BY <2>1 DEF ErrorInv
<1>4. CASE Commit
  <2>1. cause' = None /\ pc' = "done" /\ cause = None
    BY <1>4 DEF Commit, InitInv, Causeless
  <2>2. cause' \notin {"name", "depth"}
    BY <2>1, CauseAssumption DEF Causes
  <2>3. QED
    BY <2>1, <2>2 DEF ErrorInv
<1>5. CASE Cleanup
  <2>1. pc = "cleanup" /\ pc' = "done" /\ UNCHANGED <<request, stack, trail, cause>>
    BY <1>5 DEF Cleanup
  <2>2. QED
    BY <2>1 DEF ErrorInv, Passed, IsStack, Descends
<1>6. QED
  BY <1>1, <1>2, <1>3, <1>4, <1>5, RefusedPassed, UnwindPasses

-----------------------------------------------------------------------------
(***************************************************************************)
(* The verdict, and the place an error names.                              *)
(***************************************************************************)
\* Each call is about a node of the level it is at.
LEMMA DescentLevels ==
    ASSUME NEW s, IsStack(s), Descends(s), Waiting(s), Len(s) <= NestMax + 1,
           NEW i \in 1..Len(s)
    PROVE  s[i].node \in Levels(request.body)[i - 1]
<1>1. /\ Len(s) \in Nat /\ s # <<>>
      /\ \A j \in 1..Len(s) : s[j].node \in Nodes /\ s[j].next \in Nat \ {0}
                              /\ IsNested(s[j].node) /\ Len(Kids[s[j].node]) \in Nat
  BY FramesType, EmptySeq
<1>2. 1 \in 1..Len(s)
  BY <1>1, EmptySeq
<1>3. PICK body \in Nodes : body = request.body
  BY <1>1, <1>2 DEF Descends
<1> DEFINE P(m) == m + 1 \in 1..Len(s) => s[m + 1].node \in Levels(body)[m]
           T == {m \in Nat : P(m)}
<1>4. P(0)
  BY <1>1, <1>3, LevelsAre DEF Descends
<1>5. ASSUME NEW m \in Nat, P(m) PROVE P(m + 1)
  <2>1. SUFFICES ASSUME m + 1 + 1 \in 1..Len(s)
                 PROVE  s[m + 1 + 1].node \in Levels(body)[m + 1]
    OBVIOUS
  <2>2. PICK j \in 1..(Len(s) - 1) : j = m + 1
    BY <1>1, <2>1
  <2>3. j \in 1..Len(s) /\ j - 1 = m /\ j \in 1..(NestMax + 1)
    BY <1>1, <2>2, NestedAssumption
  <2>4. s[j].node \in Levels(body)[j - 1]
    BY <1>5, <2>2, <2>3
  <2>5. /\ s[j].next \in 1..Len(Kids[s[j].node])
        /\ s[j + 1].node = Kids[s[j].node][s[j].next].node
    <3>1. s[j].next <= Len(Kids[s[j].node])
      BY DEF Waiting, Busy
    <3>2. s[j].next \in Nat \ {0} /\ Len(Kids[s[j].node]) \in Nat
      BY <1>1, <2>3
    <3>3. s[j + 1].node = Kids[s[j].node][s[j].next].node
      BY DEF Descends
    <3>4. QED
      BY <3>1, <3>2, <3>3
  <2>6. KidOf(s[j]) \in KidsOf(s[j].node) /\ KidOf(s[j]).node = s[j + 1].node
    BY <1>1, <2>3, <2>5, KidsType DEF KidsOf, KidOf
  <2>7. Levels(body)[j] =
           {k.node : k \in UNION {KidsOf(node) : node \in Levels(body)[j - 1]}}
    BY <2>3, LevelsAre
  <2>8. s[j + 1].node \in Levels(body)[j]
    BY <2>4, <2>6, <2>7
  <2>9. QED
    BY <2>2, <2>8
<1>6. ASSUME NEW m \in Nat PROVE P(m)
  <2> HIDE DEF P
  <2>1. T \in SUBSET Nat /\ 0 \in T /\ \A m_1 \in T : m_1 + 1 \in T
    BY <1>4, <1>5
  <2>2. T = Nat
    <3> HIDE DEF T
    <3>1. QED
      BY <2>1, Induction
  <2>3. QED
    BY <2>2
<1>7. i - 1 \in Nat /\ i - 1 + 1 = i
  OBVIOUS
<1>8. QED
  BY <1>3, <1>6, <1>7

\* A tree with a kid that is refused is not as an init may take it.
LEMMA RefusedIsNot ==
    ASSUME NEW full, Passed(full)
    PROVE  ~Acceptable
<1> DEFINE n == Len(full)
           f == full[n]
<1>1. /\ IsStack(full) /\ Descends(full) /\ Stopped(full) /\ Waiting(full)
      /\ full # <<>> /\ n <= NestMax + 1 /\ n \in Nat /\ n \in 1..n
  BY FramesType, EmptySeq DEF Passed, Stopped, Waiting
<1>2. f.node \in Levels(request.body)[n - 1] /\ n - 1 \in 0..(NestMax + 1)
  BY <1>1, DescentLevels, NestedAssumption
<1>3. /\ f.node \in Nodes /\ IsNested(f.node) /\ f.next \in Nat \ {0}
      /\ f.next \in 1..Len(Kids[f.node])
  BY <1>1, FramesType DEF Stopped, Busy
<1>4. KidOf(f) \in KidsOf(f.node)
  BY <1>3, KidsType DEF KidOf, KidsOf
<1>5. CASE Type[f.node] = "object" /\ KidOf(f).key \notin Names
  BY <1>2, <1>4, <1>5 DEF Acceptable
<1>6. CASE IsNested(KidOf(f).node) /\ n > NestMax
  <2>1. n = NestMax + 1 /\ n \in 1..(NestMax + 1) /\ n \in 0..(NestMax + 1)
    BY <1>1, <1>6, NestedAssumption
  <2>2. PICK body \in Nodes : body = request.body
    <3>1. full[1].node \in Nodes /\ full[1].node = request.body
      BY <1>1, FramesType DEF Descends
    <3>2. QED
      BY <3>1
  <2>3. KidOf(f).node \in Levels(body)[n]
    BY <1>2, <1>4, <2>1, <2>2, LevelsAre
  <2>4. ~(n <= NestMax)
    BY <2>1, NestedAssumption
  <2>5. QED
    BY <1>6, <2>1, <2>2, <2>3, <2>4 DEF Acceptable
<1>7. QED
  BY <1>5, <1>6 DEF Passed

LEMMA VerdictFits ==
    ASSUME AnswerInv, FineInv, ErrorInv PROVE VerdictFitsTheTree
<1> SUFFICES ASSUME pc = "done"
             PROVE  /\ answer.status = 201 => Acceptable
                    /\ answer.status = 400 => ~Acceptable \/ cause = "parse"
  BY DEF VerdictFitsTheTree
<1>1. ASSUME answer.status = 201 PROVE Acceptable
  <2>1. BodyOk /\ Fine(request.body, 0)
    BY <1>1 DEF FineInv, Sent, Accepted
  <2>2. request.body \in Nodes
    BY <2>1 DEF Fine
  <2>3. PICK body \in Nodes : body = request.body
    BY <2>2
  <2>4. QED
    BY <2>1, <2>3, FineIsAcceptable DEF Acceptable, BodyOk
<1>2. ASSUME answer.status = 400, cause # "parse" PROVE ~Acceptable
  <2>1. cause \in {"parse", "type", "name", "depth"}
    BY <1>2 DEF AnswerInv
  <2>2. CASE cause = "type"
    BY <2>2 DEF AnswerInv, Acceptable, BodyOk
  <2>3. CASE cause \in {"name", "depth"}
    BY <2>3, RefusedIsNot DEF ErrorInv
  <2>4. QED
    BY <1>2, <2>1, <2>2, <2>3
<1>3. QED
  BY <1>1, <1>2

\* The recursive definition of where a message leads says what it seems to say.
LEMMA LedAre ==
    ASSUME NEW body \in Nodes, body = request.body, trail \in Seq(Place)
    PROVE  /\ LedTo[0] = {body}
           /\ \A n \in 1..Len(trail) :
                 LedTo[n] = {k.node : k \in UNION {KidsAt(node, trail[Len(trail) + 1 - n]) :
                                                    node \in LedTo[n - 1]}}
<1> DEFINE N == Len(trail)
           Next1(n, S) ==
              {k.node : k \in UNION {KidsAt(node, trail[Len(trail) + 1 - n]) : node \in S}}
           Def(f) == [n \in 0..N |-> IF n = 0 THEN {body} ELSE Next1(n, f[n - 1])]
           g == [n \in 1..N |-> [S \in SUBSET Nodes |-> Next1(n, S)]]
<1>1. N \in Nat
  BY LenProperties
<1>2. ASSUME NEW n \in 1..N, NEW S \in SUBSET Nodes PROVE Next1(n, S) \in SUBSET Nodes
  <2>1. PICK place : place = trail[Len(trail) + 1 - n]
    OBVIOUS
  <2>2. \A node \in Nodes : \A k \in KidsAt(node, place) : k.node \in Nodes
    BY KidsType DEF KidsAt
  <2>3. QED
    BY <2>1, <2>2
<1>3. g \in [1..N -> [SUBSET Nodes -> SUBSET Nodes]]
  BY <1>2
<1>4. PICK f \in [0..N -> SUBSET Nodes] :
         f[0] = {body} /\ \A n \in 1..N : f[n] = g[n][f[n - 1]]
  <2> HIDE DEF g
  <2>1. {body} \in SUBSET Nodes
    OBVIOUS
  <2>2. PICK S : S = SUBSET Nodes
    OBVIOUS
  <2>3. PICK a : a = {body}
    OBVIOUS
  <2>4. PICK M : M = N
    OBVIOUS
  <2>5. PICK h : h = g
    OBVIOUS
  <2>6. M \in Nat /\ a \in S /\ h \in [1..M -> [S -> S]]
    <3> HIDE DEF N
    <3>1. QED
      BY <1>1, <1>3, <2>1, <2>2, <2>3, <2>4, <2>5
  <2>7. \E f \in [0..M -> S] : f[0] = a /\ \A n \in 1..M : f[n] = h[n][f[n - 1]]
    BY <2>6, IterationExists, SMTT(60)
  <2>8. QED
    BY <2>2, <2>3, <2>4, <2>5, <2>7
<1>5. f = Def(f)
  <2>1. ASSUME NEW n \in 1..N PROVE f[n] = Next1(n, f[n - 1])
    <3>1. n - 1 \in 0..N
      BY <1>1
    <3>2. f[n - 1] \in SUBSET Nodes
      BY <3>1
    <3>3. g[n][f[n - 1]] = Next1(n, f[n - 1])
      BY <3>2
    <3> HIDE DEF Next1, g
    <3>4. QED
      BY <1>4, <3>3
  <2> HIDE DEF Next1, g, N
  <2>2. \A n \in 0..N : n # 0 => n \in 1..N
    BY <1>1
  <2>3. QED
    BY <1>4, <2>1, <2>2
<1>6. LedTo = CHOOSE h : h = Def(h)
  BY DEF LedTo
<1> HIDE DEF Def
<1>7. LedTo = Def(LedTo)
  BY <1>5, <1>6
<1>8. QED
  <2> HIDE DEF Next1
  <2>1. 0 \in 0..N /\ \A n \in 1..N : n \in 0..N /\ n # 0
    BY <1>1
  <2>2. /\ Def(LedTo)[0] = {body}
        /\ \A n \in 1..N : Def(LedTo)[n] = Next1(n, LedTo[n - 1])
    BY <2>1 DEF Def
  <2>3. QED
    BY <1>7, <2>2 DEF Next1

LEMMA KidAtPlace ==
    ASSUME NEW f, FrameOk(f), Busy(f)
    PROVE  KidOf(f) \in KidsAt(f.node, PlaceOf(f))
<1>1. f.node \in Nodes /\ f.next \in Nat \ {0}
  BY DEF FrameOk, Frame
<1>2. f.next \in DOMAIN Kids[f.node]
  BY <1>1, KidsType DEF Busy
<1>3. QED
  BY <1>2 DEF KidsAt, KidOf, PlaceOf

LEMMA PlaceIsNamed ==
    ASSUME InitInv, ErrorInv, pc = "done", cause \in {"name", "depth"}
    PROVE  TrailLeads
<1>1. PICK full \in Seq(Frame) : Passed(full)
  BY DEF ErrorInv
<1>2. stack = <<>> /\ trail \in Seq(Place) /\ Len(trail) \in Nat /\ Len(stack) = 0
  BY LenProperties DEF ErrorInv, InitInv, InitTypeOK
<1> DEFINE N == Len(trail)
<1>3. /\ Len(full) = N /\ N >= 1 /\ IsStack(full) /\ Descends(full) /\ full # <<>>
      /\ \A i \in 1..N : Busy(full[i]) /\ FrameOk(full[i])
      /\ \A j \in 1..N : trail[j] = PlaceOf(full[N + 1 - j])
  <2>1. /\ IsStack(full) /\ Descends(full) /\ Stopped(full) /\ full # <<>>
        /\ Len(full) = Len(stack) + Len(trail)
        /\ \A j \in 1..Len(trail) : trail[j] = PlaceOf(full[Len(full) + 1 - j])
    BY <1>1 DEF Passed
  <2>2. Len(full) = N /\ Len(full) >= 1
    BY <1>2, <2>1, EmptySeq, LenProperties
  <2>3. QED
    BY <2>1, <2>2 DEF Stopped, IsStack
<1>4. PICK body \in Nodes : body = request.body
  <2>1. full[1].node \in Nodes /\ full[1].node = request.body
    BY <1>2, <1>3, FramesType DEF Descends
  <2>2. QED
    BY <2>1
<1> DEFINE P(m) == m + 1 \in 1..N => full[m + 1].node \in LedTo[m]
           T == {m \in Nat : P(m)}
<1>5. P(0)
  BY <1>2, <1>3, <1>4, LedAre DEF Descends
<1>6. ASSUME NEW m \in Nat, P(m) PROVE P(m + 1)
  <2>1. SUFFICES ASSUME m + 1 + 1 \in 1..N
                 PROVE  full[m + 1 + 1].node \in LedTo[m + 1]
    OBVIOUS
  <2>2. PICK j \in 1..(N - 1) : j = m + 1
    BY <1>2, <2>1
  <2>3. j \in 1..N /\ j - 1 = m /\ N + 1 - j \in 1..N /\ N + 1 - (N + 1 - j) = j
    BY <1>2, <2>2
  <2>4. full[j].node \in LedTo[j - 1]
    BY <1>6, <2>2, <2>3
  <2>5. trail[N + 1 - j] = PlaceOf(full[j])
    BY <1>3, <2>3
  <2>6. KidOf(full[j]) \in KidsAt(full[j].node, trail[N + 1 - j])
    BY <1>3, <2>3, <2>5, KidAtPlace
  <2>7. KidOf(full[j]).node = full[j + 1].node
    BY <1>3, <2>2 DEF Descends, KidOf
  <2>8. LedTo[j] =
           {k.node : k \in UNION {KidsAt(node, trail[N + 1 - j]) : node \in LedTo[j - 1]}}
    BY <1>2, <1>4, <2>3, LedAre
  <2>9. full[j + 1].node \in LedTo[j]
    BY <2>4, <2>6, <2>7, <2>8
  <2>10. QED
    BY <2>2, <2>9
<1>7. P(N - 1)
  <2> HIDE DEF P
  <2>1. T \in SUBSET Nat /\ 0 \in T /\ \A m_1 \in T : m_1 + 1 \in T
    BY <1>5, <1>6
  <2>2. T = Nat
    <3> HIDE DEF T
    <3>1. QED
      BY <2>1, Induction
  <2>3. N - 1 \in Nat
    BY <1>2, <1>3
  <2>4. QED
    BY <2>2, <2>3
<1>8. full[N].node \in LedTo[N - 1]
  BY <1>2, <1>3, <1>7
<1>9. KidOf(full[N]) \in KidsAt(full[N].node, trail[1])
  <2>1. N \in 1..N /\ 1 \in 1..N /\ N + 1 - 1 = N
    BY <1>2, <1>3
  <2>2. trail[1] = PlaceOf(full[N])
    BY <1>3, <2>1
  <2>3. QED
    BY <1>3, <2>1, <2>2, KidAtPlace
<1>10. IF cause = "name" THEN KidOf(full[N]).key \notin Names
       ELSE IsNested(KidOf(full[N]).node) /\ N > NestMax
  BY <1>1, <1>3 DEF Passed
<1>11. trail # <<>>
  BY <1>2, <1>3
<1>12. QED
  BY <1>8, <1>9, <1>10, <1>11 DEF TrailLeads

-----------------------------------------------------------------------------
(***************************************************************************)
(* What of the places is in the message.                                   *)
(***************************************************************************)
\* While a failure passes the levels, the buffer has its innermost places, all
\* of them until it is full.
Printing(n) ==
    /\ message.places = SubSeq(trail, 1, n)
    /\ message.length <= TmpMax
    /\ trail # <<>> => n >= 1
    /\ n < Len(trail) => message.length = TmpMax
    /\ trail = <<>> => message.length = ReasonLen[cause]

MessageInv ==
    /\ pc = "unwind" => cause \in Causes /\ \E n \in 0..Len(trail) : Printing(n)
    /\ pc \in {"cleanup", "done"} /\ cause \in {"name", "depth"} =>
          \E inner \in 0..(Len(trail) - 1), body \in BOOLEAN :
             MessageShows(inner, body)

\* The beginning of a sequence is that of a longer one.
LEMMA Beginning ==
    ASSUME NEW s \in Seq(Place), NEW e \in Place, NEW n \in 0..Len(s)
    PROVE  /\ SubSeq(s, 1, n) \in Seq(Place)
           /\ SubSeq(Append(s, e), 1, n) = SubSeq(s, 1, n)
           /\ SubSeq(s, 1, Len(s)) = s
           /\ SubSeq(s, 1, 0) = <<>>
<1>1. Len(s) \in Nat /\ 1..n \subseteq 1..Len(s) /\ n \in Int
  BY LenProperties
<1>2. \A i \in 1..Len(s) : s[i] \in Place
  BY ElementOfSeq
<1>3. \A i \in 1..Len(s) : Append(s, e)[i] = s[i]
  BY AppendProperties
<1>4. /\ SubSeq(s, 1, n) \in Seq(Place)
      /\ Len(SubSeq(s, 1, n)) = IF 1 <= n THEN n - 1 + 1 ELSE 0
      /\ \A i \in 1..(n - 1 + 1) : SubSeq(s, 1, n)[i] = s[1 + i - 1]
  BY <1>1, <1>2, SubSeqProperties
<1>5. /\ SubSeq(Append(s, e), 1, n) \in Seq(Place)
      /\ Len(SubSeq(Append(s, e), 1, n)) = IF 1 <= n THEN n - 1 + 1 ELSE 0
      /\ \A i \in 1..(n - 1 + 1) : SubSeq(Append(s, e), 1, n)[i] = Append(s, e)[1 + i - 1]
  <2>1. \A i \in 1..n : Append(s, e)[i] \in Place
    BY <1>1, <1>2, <1>3
  <2>2. QED
    BY <1>1, <2>1, SubSeqProperties
<1>6. SubSeq(Append(s, e), 1, n) = SubSeq(s, 1, n)
  <2>1. Len(SubSeq(Append(s, e), 1, n)) = Len(SubSeq(s, 1, n))
    BY <1>4, <1>5
  <2>2. ASSUME NEW i \in 1..Len(SubSeq(Append(s, e), 1, n))
        PROVE  SubSeq(Append(s, e), 1, n)[i] = SubSeq(s, 1, n)[i]
    <3>1. i \in 1..(n - 1 + 1) /\ 1 + i - 1 = i /\ i \in 1..Len(s)
      BY <1>1, <1>5
    <3>2. QED
      BY <1>3, <1>4, <1>5, <3>1
  <2>3. QED
    BY <1>4, <1>5, <2>1, <2>2, SeqEqual
<1>7. SubSeq(s, 1, Len(s)) = s
  <2>1. /\ SubSeq(s, 1, Len(s)) \in Seq(Place)
        /\ Len(SubSeq(s, 1, Len(s))) = IF 1 <= Len(s) THEN Len(s) - 1 + 1 ELSE 0
        /\ \A i \in 1..(Len(s) - 1 + 1) : SubSeq(s, 1, Len(s))[i] = s[1 + i - 1]
    BY <1>1, <1>2, SubSeqProperties
  <2>2. Len(SubSeq(s, 1, Len(s))) = Len(s)
    BY <1>1, <2>1
  <2>3. \A i \in 1..Len(SubSeq(s, 1, Len(s))) : SubSeq(s, 1, Len(s))[i] = s[i]
    BY <1>1, <2>1, <2>2
  <2>4. QED
    BY <2>1, <2>2, <2>3, SeqEqual
<1>8. SubSeq(s, 1, 0) = <<>>
  BY SubSeqEmpty
<1>9. QED
  BY <1>4, <1>6, <1>7, <1>8

LEMMA FailurePrints ==
    ASSUME InitInv, ErrorInv, pc = "fill", pc' = "unwind", cause' \in Causes,
           message' = Reason(cause'), trail' = trail
    PROVE  MessageInv'
<1>1. trail' = <<>> /\ Len(trail') = 0 /\ 0 \in 0..Len(trail')
  BY DEF ErrorInv
<1>2. message'.places = <<>> /\ message'.length = ReasonLen[cause']
  BY DEF Reason
<1>3. SubSeq(trail', 1, 0) = <<>>
  BY SubSeqEmpty
<1>4. ReasonLen[cause'] <= TmpMax
  BY CauseAssumption, NestedAssumption
<1>5. Printing(0)'
  BY <1>1, <1>2, <1>3, <1>4 DEF Printing
<1>6. QED
  BY <1>1, <1>5 DEF MessageInv

LEMMA UnwindPrints ==
    ASSUME InitInv, MessageInv, Unwind
    PROVE  MessageInv'
<1>1. /\ pc = "unwind" /\ trail' = Append(trail, PlaceOf(Top)) /\ cause' = cause
      /\ IF Len(stack) = 1 THEN pc' = "cleanup" /\ message' = Replied(Top)
         ELSE pc' = pc /\ message' = fail_in(Top)
  BY DEF Unwind
<1>2. PICK n \in 0..Len(trail) : Printing(n)
  BY <1>1 DEF MessageInv
<1>3. /\ trail \in Seq(Place) /\ Len(trail) \in Nat /\ message \in Message
      /\ message.length \in Nat /\ cause \in Causes
      /\ ReasonLen[cause] \in Nat /\ ReasonLen[cause] + CtxMax <= TmpMax
      /\ TmpMax \in Nat /\ ReplyMax \in Nat /\ TmpMax <= ReplyMax
      /\ CtxMax \in Nat \ {0}
  BY <1>1, LenProperties, CauseAssumption, NestedAssumption
     DEF InitInv, InitTypeOK, Message, MessageInv
<1>4. FrameOk(Top) /\ Busy(Top)
  BY <1>1, TopOk DEF InitInv, InitTypeOK, Stopped, Top
<1>5. PICK place \in Place : place = PlaceOf(Top)
  BY <1>4, PlaceType
<1>6. PICK own \in Nat \ {0} : own = PlaceLen(Top)
  BY <1>4, PlaceType
<1>7. PICK len \in Nat \ {0} : len = (IF own <= CtxMax THEN own ELSE CtxMax) /\ len <= CtxMax
  BY <1>3
<1>8. PICK before : before = trail /\ before \in Seq(Place)
  BY <1>3
<1>9. PICK after \in Seq(Place) :
         /\ after = trail' /\ after = Append(before, place)
         /\ Len(after) = Len(before) + 1 /\ after # <<>>
         /\ after[Len(after)] = place
  BY <1>1, <1>5, <1>8, AppendProperties
<1>10. /\ SubSeq(before, 1, n) \in Seq(Place)
       /\ SubSeq(after, 1, n) = SubSeq(before, 1, n)
       /\ SubSeq(before, 1, Len(before)) = before
       /\ SubSeq(after, 1, Len(after)) = after
  BY <1>8, <1>9, Beginning
<1>11. PICK old : old = message.length /\ old \in Nat /\ old <= TmpMax
  BY <1>2, <1>3 DEF Printing
<1>12. /\ message.places = SubSeq(before, 1, n)
       /\ before # <<>> => n >= 1
       /\ n < Len(before) => old = TmpMax
       /\ before = <<>> => old + CtxMax <= TmpMax
  BY <1>2, <1>3, <1>8, <1>11 DEF Printing
<1>13. PICK new : new = message'
  OBVIOUS
<1>14. n \in Nat /\ n <= Len(before) /\ Len(before) \in Nat
  BY <1>3, <1>8
<1>15. CASE Len(stack) # 1
  <2>1. new = Printed(place, len, TmpMax)
    BY <1>1, <1>5, <1>6, <1>7, <1>13, <1>15 DEF fail_in
  <2>2. /\ old + len <= TmpMax => /\ new.places = Append(message.places, place)
                                   /\ new.length = old + len
        /\ ~(old + len <= TmpMax) => new.places = message.places /\ new.length = TmpMax
    <3>1. len \in Nat /\ TmpMax \in Nat /\ message \in Message /\ place \in Place
      BY <1>3, <1>7
    <3>2. /\ message.length + len <= TmpMax =>
                /\ Printed(place, len, TmpMax).places = Append(message.places, place)
                /\ Printed(place, len, TmpMax).length = message.length + len
          /\ ~(message.length + len <= TmpMax) =>
                /\ Printed(place, len, TmpMax).places = message.places
                /\ Printed(place, len, TmpMax).length = TmpMax
      BY <3>1, PrintedIs
    <3>3. QED
      BY <1>11, <2>1, <3>2
  <2>3. CASE old + len <= TmpMax
    <3>1. n = Len(before)
      BY <1>7, <1>11, <1>12, <1>14, <2>3
    <3>2. new.places = SubSeq(after, 1, Len(after))
      BY <1>9, <1>10, <1>12, <2>2, <2>3, <3>1
    <3>3. Len(after) >= 1 /\ Len(after) \in 0..Len(after)
      BY <1>9, <1>14
    <3>4. Printing(Len(after))'
      BY <1>9, <1>13, <2>2, <2>3, <3>2, <3>3 DEF Printing
    <3>5. QED
      BY <1>1, <1>3, <1>9, <1>15, <3>3, <3>4 DEF MessageInv
  <2>4. CASE ~(old + len <= TmpMax)
    <3>1. before # <<>> /\ n >= 1
      BY <1>3, <1>7, <1>11, <1>12, <2>4
    <3>2. new.places = SubSeq(after, 1, n) /\ new.length = TmpMax
      BY <1>10, <1>12, <2>2, <2>4
    <3>3. n \in 0..Len(after)
      BY <1>9, <1>14
    <3>4. Printing(n)'
      BY <1>3, <1>9, <1>13, <3>1, <3>2 DEF Printing
    <3>5. QED
      BY <1>1, <1>3, <1>9, <1>15, <3>3, <3>4 DEF MessageInv
  <2>5. QED
    BY <2>3, <2>4
<1>16. CASE Len(stack) = 1
  <2>1. new = Printed(place, own, ReplyMax)
    BY <1>1, <1>5, <1>6, <1>13, <1>16 DEF Replied
  <2>2. /\ old + own <= ReplyMax => /\ new.places = Append(message.places, place)
                                     /\ new.length = old + own
        /\ ~(old + own <= ReplyMax) => new.places = message.places /\ new.length = ReplyMax
    <3>1. own \in Nat /\ ReplyMax \in Nat /\ message \in Message /\ place \in Place
      BY <1>3, <1>6
    <3>2. /\ message.length + own <= ReplyMax =>
                /\ Printed(place, own, ReplyMax).places = Append(message.places, place)
                /\ Printed(place, own, ReplyMax).length = message.length + own
          /\ ~(message.length + own <= ReplyMax) =>
                /\ Printed(place, own, ReplyMax).places = message.places
                /\ Printed(place, own, ReplyMax).length = ReplyMax
      BY <3>1, PrintedIs
    <3>3. QED
      BY <1>11, <2>1, <3>2
  <2>3. n \in 0..(Len(after) - 1) /\ (Len(after) > 1 => n >= 1)
        /\ (n < Len(after) - 1 => old = TmpMax)
    <3>1. Len(after) > 1 => before # <<>>
      BY <1>9, EmptySeq
    <3>2. QED
      BY <1>9, <1>12, <1>14, <3>1
  <2>4. CASE old + own <= ReplyMax
    <3>1. new.places = SubSeq(after, 1, n) \o <<place>>
      BY <1>10, <1>12, <2>2, <2>4, AppendIsConcat
    <3>2. n < Len(after) - 1 => new.length >= TmpMax
      BY <1>3, <1>11, <2>2, <2>3, <2>4
    <3>3. MessageShows(n, TRUE)'
      BY <1>9, <1>13, <2>3, <3>1, <3>2 DEF MessageShows
    <3>4. QED
      BY <1>1, <1>9, <1>16, <2>3, <3>3 DEF MessageInv
  <2>5. CASE ~(old + own <= ReplyMax)
    <3>1. new.places = SubSeq(after, 1, n) \o <<>>
      BY <1>10, <1>12, <2>2, <2>5, ConcatEmptySeq
    <3>2. new.length = ReplyMax /\ new.length >= TmpMax
      BY <1>3, <2>2, <2>5
    <3>3. MessageShows(n, FALSE)'
      BY <1>9, <1>13, <2>3, <3>1, <3>2 DEF MessageShows
    <3>4. QED
      BY <1>1, <1>9, <1>16, <2>3, <3>3 DEF MessageInv
  <2>6. QED
    BY <2>4, <2>5
<1>17. QED
  BY <1>15, <1>16

LEMMA MessagePreserved ==
    ASSUME InitInv, ErrorInv, MessageInv, InitNext PROVE MessageInv'
<1>1. \/ Refuse \/ Begin \/ EncodeScalar \/ EnterNested \/ LeaveNested
      \/ KidRefused \/ Unwind \/ Finish \/ Commit \/ Cleanup
      \/ ParseFails \/ BeginFails \/ KidFails \/ RefFails \/ CommitFails
  BY DEF InitNext, InitWork
<1>2. CASE Begin \/ EncodeScalar \/ EnterNested \/ LeaveNested \/ Finish
  <2>1. pc' \in {"fill", "commit"}
    BY <1>2 DEF Begin, EncodeScalar, EnterNested, LeaveNested, Finish
  <2>2. QED
    BY <2>1 DEF MessageInv
<1>3. CASE Refuse \/ ParseFails \/ BeginFails \/ CommitFails
  <2>1. pc' \in {"cleanup", "done"} /\ cause' \notin {"name", "depth"}
    BY <1>3 DEF Refuse, ParseFails, BeginFails, CommitFails
  <2>2. QED
    BY <2>1 DEF MessageInv
<1>4. CASE Commit
  <2>1. cause' = None /\ pc' = "done" /\ cause = None
    BY <1>4 DEF Commit, InitInv, Causeless
  <2>2. cause' \notin {"name", "depth"}
    BY <2>1, CauseAssumption DEF Causes
  <2>3. QED
    BY <2>1, <2>2 DEF MessageInv
<1>5. CASE Cleanup
  <2>1. pc = "cleanup" /\ pc' = "done" /\ UNCHANGED <<trail, message, cause>>
    BY <1>5 DEF Cleanup
  <2>2. \A inner, body : MessageShows(inner, body) => MessageShows(inner, body)'
    BY <2>1 DEF MessageShows
  <2>3. QED
    BY <2>1, <2>2 DEF MessageInv
<1>6. CASE KidRefused \/ KidFails \/ RefFails
  <2>1. pc = "fill" /\ pc' = "unwind" /\ cause' \in Causes
        /\ message' = Reason(cause') /\ trail' = trail
    BY <1>6 DEF KidRefused, KidFails, RefFails, Causes
  <2>2. QED
    BY <2>1, FailurePrints
<1>7. QED
  BY <1>1, <1>2, <1>3, <1>4, <1>5, <1>6, UnwindPrints

LEMMA MessageStutters ==
    ASSUME MessageInv, UNCHANGED init_vars PROVE MessageInv'
<1>1. UNCHANGED <<pc, trail, message, cause>>
  BY DEF init_vars
<1>2. /\ \A n : Printing(n) => Printing(n)'
      /\ \A inner, body : MessageShows(inner, body) => MessageShows(inner, body)'
  BY <1>1 DEF Printing, MessageShows
<1>3. QED
  BY <1>1, <1>2 DEF MessageInv

-----------------------------------------------------------------------------
(***************************************************************************)
(* What is stored of a node by the time a number of its kids are.          *)
(***************************************************************************)
\* What the first m kids leave in an array: the texts of scalars, once each,
\* and a reference for each that is nested.
TextsTo(node, m) == {Text[Kids[node][i].node] :
                        i \in {j \in 1..m : ~IsNested(Kids[node][j].node)}}
NestedTo(node, m) == {i \in 1..m : IsNested(Kids[node][i].node)}

\* The entity p of db holds the first m kids of the node; R relates values to
\* the nodes they stand for.
Holds(db, R, node, p, m) ==
    IF Type[node] = "object"
    THEN \A n \in Names :
            /\ (\A i \in 1..m : Kids[node][i].key # n) => db.obj[p][n] = None
            /\ \A i \in 1..m :
                  /\ Kids[node][i].key = n
                  /\ \A j \in (i + 1)..m : Kids[node][j].key # n
                  => <<db.obj[p][n], Kids[node][i].node>> \in R
    ELSE /\ \A i \in 1..m : \E v \in db.set[p] : <<v, Kids[node][i].node>> \in R
         /\ \A v \in db.set[p] : \E i \in 1..m : <<v, Kids[node][i].node>> \in R
         /\ Cardinality(db.set[p]) =
               Cardinality(TextsTo(node, m)) + Cardinality(NestedTo(node, m))

OfKind(node, p) == p \in IF Type[node] = "array" THEN SetPtr ELSE ObjPtr

\* All that R relates is complete.
Closed(db, R) ==
    \A x \in R : IF IsNested(x[2])
                 THEN /\ OfKind(x[2], x[1])
                      /\ Holds(db, R, x[2], x[1], Len(Kids[x[2]]))
                 ELSE x[1] = Text[x[2]]

Relations == SUBSET (Val \X Nodes)

LEMMA HoldsNothing ==
    ASSUME NEW db, NEW R, NEW node \in Nodes, NEW p,
           Type[node] = "object" => db.obj[p] = NoMembers,
           Type[node] # "object" => db.set[p] = {}
    PROVE  Holds(db, R, node, p, 0)
<1>1. CASE Type[node] = "object"
  <2>1. 1..0 = {}
    OBVIOUS
  <2>2. QED
    BY <1>1, <2>1 DEF Holds, NoMembers
<1>2. CASE Type[node] # "object"
  <2>1. 1..0 = {} /\ TextsTo(node, 0) = {} /\ NestedTo(node, 0) = {}
    BY DEF TextsTo, NestedTo
  <2>2. Cardinality({}) = 0
    BY FS_EmptySet
  <2>3. QED
    BY <1>2, <2>1, <2>2 DEF Holds
<1>3. QED
  BY <1>1, <1>2

LEMMA HoldsKept ==
    ASSUME NEW db, NEW db2, NEW R, NEW R2, R \subseteq R2,
           NEW node \in Nodes, NEW p, NEW m,
           db2.obj[p] = db.obj[p] \/ Type[node] # "object",
           db2.set[p] = db.set[p] \/ Type[node] = "object",
           Holds(db, R, node, p, m)
    PROVE  Holds(db2, R2, node, p, m)
<1>1. CASE Type[node] = "object"
  BY <1>1 DEF Holds
<1>2. CASE Type[node] # "object"
  BY <1>2 DEF Holds
<1>3. QED
  BY <1>1, <1>2

LEMMA ObjectPut ==
    ASSUME NEW db, NEW db2, NEW R, NEW R2, R \subseteq R2,
           NEW node \in Nodes, Type[node] = "object", NEW p,
           NEW m \in Nat, m + 1 <= Len(Kids[node]), Holds(db, R, node, p, m),
           NEW v, <<v, Kids[node][m + 1].node>> \in R2,
           \A n \in Names : db2.obj[p][n] = IF n = Kids[node][m + 1].key THEN v
                                            ELSE db.obj[p][n]
    PROVE  Holds(db2, R2, node, p, m + 1)
<1> SUFFICES ASSUME NEW n \in Names
             PROVE  /\ (\A i \in 1..(m + 1) : Kids[node][i].key # n) => db2.obj[p][n] = None
                    /\ \A i \in 1..(m + 1) :
                         /\ Kids[node][i].key = n
                         /\ \A j \in (i + 1)..(m + 1) : Kids[node][j].key # n
                         => <<db2.obj[p][n], Kids[node][i].node>> \in R2
  BY DEF Holds
<1>1. m + 1 \in 1..(m + 1) /\ \A i \in 1..m : i \in 1..(m + 1)
  OBVIOUS
<1>2. CASE n = Kids[node][m + 1].key
  <2>1. ASSUME NEW i \in 1..(m + 1), \A j \in (i + 1)..(m + 1) : Kids[node][j].key # n
        PROVE  i = m + 1
    <3>1. m + 1 \notin (i + 1)..(m + 1)
      BY <1>2, <2>1
    <3>2. QED
      BY <3>1
  <2>2. QED
    BY <1>1, <1>2, <2>1
<1>3. CASE n # Kids[node][m + 1].key
  <2>1. db2.obj[p][n] = db.obj[p][n]
    BY <1>3
  <2>2. (\A i \in 1..(m + 1) : Kids[node][i].key # n) => db2.obj[p][n] = None
    BY <1>1, <2>1 DEF Holds
  <2>3. ASSUME NEW i \in 1..(m + 1), Kids[node][i].key = n,
               \A j \in (i + 1)..(m + 1) : Kids[node][j].key # n
        PROVE  <<db2.obj[p][n], Kids[node][i].node>> \in R2
    <3>1. i \in 1..m /\ \A j \in (i + 1)..m : j \in (i + 1)..(m + 1)
      BY <1>3, <2>3
    <3>2. <<db.obj[p][n], Kids[node][i].node>> \in R
      BY <2>3, <3>1 DEF Holds
    <3>3. QED
      BY <2>1, <3>2
  <2>4. QED
    BY <2>2, <2>3
<1>4. QED
  BY <1>2, <1>3

LEMMA PartsGrow ==
    ASSUME NEW node \in Nodes, NEW m \in Nat
    PROVE  /\ IsFiniteSet(TextsTo(node, m)) /\ IsFiniteSet(NestedTo(node, m))
           /\ IF IsNested(Kids[node][m + 1].node)
              THEN /\ TextsTo(node, m + 1) = TextsTo(node, m)
                   /\ NestedTo(node, m + 1) = NestedTo(node, m) \cup {m + 1}
                   /\ m + 1 \notin NestedTo(node, m)
              ELSE /\ TextsTo(node, m + 1) =
                         TextsTo(node, m) \cup {Text[Kids[node][m + 1].node]}
                   /\ NestedTo(node, m + 1) = NestedTo(node, m)
<1>1. IsFiniteSet(1..m)
  BY FS_Interval
<1>2. IsFiniteSet(NestedTo(node, m))
  BY <1>1, FS_Subset DEF NestedTo
<1>3. IsFiniteSet(TextsTo(node, m))
  <2> DEFINE S == {j \in 1..m : ~IsNested(Kids[node][j].node)}
             f == [i \in S |-> Text[Kids[node][i].node]]
  <2>1. IsFiniteSet(S)
    BY <1>1, FS_Subset
  <2>2. TextsTo(node, m) = {f[i] : i \in S}
    BY DEF TextsTo
  <2>3. IsFiniteSet({f[i] : i \in S})
    <3>1. f \in [S -> {f[i] : i \in S}]
      OBVIOUS
    <3>2. f \in Surjection(S, {f[i] : i \in S})
      BY <3>1 DEF Surjection
    <3> HIDE DEF f, S
    <3>3. QED
      BY <2>1, <3>2, FS_Surjection
  <2>4. QED
    BY <2>2, <2>3
<1>4. \A i : i \in 1..(m + 1) <=> i \in 1..m \/ i = m + 1
  OBVIOUS
<1>5. m + 1 \notin 1..m
  OBVIOUS
<1>6. QED
  BY <1>2, <1>3, <1>4, <1>5 DEF TextsTo, NestedTo

LEMMA ArrayPut ==
    ASSUME NEW db, NEW db2, NEW R \in Relations, NEW R2, R \subseteq R2, Closed(db, R),
           NEW node \in Nodes, Type[node] = "array", NEW p,
           NEW m \in Nat, m + 1 <= Len(Kids[node]), Holds(db, R, node, p, m),
           NEW v, <<v, Kids[node][m + 1].node>> \in R2,
           IF IsNested(Kids[node][m + 1].node) THEN v \notin db.set[p]
           ELSE v = Text[Kids[node][m + 1].node],
           IsFiniteSet(db.set[p]), db2.set[p] = db.set[p] \cup {v}
    PROVE  Holds(db2, R2, node, p, m + 1)
<1> DEFINE kid(i) == Kids[node][i].node
           E == db.set[p]
<1>1. /\ m + 1 \in 1..(m + 1) /\ \A i \in 1..m : i \in 1..(m + 1)
      /\ \A i \in 1..(m + 1) : i \in 1..m \/ i = m + 1
  OBVIOUS
<1>2. /\ \A i \in 1..m : \E w \in E : <<w, kid(i)>> \in R
      /\ \A w \in E : \E i \in 1..m : <<w, kid(i)>> \in R
      /\ Cardinality(E) = Cardinality(TextsTo(node, m)) + Cardinality(NestedTo(node, m))
  BY DEF Holds
<1>3. \A i \in 1..(m + 1) : \E w \in E \cup {v} : <<w, kid(i)>> \in R2
  BY <1>1, <1>2
<1>4. \A w \in E \cup {v} : \E i \in 1..(m + 1) : <<w, kid(i)>> \in R2
  BY <1>1, <1>2
<1>5. \A i \in 1..(m + 1) : i \in 1..Len(Kids[node])
  BY KidsType
<1>6. /\ IsFiniteSet(TextsTo(node, m)) /\ IsFiniteSet(NestedTo(node, m))
      /\ Cardinality(TextsTo(node, m)) \in Nat /\ Cardinality(NestedTo(node, m)) \in Nat
  BY PartsGrow, FS_CardinalityType
<1>7. Cardinality(E \cup {v}) =
         Cardinality(TextsTo(node, m + 1)) + Cardinality(NestedTo(node, m + 1))
  <2>1. CASE IsNested(kid(m + 1))
    <3>1. Cardinality(E \cup {v}) = Cardinality(E) + 1
      BY <2>1, FS_AddElement
    <3>2. Cardinality(NestedTo(node, m) \cup {m + 1}) = Cardinality(NestedTo(node, m)) + 1
      BY <1>6, <2>1, PartsGrow, FS_AddElement
    <3>3. /\ TextsTo(node, m + 1) = TextsTo(node, m)
          /\ NestedTo(node, m + 1) = NestedTo(node, m) \cup {m + 1}
      BY <2>1, PartsGrow
    <3>4. Cardinality(NestedTo(node, m + 1)) = Cardinality(NestedTo(node, m)) + 1
          /\ Cardinality(TextsTo(node, m + 1)) = Cardinality(TextsTo(node, m))
      BY <3>2, <3>3
    <3> HIDE DEF E
    <3>5. QED
      BY <1>2, <1>6, <3>1, <3>4
  <2>2. CASE ~IsNested(kid(m + 1))
    <3>1. /\ TextsTo(node, m + 1) = TextsTo(node, m) \cup {v}
          /\ NestedTo(node, m + 1) = NestedTo(node, m)
      BY <2>2, PartsGrow
    <3>2. v \in E <=> v \in TextsTo(node, m)
      <4>1. ASSUME v \in E PROVE v \in TextsTo(node, m)
        <5>1. PICK i \in 1..m : <<v, kid(i)>> \in R
          BY <1>2, <4>1
        <5>2. v \in Raw
          BY <1>1, <1>5, <2>2, KidsType, NestedAssumption
        <5>3. ~IsNested(kid(i))
          <6>1. IsNested(kid(i)) => v \in Ptr
            BY <5>1 DEF Closed, OfKind, Ptr
          <6>2. QED
            BY <5>2, <6>1, StoreAssumption DEF Ptr
        <5>4. v = Text[kid(i)]
          BY <5>1, <5>3 DEF Closed
        <5>5. QED
          BY <5>3, <5>4 DEF TextsTo
      <4>2. ASSUME v \in TextsTo(node, m) PROVE v \in E
        <5>1. PICK i \in 1..m : ~IsNested(kid(i)) /\ v = Text[kid(i)]
          BY <4>2 DEF TextsTo
        <5>2. PICK w \in E : <<w, kid(i)>> \in R
          BY <1>2
        <5>3. w = Text[kid(i)]
          BY <5>1, <5>2 DEF Closed
        <5>4. QED
          BY <5>1, <5>2, <5>3
      <4>3. QED
        BY <4>1, <4>2
    <3>3. CASE v \in E
      <4>1. E \cup {v} = E /\ TextsTo(node, m) \cup {v} = TextsTo(node, m)
        BY <3>2, <3>3
      <4>2. QED
        BY <1>2, <3>1, <4>1
    <3>4. CASE v \notin E
      <4>1. Cardinality(E \cup {v}) = Cardinality(E) + 1
        BY <3>4, FS_AddElement
      <4>2. Cardinality(TextsTo(node, m) \cup {v}) = Cardinality(TextsTo(node, m)) + 1
        BY <1>6, <3>2, <3>4, FS_AddElement
      <4>3. Cardinality(TextsTo(node, m + 1)) = Cardinality(TextsTo(node, m)) + 1
            /\ Cardinality(NestedTo(node, m + 1)) = Cardinality(NestedTo(node, m))
        BY <3>1, <4>2
      <4> HIDE DEF E
      <4>4. QED
        BY <1>2, <1>6, <4>1, <4>3
    <3>5. QED
      BY <3>3, <3>4
  <2>3. QED
    BY <2>1, <2>2
<1> HIDE DEF E
<1>8. db2.set[p] = E \cup {v} /\ Type[node] # "object"
  BY DEF E
<1>9. QED
  BY <1>3, <1>4, <1>7, <1>8 DEF Holds

-----------------------------------------------------------------------------
(***************************************************************************)
(* The entities an init makes, and what it builds of them.                 *)
(***************************************************************************)
Refs(i) == {Fresh[i].object, Fresh[i].array}

Made == UNION {Refs(i) : i \in 1..made}

\* What was there before is as it was.
Untouched ==
    /\ made \in 0..Len(Fresh)
    /\ \A p \in ObjPtr \ Made : view.obj[p] = InitDb.obj[p]
    /\ \A p \in SetPtr \ Made : view.set[p] = InitDb.set[p]

\* born[s] is the number of the entity of the s-th call: each call has made its
\* own after the call below it.
Birth(born) ==
    /\ born \in [1..Len(stack) -> 1..made]
    /\ \A s \in 1..Len(stack) : stack[s].ptr = Fresh[born[s]][Type[stack[s].node]]
    /\ \A s \in 1..(Len(stack) - 1) : born[s] < born[s + 1]

Growing(born) == \A s, t \in 1..Len(stack) : s < t => born[s] < born[t]

\* The entities that R relates are complete, and none is being filled; those
\* that are hold the kids before the one their call is at.
Building(R) ==
    /\ Closed(view, R)
    /\ \A x \in R : IsNested(x[2]) =>
          x[1] \in Made /\ \A s \in 1..Len(stack) : stack[s].ptr # x[1]
    /\ \A s \in 1..Len(stack) :
          Holds(view, R, stack[s].node, stack[s].ptr, stack[s].next - 1)

\* The j-th entity refers to the i-th.
RefersTo(j, i) ==
    \/ Refs(i) \cap {view.obj[Fresh[j].object][n] : n \in Names} # {}
    \/ Refs(i) \cap view.set[Fresh[j].array] # {}

\* An entity that nothing refers to is still being filled.
Held(born) ==
    ~KeysRepeat(request.body) =>
        \A i \in 2..made : \/ \E s \in 2..Len(stack) : born[s] = i
                           \/ \E j \in 1..(i - 1) : RefersTo(j, i)

BuildInv ==
    /\ pc \in {"start", "fill"} \/ Sent => Untouched
    /\ pc = "start" => made = 0
    /\ pc = "fill" =>
          /\ \E born : Birth(born) /\ Growing(born) /\ Held(born)
          /\ \E R \in Relations : Building(R)

LEMMA FreshIs ==
    /\ Len(Fresh) \in Nat /\ Len(Fresh) >= 1 /\ DOMAIN Fresh = 1..Len(Fresh)
    /\ \A i \in 1..Len(Fresh) :
          /\ Fresh[i] \in [object: ObjPtr, array: SetPtr]
          /\ Fresh[i].object \in ObjPtr /\ Fresh[i].array \in SetPtr
          /\ InitDb.obj[Fresh[i].object] = NoMembers
          /\ InitDb.set[Fresh[i].array] = {}
          /\ \A j \in 1..Len(Fresh) : Refs(i) \cap Refs(j) # {} => i = j
<1>1. /\ Len(Fresh) \in Nat /\ Len(Fresh) >= 1 /\ DOMAIN Fresh = 1..Len(Fresh)
      /\ \A i \in 1..Len(Fresh) : Fresh[i] \in [object: ObjPtr, array: SetPtr]
  <2>1. PICK T : T = [object: ObjPtr, array: SetPtr]
    OBVIOUS
  <2>2. Fresh \in Seq(T) /\ Fresh # <<>>
    BY <2>1, NestedAssumption
  <2>3. Len(Fresh) \in Nat /\ DOMAIN Fresh = 1..Len(Fresh) /\ Len(Fresh) # 0
        /\ \A i \in 1..Len(Fresh) : Fresh[i] \in T
    BY <2>2, LenProperties, ElementOfSeq, EmptySeq
  <2>4. QED
    BY <2>1, <2>3
<1>2. ASSUME NEW i \in 1..Len(Fresh), NEW j \in 1..Len(Fresh), i # j
      PROVE  Refs(i) \cap Refs(j) = {}
  <2>1. Fresh[i].object # Fresh[j].object /\ Fresh[i].array # Fresh[j].array
    BY <1>1, <1>2, FreshAssumption
  <2>2. Fresh[i].object # Fresh[j].array /\ Fresh[i].array # Fresh[j].object
    BY <1>1, StoreAssumption
  <2>3. QED
    BY <2>1, <2>2 DEF Refs
<1>3. QED
  BY <1>1, <1>2, FreshAssumption

\* What a kid's value changes.
LEMMA PutIs ==
    ASSUME IsView(view), NEW f, FrameOk(f), NEW v \in Val,
           Type[f.node] = "object" => KidOf(f).key \in Names
    PROVE  /\ \A p \in ObjPtr : p # f.ptr => Put(f, v).obj[p] = view.obj[p]
           /\ \A p \in SetPtr : p # f.ptr => Put(f, v).set[p] = view.set[p]
           /\ Type[f.node] = "object" =>
                \A n \in Names : Put(f, v).obj[f.ptr][n] =
                   IF n = KidOf(f).key THEN v ELSE view.obj[f.ptr][n]
           /\ Type[f.node] = "array" => Put(f, v).set[f.ptr] = view.set[f.ptr] \cup {v}
<1>1. /\ view = [obj |-> view.obj, set |-> view.set]
      /\ view.obj \in [ObjPtr -> Members] /\ view.set \in [SetPtr -> SUBSET Val]
  BY DEF IsView, Db
<1>2. CASE Type[f.node] = "array"
  <2>1. f.ptr \in SetPtr
    BY <1>2 DEF FrameOk
  <2>2. Put(f, v).obj = view.obj
        /\ \A p \in SetPtr : Put(f, v).set[p] = IF p = f.ptr THEN view.set[p] \cup {v}
                                               ELSE view.set[p]
    BY <1>1, <1>2, <2>1 DEF Put, set_add
  <2>3. QED
    BY <1>2, <2>1, <2>2
<1>3. CASE Type[f.node] # "array"
  <2>1. f.ptr \in ObjPtr /\ Type[f.node] = "object" /\ f.node \in Nodes
    BY <1>3, NestedAssumption DEF FrameOk, IsNested, Frame
  <2>2. view.obj[f.ptr] \in [Names -> Val \cup {None}]
    BY <1>1, <2>1 DEF Members
  <2>3. Put(f, v) = [view EXCEPT !.obj[f.ptr][KidOf(f).key] = v]
    BY <1>3 DEF Put, KidOf, obj_member_put
  <2>4. Put(f, v).set = view.set
        /\ Put(f, v).obj = [view.obj EXCEPT ![f.ptr][KidOf(f).key] = v]
    BY <1>1, <2>3
  <2>5. /\ \A p \in ObjPtr : p # f.ptr => Put(f, v).obj[p] = view.obj[p]
        /\ Put(f, v).obj[f.ptr] = [view.obj[f.ptr] EXCEPT ![KidOf(f).key] = v]
    BY <1>1, <2>1, <2>4
  <2>6. \A n \in Names : Put(f, v).obj[f.ptr][n] =
                   IF n = KidOf(f).key THEN v ELSE view.obj[f.ptr][n]
    BY <2>1, <2>2, <2>5
  <2>7. QED
    BY <1>3, <2>1, <2>4, <2>5, <2>6
<1>4. QED
  BY <1>2, <1>3

\* The entities of different calls are different.
LEMMA PtrsDiffer ==
    ASSUME InitInv, Untouched, NEW born, Birth(born), Growing(born),
           NEW s \in 1..Len(stack)
    PROVE  /\ born[s] \in 1..made /\ born[s] \in 1..Len(Fresh)
           /\ stack[s].ptr \in Refs(born[s]) /\ stack[s].ptr \in Made
           /\ OfKind(stack[s].node, stack[s].ptr)
           /\ \A t \in 1..Len(stack) : stack[t].ptr = stack[s].ptr => t = s
<1>1. Len(stack) \in Nat /\ FrameOk(stack[s]) /\ stack[s].node \in Nodes
  BY FramesType DEF InitInv
<1>2. \A t \in 1..Len(stack) : born[t] \in 1..made /\ born[t] \in 1..Len(Fresh)
                               /\ stack[t].ptr \in Refs(born[t])
  <2> TAKE t \in 1..Len(stack)
  <2>1. born[t] \in 1..made /\ born[t] \in 1..Len(Fresh)
    BY FreshIs DEF Birth, Untouched
  <2>2. Type[stack[t].node] \in {"object", "array"}
    <3>1. stack[t].node \in Nodes /\ IsNested(stack[t].node)
      BY FramesType DEF InitInv
    <3>2. QED
      BY <3>1, NestedAssumption DEF IsNested
  <2>3. QED
    BY <2>1, <2>2 DEF Birth, Refs
<1>3. ASSUME NEW t \in 1..Len(stack), stack[t].ptr = stack[s].ptr PROVE t = s
  <2>1. Refs(born[t]) \cap Refs(born[s]) # {}
    BY <1>2, <1>3
  <2>2. born[t] = born[s]
    BY <1>2, <2>1, FreshIs
  <2>3. ~(s < t) /\ ~(t < s)
    BY <1>2, <2>2 DEF Growing
  <2>4. QED
    BY <2>3
<1>4. QED
  BY <1>1, <1>2, <1>3 DEF Made, FrameOk, OfKind

\* Where the value that a call puts in place comes from.
LEMMA StoredValue ==
    ASSUME InitInv, NEW n \in Nat, NEW v, StoredAt(n, v)
    PROVE  /\ FrameOk(stack[n]) /\ stack[n].node \in Nodes /\ KidOf(stack[n]).node \in Nodes
           /\ stack[n].next \in Nat /\ stack[n].next >= 1
           /\ stack[n].next - 1 \in Nat /\ stack[n].next - 1 + 1 = stack[n].next
           /\ stack[n].next <= Len(Kids[stack[n].node])
           /\ v \in Val /\ n \in 1..Len(stack) /\ Len(stack) \in Nat
<1>1. n \in 1..Len(stack) /\ Busy(stack[n])
  BY DEF StoredAt
<1>2. /\ FrameOk(stack[n]) /\ stack[n].node \in Nodes /\ stack[n].next \in Nat \ {0}
      /\ Len(stack) \in Nat
  BY <1>1, FramesType DEF InitInv
<1>3. KidOf(stack[n]).node \in Nodes
  BY <1>1, <1>2, KidType DEF KidOf, Kid
<1>4. v \in Val
  <2>1. CASE v = Text[KidOf(stack[n]).node]
    BY <1>3, <2>1, NestedAssumption DEF Val
  <2>2. CASE n + 1 = Len(stack) /\ v = stack[n + 1].ptr
    <3>1. n + 1 \in 1..Len(stack)
      BY <1>2, <2>2
    <3>2. QED
      BY <2>2, <3>1, FramesType DEF InitInv, Val
  <2>3. QED
    BY <2>1, <2>2 DEF StoredAt
<1>5. QED
  BY <1>1, <1>2, <1>3, <1>4 DEF Busy

LEMMA StoredChanges ==
    ASSUME InitInv, NEW n \in Nat, NEW v, StoredAt(n, v)
    PROVE  LET f == stack[n] IN
           /\ \A p \in ObjPtr : p # f.ptr => view'.obj[p] = view.obj[p]
           /\ \A p \in SetPtr : p # f.ptr => view'.set[p] = view.set[p]
           /\ Type[f.node] = "object" =>
                \A m \in Names : view'.obj[f.ptr][m] =
                   IF m = KidOf(f).key THEN v ELSE view.obj[f.ptr][m]
           /\ Type[f.node] = "array" => view'.set[f.ptr] = view.set[f.ptr] \cup {v}
<1>1. FrameOk(stack[n]) /\ v \in Val
  BY StoredValue
<1>2. /\ view' = Put(stack[n], v)
      /\ Type[stack[n].node] = "object" => KidOf(stack[n]).key \in Names
  BY DEF StoredAt
<1>3. PICK f : f = stack[n]
  OBVIOUS
<1>4. IsView(view)
  BY DEF InitInv
<1>5. /\ \A p \in ObjPtr : p # f.ptr => Put(f, v).obj[p] = view.obj[p]
      /\ \A p \in SetPtr : p # f.ptr => Put(f, v).set[p] = view.set[p]
      /\ Type[f.node] = "object" =>
           \A m \in Names : Put(f, v).obj[f.ptr][m] =
              IF m = KidOf(f).key THEN v ELSE view.obj[f.ptr][m]
      /\ Type[f.node] = "array" => Put(f, v).set[f.ptr] = view.set[f.ptr] \cup {v}
  BY <1>1, <1>2, <1>3, <1>4, PutIs
<1>6. view' = Put(f, v)
  BY <1>2, <1>3
<1> HIDE DEF Put
<1>7. QED
  BY <1>3, <1>5, <1>6

LEMMA ElsewhereKept ==
    ASSUME InitInv, NEW n \in Nat, NEW v, StoredAt(n, v),
           NEW R, NEW R2, R \subseteq R2,
           NEW node \in Nodes, IsNested(node), NEW p, OfKind(node, p),
           p # stack[n].ptr, NEW m, Holds(view, R, node, p, m)
    PROVE  Holds(view', R2, node, p, m)
<1>1. PICK db : db = view
  OBVIOUS
<1>2. PICK db2 : db2 = view'
  OBVIOUS
<1>3. Type[node] \in {"object", "array"}
  BY NestedAssumption DEF IsNested
<1>4. /\ db2.obj[p] = db.obj[p] \/ Type[node] # "object"
      /\ db2.set[p] = db.set[p] \/ Type[node] = "object"
  BY <1>1, <1>2, <1>3, StoredChanges DEF OfKind
<1>5. Holds(db, R, node, p, m)
  BY <1>1
<1>6. Holds(db2, R2, node, p, m)
  BY <1>4, <1>5, HoldsKept
<1>7. QED
  BY <1>2, <1>6

\* The value that is put in place stands for the kid.
LEMMA StoredStands ==
    ASSUME InitInv, Untouched, NEW born, Birth(born), Growing(born),
           NEW R \in Relations, Building(R), NEW n \in Nat, NEW v, StoredAt(n, v)
    PROVE  LET kid == KidOf(stack[n]).node IN
           IF IsNested(kid)
           THEN /\ OfKind(kid, v) /\ Holds(view, R, kid, v, Len(Kids[kid]))
                /\ v \in Made /\ \A s \in 1..n : stack[s].ptr # v
                /\ \A w : <<v, w>> \in R => ~IsNested(w)
                /\ n + 1 = Len(stack) /\ v = stack[n + 1].ptr
           ELSE v = Text[kid]
<1>1. CASE ~IsNested(KidOf(stack[n]).node)
  <2>1. ASSUME n + 1 = Len(stack), KidOf(stack[n]).node = stack[n + 1].node PROVE FALSE
    <3>1. n + 1 \in 1..Len(stack)
      BY <2>1, StoredValue
    <3>2. IsNested(stack[n + 1].node)
      BY <3>1, FramesType DEF InitInv
    <3>3. QED
      BY <1>1, <2>1, <3>2
  <2>2. QED
    BY <1>1, <2>1 DEF StoredAt
<1>2. CASE IsNested(KidOf(stack[n]).node)
  <2>1. /\ n + 1 = Len(stack) /\ KidOf(stack[n]).node = stack[n + 1].node
        /\ v = stack[n + 1].ptr /\ stack[n + 1].next = Len(Kids[stack[n + 1].node]) + 1
    BY <1>2 DEF StoredAt
  <2>2. PICK t \in 1..Len(stack) : t = n + 1
    BY <2>1, StoredValue
  <2>3. /\ stack[t].node \in Nodes /\ Len(Kids[stack[t].node]) \in Nat
    BY <2>2, FramesType DEF InitInv
  <2>4. stack[t].next - 1 = Len(Kids[stack[t].node])
    BY <2>1, <2>2, <2>3
  <2>5. Holds(view, R, stack[t].node, stack[t].ptr, Len(Kids[stack[t].node]))
    BY <2>2, <2>4 DEF Building
  <2>6. /\ stack[t].ptr \in Made /\ OfKind(stack[t].node, stack[t].ptr)
        /\ \A s \in 1..Len(stack) : stack[s].ptr = stack[t].ptr => s = t
    BY <2>2, PtrsDiffer
  <2>7. \A s \in 1..n : s \in 1..Len(stack) /\ s # t
    BY <2>1, <2>2
  <2>8. \A w : <<v, w>> \in R => ~IsNested(w)
    BY <2>1, <2>2 DEF Building
  <2>9. QED
    BY <1>2, <2>1, <2>2, <2>5, <2>6, <2>7, <2>8
<1>3. QED
  BY <1>1, <1>2

LEMMA StoredHolds ==
    ASSUME InitInv, Untouched, NEW born, Birth(born), Growing(born),
           NEW R \in Relations, Building(R), NEW n \in Nat, NEW v, StoredAt(n, v),
           NEW R2, R2 = R \cup {<<v, KidOf(stack[n]).node>>}
    PROVE  Holds(view', R2, stack[n].node, stack[n].ptr, stack[n].next)
<1>1. PICK db : db = view
  OBVIOUS
<1>2. PICK db2 : db2 = view'
  OBVIOUS
<1>3. PICK f : f = stack[n]
  OBVIOUS
<1>4. PICK m \in Nat : m = f.next - 1
  BY <1>3, StoredValue
<1>5. /\ FrameOk(f) /\ f.node \in Nodes /\ m + 1 = f.next /\ m + 1 <= Len(Kids[f.node])
      /\ KidOf(f) = Kids[f.node][m + 1] /\ n \in 1..Len(stack)
  BY <1>3, <1>4, StoredValue DEF KidOf
<1>6. Holds(db, R, f.node, f.ptr, m) /\ Closed(db, R)
  BY <1>1, <1>3, <1>4, <1>5 DEF Building
<1>7. PICK node \in Nodes : node = f.node
  BY <1>5
<1>8. PICK p : p = f.ptr
  OBVIOUS
<1>9. R \subseteq R2 /\ <<v, Kids[node][m + 1].node>> \in R2
  BY <1>3, <1>5, <1>7
<1>10. CASE Type[node] = "object"
  <2>1. \A k \in Names : db2.obj[p][k] = IF k = Kids[node][m + 1].key THEN v
                                        ELSE db.obj[p][k]
    BY <1>1, <1>2, <1>3, <1>5, <1>7, <1>8, <1>10, StoredChanges
  <2>2. Holds(db, R, node, p, m)
    BY <1>6, <1>7, <1>8
  <2>3. m + 1 <= Len(Kids[node])
    BY <1>5, <1>7
  <2>4. Holds(db2, R2, node, p, m + 1)
    BY <1>9, <1>10, <2>1, <2>2, <2>3, ObjectPut
  <2>5. QED
    BY <1>2, <1>3, <1>5, <1>7, <1>8, <2>4
<1>11. CASE Type[node] = "array"
  <2>1. db2.set[p] = db.set[p] \cup {v}
    BY <1>1, <1>2, <1>3, <1>7, <1>8, <1>11, StoredChanges
  <2>2. Holds(db, R, node, p, m)
    BY <1>6, <1>7, <1>8
  <2>3. m + 1 <= Len(Kids[node])
    BY <1>5, <1>7
  <2>4. IsFiniteSet(db.set[p])
    BY <1>1, <1>5, <1>7, <1>8, <1>11 DEF FrameOk, InitInv, IsView
  <2>5. IF IsNested(Kids[node][m + 1].node) THEN v \notin db.set[p]
        ELSE v = Text[Kids[node][m + 1].node]
    <3>1. KidOf(stack[n]).node = Kids[node][m + 1].node
      BY <1>3, <1>5, <1>7
    <3>2. CASE ~IsNested(Kids[node][m + 1].node)
      BY <3>1, <3>2, StoredStands
    <3>3. CASE IsNested(Kids[node][m + 1].node)
      <4>1. OfKind(Kids[node][m + 1].node, v) /\ \A w : <<v, w>> \in R => ~IsNested(w)
        BY <3>1, <3>3, StoredStands
      <4>2. v \in Ptr
        BY <4>1 DEF OfKind, Ptr
      <4>3. ASSUME v \in db.set[p] PROVE FALSE
        <5>1. PICK i \in 1..m : <<v, Kids[node][i].node>> \in R
          BY <1>11, <2>2, <4>3 DEF Holds
        <5>2. ~IsNested(Kids[node][i].node)
          BY <4>1, <5>1
        <5>3. v = Text[Kids[node][i].node]
          BY <1>6, <5>1, <5>2 DEF Closed
        <5>4. Kids[node][i].node \in Nodes
          BY <5>1 DEF Relations
        <5>5. v \in Raw
          BY <5>3, <5>4, NestedAssumption
        <5>6. QED
          BY <4>2, <5>5, StoreAssumption DEF Ptr
      <4>4. QED
        BY <3>3, <4>3
    <3>4. QED
      BY <3>2, <3>3
  <2>6. Closed(db, R)
    BY <1>6
  <2>7. Holds(db2, R2, node, p, m + 1)
    BY <1>9, <1>11, <2>1, <2>2, <2>3, <2>4, <2>5, <2>6, ArrayPut
  <2>8. QED
    BY <1>2, <1>3, <1>5, <1>7, <1>8, <2>7
<1>12. QED
  BY <1>5, <1>7, <1>10, <1>11, NestedAssumption DEF FrameOk, IsNested

LEMMA StoredBuilds ==
    ASSUME InitInv, Untouched, NEW born, Birth(born), Growing(born),
           NEW R \in Relations, Building(R), NEW n \in Nat, NEW v, StoredAt(n, v)
    PROVE  \E R2 \in Relations : Building(R2)'
<1>1. PICK R2 : R2 = R \cup {<<v, KidOf(stack[n]).node>>}
  OBVIOUS
<1>2. R2 \in Relations /\ R \subseteq R2
  BY <1>1, StoredValue DEF Relations
<1>3. /\ n \in 1..Len(stack) /\ Len(stack') = n /\ made' = made
      /\ \A i \in 1..n :
          /\ stack'[i].node = stack[i].node /\ stack'[i].ptr = stack[i].ptr
          /\ stack'[i].next = IF i = n THEN stack[i].next + 1 ELSE stack[i].next
      /\ \A i \in 1..n : i \in 1..Len(stack)
  BY StoredValue DEF StoredAt
<1>4. Made' = Made
  BY <1>3 DEF Made, Refs
<1>5. PICK kid \in Nodes : kid = KidOf(stack[n]).node
  BY StoredValue
<1>6. IF IsNested(kid)
      THEN /\ OfKind(kid, v) /\ Holds(view, R, kid, v, Len(Kids[kid]))
           /\ v \in Made /\ \A s \in 1..n : stack[s].ptr # v
      ELSE v = Text[kid]
  BY <1>5, StoredStands
<1>7. /\ Closed(view, R)
      /\ \A x \in R : IsNested(x[2]) =>
            x[1] \in Made /\ \A s \in 1..Len(stack) : stack[s].ptr # x[1]
      /\ \A s \in 1..Len(stack) :
            Holds(view, R, stack[s].node, stack[s].ptr, stack[s].next - 1)
  BY DEF Building
<1>8. ASSUME NEW x \in R2, IsNested(x[2])
      PROVE  /\ OfKind(x[2], x[1]) /\ Holds(view', R2, x[2], x[1], Len(Kids[x[2]]))
             /\ x[1] \in Made /\ \A s \in 1..n : stack'[s].ptr # x[1]
  <2>1. x[2] \in Nodes
    BY <1>2 DEF Relations
  <2>2. /\ OfKind(x[2], x[1]) /\ Holds(view, R, x[2], x[1], Len(Kids[x[2]]))
        /\ x[1] \in Made /\ \A s \in 1..n : stack[s].ptr # x[1]
    <3>1. CASE x \in R
      BY <1>3, <1>7, <1>8, <3>1 DEF Closed
    <3>2. CASE x = <<v, kid>>
      BY <1>6, <1>8, <3>2
    <3>3. QED
      BY <1>1, <1>5, <3>1, <3>2
  <2>3. x[1] # stack[n].ptr
    BY <1>3, <2>2
  <2>4. Holds(view', R2, x[2], x[1], Len(Kids[x[2]]))
    BY <1>2, <1>8, <2>1, <2>2, <2>3, ElsewhereKept
  <2>5. QED
    BY <1>3, <2>2, <2>4
<1>9. ASSUME NEW x \in R2, ~IsNested(x[2]) PROVE x[1] = Text[x[2]]
  <2>1. CASE x \in R
    BY <1>7, <1>9, <2>1 DEF Closed
  <2>2. CASE x = <<v, kid>>
    BY <1>6, <1>9, <2>2
  <2>3. QED
    BY <1>1, <1>5, <2>1, <2>2
<1>10. Closed(view', R2)
  BY <1>8, <1>9 DEF Closed
<1>11. ASSUME NEW s \in 1..n
       PROVE  Holds(view', R2, stack'[s].node, stack'[s].ptr, stack'[s].next - 1)
  <2>1. /\ s \in 1..Len(stack) /\ FrameOk(stack[s]) /\ stack[s].node \in Nodes
        /\ IsNested(stack[s].node) /\ stack[s].next \in Nat
    BY <1>3, FramesType DEF InitInv
  <2>2. CASE s = n
    <3>1. Holds(view', R2, stack[n].node, stack[n].ptr, stack[n].next)
      BY <1>1, StoredHolds
    <3>2. stack'[s].next - 1 = stack[n].next
      BY <1>3, <2>1, <2>2
    <3>3. QED
      BY <1>3, <2>2, <3>1, <3>2
  <2>3. CASE s # n
    <3>1. PICK f : f = stack[s]
      OBVIOUS
    <3>2. f.ptr # stack[n].ptr /\ OfKind(f.node, f.ptr)
      BY <1>3, <2>1, <2>3, <3>1, PtrsDiffer
    <3>3. Holds(view, R, f.node, f.ptr, f.next - 1)
      BY <1>7, <2>1, <3>1
    <3>4. Holds(view', R2, f.node, f.ptr, f.next - 1)
      BY <1>2, <2>1, <3>1, <3>2, <3>3, ElsewhereKept
    <3>5. QED
      BY <1>3, <2>3, <3>1, <3>4
  <2>4. QED
    BY <2>2, <2>3
<1>12. Building(R2)'
  BY <1>3, <1>4, <1>8, <1>10, <1>11 DEF Building
<1>13. QED
  BY <1>2, <1>12

LEMMA StoredBirth ==
    ASSUME InitInv, NEW born, Birth(born), Growing(born),
           NEW n \in Nat, NEW v, StoredAt(n, v),
           NEW born2, born2 = [s \in 1..n |-> born[s]]
    PROVE  Birth(born2)' /\ Growing(born2)'
<1>1. /\ n \in 1..Len(stack) /\ Len(stack') = n /\ made' = made
      /\ \A i \in 1..n : stack'[i].node = stack[i].node /\ stack'[i].ptr = stack[i].ptr
      /\ \A i \in 1..n : i \in 1..Len(stack) /\ born2[i] = born[i]
      /\ \A i \in 1..(n - 1) : i \in 1..(Len(stack) - 1) /\ i \in 1..n /\ i + 1 \in 1..n
  BY StoredValue DEF StoredAt
<1>2. born2 \in [1..n -> 1..made]
  BY <1>1 DEF Birth
<1>3. QED
  BY <1>1, <1>2 DEF Birth, Growing

\* A pointer that has not been handed out names nothing.
LEMMA FreshlyMade ==
    ASSUME Untouched, made < Len(Fresh), NEW p \in Refs(made + 1)
    PROVE  /\ made + 1 \in 1..Len(Fresh) /\ p \notin Made
           /\ p \in ObjPtr => view.obj[p] = NoMembers
           /\ p \in SetPtr => view.set[p] = {}
<1>1. /\ made \in Nat /\ made + 1 \in 1..Len(Fresh)
      /\ \A i \in 1..made : i \in 1..Len(Fresh) /\ i # made + 1
  BY FreshIs DEF Untouched
<1>2. p \notin Made
  <2>1. PICK k \in 1..Len(Fresh) : k = made + 1
    BY <1>1
  <2>2. ASSUME NEW i \in 1..made, p \in Refs(i) PROVE FALSE
    <3>1. i \in 1..Len(Fresh) /\ Refs(k) \cap Refs(i) # {} /\ i # k
      BY <1>1, <2>1, <2>2
    <3>2. QED
      BY <3>1, FreshIs
  <2>3. QED
    BY <2>2 DEF Made
<1>3. /\ p = Fresh[made + 1].object \/ p = Fresh[made + 1].array
      /\ Fresh[made + 1].object \in ObjPtr \ SetPtr /\ Fresh[made + 1].array \in SetPtr \ ObjPtr
      /\ InitDb.obj[Fresh[made + 1].object] = NoMembers
      /\ InitDb.set[Fresh[made + 1].array] = {}
  BY <1>1, FreshIs, StoreAssumption DEF Refs
<1>4. QED
  BY <1>1, <1>2, <1>3 DEF Untouched

\* A call begins with an empty entity.
LEMMA NewHolds ==
    ASSUME Untouched, made < Len(Fresh), NEW node \in Nodes, IsNested(node), NEW R
    PROVE  /\ Fresh[made + 1][Type[node]] \in Refs(made + 1)
           /\ Holds(view, R, node, Fresh[made + 1][Type[node]], 0)
<1>1. Type[node] \in {"object", "array"}
  BY NestedAssumption DEF IsNested
<1>2. PICK p : p = Fresh[made + 1][Type[node]]
  OBVIOUS
<1>3. p \in Refs(made + 1)
  BY <1>1, <1>2 DEF Refs
<1>4. /\ Type[node] = "object" => p \in ObjPtr
      /\ Type[node] # "object" => p \in SetPtr
  <2>1. made + 1 \in 1..Len(Fresh)
    BY <1>3, FreshlyMade
  <2>2. QED
    BY <1>1, <1>2, <2>1, FreshIs
<1>5. PICK db : db = view
  OBVIOUS
<1>6. /\ Type[node] = "object" => db.obj[p] = NoMembers
      /\ Type[node] # "object" => db.set[p] = {}
  BY <1>3, <1>4, <1>5, FreshlyMade
<1>7. Holds(db, R, node, p, 0)
  BY <1>6, HoldsNothing
<1>8. QED
  BY <1>2, <1>3, <1>5, <1>7

LEMMA EnteredBuilds ==
    ASSUME InitInv, Untouched, NEW born, Birth(born), Growing(born),
           NEW R \in Relations, Building(R), NEW n \in Nat, EnteredAt(n)
    PROVE  Building(R)' /\ Untouched'
<1>1. /\ n = Len(stack) /\ n >= 1 /\ Len(stack') = n + 1
      /\ \A i \in 1..n : stack'[i] = stack[i]
      /\ stack'[n + 1].node = KidOf(stack[n]).node /\ IsNested(KidOf(stack[n]).node)
      /\ stack'[n + 1].ptr = Fresh[made + 1][Type[KidOf(stack[n]).node]]
      /\ stack'[n + 1].next = 1 /\ Busy(stack[n])
      /\ made < Len(Fresh) /\ made' = made + 1 /\ view' = view
  BY DEF EnteredAt
<1>2. PICK kid \in Nodes : kid = KidOf(stack[n]).node
  <2>1. FrameOk(stack[n])
    BY <1>1, FramesType DEF InitInv
  <2>2. QED
    BY <1>1, <2>1, KidType DEF KidOf, Kid
<1>3. PICK q : q = Fresh[made + 1][Type[kid]]
  OBVIOUS
<1>4. q \in Refs(made + 1) /\ q \notin Made /\ Holds(view, R, kid, q, 0)
  BY <1>1, <1>2, <1>3, NewHolds, FreshlyMade
<1>5. Made \subseteq Made'
  <2>1. \A i \in 1..made : i \in 1..(made + 1)
    BY DEF Untouched
  <2>2. QED
    BY <1>1, <2>1 DEF Made, Refs
<1>6. Untouched'
  <2>1. made + 1 \in 0..Len(Fresh)
    BY <1>1, FreshIs DEF Untouched
  <2>2. QED
    BY <1>1, <1>5, <2>1 DEF Untouched
<1>7. \A i \in 1..(n + 1) : i \in 1..n \/ i = n + 1
  OBVIOUS
<1>8. ASSUME NEW x \in R, IsNested(x[2])
      PROVE  x[1] \in Made' /\ \A s \in 1..(n + 1) : stack'[s].ptr # x[1]
  <2>1. x[1] \in Made /\ \A s \in 1..n : stack[s].ptr # x[1]
    BY <1>1, <1>8 DEF Building
  <2>2. QED
    BY <1>1, <1>2, <1>3, <1>4, <1>5, <1>7, <2>1
<1>9. ASSUME NEW s \in 1..(n + 1)
      PROVE  Holds(view', R, stack'[s].node, stack'[s].ptr, stack'[s].next - 1)
  <2>1. CASE s = n + 1
    <3>1. stack'[s].node = kid /\ stack'[s].ptr = q /\ stack'[s].next - 1 = 0 /\ view' = view
      BY <1>1, <1>2, <1>3, <2>1
    <3>2. QED
      BY <1>4, <3>1
  <2>2. CASE s \in 1..n
    <3>1. Holds(view, R, stack[s].node, stack[s].ptr, stack[s].next - 1)
      BY <1>1, <2>2 DEF Building
    <3>2. stack'[s] = stack[s] /\ view' = view
      BY <1>1, <2>2
    <3>3. QED
      BY <3>1, <3>2
  <2>3. QED
    BY <1>7, <2>1, <2>2
<1>10. Closed(view', R)
  BY <1>1 DEF Building
<1>11. QED
  BY <1>1, <1>6, <1>8, <1>9, <1>10 DEF Building

LEMMA EnteredBirth ==
    ASSUME InitInv, Untouched, NEW born, Birth(born), Growing(born),
           NEW n \in Nat, EnteredAt(n), NEW m, m = made + 1,
           NEW born2, born2 = [s \in 1..(n + 1) |-> IF s = n + 1 THEN m ELSE born[s]]
    PROVE  Birth(born2)' /\ Growing(born2)'
<1>1. /\ n = Len(stack) /\ n >= 1 /\ Len(stack') = n + 1
      /\ \A i \in 1..n : stack'[i] = stack[i]
      /\ stack'[n + 1].node = KidOf(stack[n]).node
      /\ stack'[n + 1].ptr = Fresh[made + 1][Type[KidOf(stack[n]).node]]
      /\ made' = made + 1
  BY DEF EnteredAt
<1>2. \A i \in 1..(n + 1) : i \in 1..n \/ i = n + 1
  OBVIOUS
<1>3. made \in Nat /\ m \in Nat /\ \A s \in 1..n : born[s] \in 1..made
  BY <1>1, FreshIs DEF Birth, Untouched
<1>4. /\ born2[n + 1] = m /\ \A s \in 1..n : born2[s] = born[s] /\ born2[s] < m
      /\ \A s \in 1..(n + 1) : born2[s] \in 1..m
  BY <1>2, <1>3
<1>5. born2 \in [1..(n + 1) -> 1..m]
  BY <1>4
<1>6. \A s \in 1..(n + 1) : stack'[s].ptr = Fresh[born2[s]][Type[stack'[s].node]]
  BY <1>1, <1>2, <1>4 DEF Birth
<1>7. ASSUME NEW s \in 1..(n + 1), NEW t \in 1..(n + 1), s < t PROVE born2[s] < born2[t]
  <2>1. s \in 1..n
    BY <1>7
  <2>2. CASE t = n + 1
    BY <1>4, <2>1, <2>2
  <2>3. CASE t \in 1..n
    BY <1>1, <1>4, <1>7, <2>1, <2>3 DEF Growing
  <2>4. QED
    BY <1>2, <2>2, <2>3
<1>8. \A s \in 1..n : born2[s] < born2[s + 1]
  <2> TAKE s \in 1..n
  <2>1. s \in 1..(n + 1) /\ s + 1 \in 1..(n + 1) /\ s < s + 1
    OBVIOUS
  <2>2. QED
    BY <1>7, <2>1
<1>9. Len(stack') - 1 = n /\ 1..made' = 1..m
  BY <1>1
<1>10. QED
  BY <1>1, <1>5, <1>6, <1>7, <1>8, <1>9 DEF Birth, Growing

-----------------------------------------------------------------------------
(***************************************************************************)
(* Without repeated keys, no entity gets out of reach.                     *)
(***************************************************************************)
\* The key at which a call is, is new.
LEMMA KeyIsNew ==
    ASSUME InitInv, Descends(stack), ~KeysRepeat(request.body),
           NEW n \in Nat, NEW v, StoredAt(n, v), Type[stack[n].node] = "object"
    PROVE  \A i \in 1..(stack[n].next - 1) :
              Kids[stack[n].node][i].key # KidOf(stack[n]).key
<1>1. stack[n].node \in Levels(request.body)[n - 1] /\ n - 1 \in 0..(NestMax + 1)
  <2>1. /\ IsStack(stack) /\ Waiting(stack) /\ Len(stack) <= NestMax + 1
        /\ n \in 1..Len(stack) /\ Len(stack) \in Nat
    BY StoredValue DEF InitInv, DepthBounded
  <2>2. QED
    BY <2>1, DescentLevels, NestedAssumption
<1>2. ~RepeatsKey(stack[n].node)
  BY <1>1 DEF KeysRepeat
<1>3. /\ stack[n].node \in Nodes /\ stack[n].next \in Nat /\ stack[n].next >= 1
      /\ stack[n].next <= Len(Kids[stack[n].node])
  BY StoredValue
<1>4. DOMAIN Kids[stack[n].node] = 1..Len(Kids[stack[n].node])
      /\ Len(Kids[stack[n].node]) \in Nat
  BY <1>3, KidsType
<1>5. ASSUME NEW i \in 1..(stack[n].next - 1)
      PROVE  Kids[stack[n].node][i].key # KidOf(stack[n]).key
  <2>1. i \in DOMAIN Kids[stack[n].node] /\ stack[n].next \in DOMAIN Kids[stack[n].node]
        /\ i # stack[n].next
    BY <1>3, <1>4
  <2>2. QED
    BY <1>2, <2>1 DEF RepeatsKey, KidOf
<1>6. QED
  BY <1>5

LEMMA ReferencesKept ==
    ASSUME InitInv, Untouched, Descends(stack), ~KeysRepeat(request.body),
           NEW R, Building(R), NEW n \in Nat, NEW v, StoredAt(n, v),
           NEW i \in 1..made, NEW j \in 1..made, RefersTo(j, i)
    PROVE  RefersTo(j, i)'
<1>1. /\ made \in Nat /\ i \in 1..Len(Fresh) /\ j \in 1..Len(Fresh)
  BY FreshIs DEF Untouched
<1>2. /\ Fresh[j].object \in ObjPtr /\ Fresh[j].array \in SetPtr
      /\ Refs(i) \subseteq Ptr
  BY <1>1, FreshIs DEF Refs, Ptr
<1>3. /\ FrameOk(stack[n]) /\ n \in 1..Len(stack) /\ stack[n].next - 1 \in Nat
  BY StoredValue
<1>4. CASE \E w \in Refs(i) : w \in view.set[Fresh[j].array]
  <2>1. view.set[Fresh[j].array] \subseteq view'.set[Fresh[j].array]
    <3>1. CASE Fresh[j].array # stack[n].ptr
      BY <1>2, <3>1, StoredChanges
    <3>2. CASE Fresh[j].array = stack[n].ptr
      <4>1. Type[stack[n].node] = "array"
        BY <1>2, <1>3, <3>2, StoreAssumption DEF FrameOk
      <4>2. QED
        BY <3>2, <4>1, StoredChanges
    <3>3. QED
      BY <3>1, <3>2
  <2>2. QED
    BY <1>4, <2>1 DEF RefersTo, Refs
<1>5. CASE \E w \in Refs(i), m \in Names : w = view.obj[Fresh[j].object][m]
  <2>1. PICK w \in Refs(i), m \in Names : w = view.obj[Fresh[j].object][m]
    BY <1>5
  <2>2. w # None
    BY <1>2, <2>1, StoreAssumption DEF Ptr
  <2>3. view'.obj[Fresh[j].object][m] = w
    <3>1. CASE Fresh[j].object # stack[n].ptr
      BY <1>2, <2>1, <3>1, StoredChanges
    <3>2. CASE Fresh[j].object = stack[n].ptr
      <4>1. Type[stack[n].node] = "object"
        BY <1>2, <1>3, <3>2, StoreAssumption, NestedAssumption DEF FrameOk, IsNested, Frame
      <4>2. m # KidOf(stack[n]).key
        <5>1. Holds(view, R, stack[n].node, stack[n].ptr, stack[n].next - 1)
          BY <1>3 DEF Building
        <5>2. ASSUME m = KidOf(stack[n]).key PROVE FALSE
          <6>1. \A k \in 1..(stack[n].next - 1) : Kids[stack[n].node][k].key # m
            BY <4>1, <5>2, KeyIsNew
          <6>2. view.obj[stack[n].ptr][m] = None
            BY <4>1, <5>1, <6>1 DEF Holds
          <6>3. QED
            BY <2>1, <2>2, <3>2, <6>2
        <5>3. QED
          BY <5>2
      <4>3. QED
        BY <2>1, <3>2, <4>1, <4>2, StoredChanges
    <3>3. QED
      BY <3>1, <3>2
  <2>4. QED
    BY <2>1, <2>3 DEF RefersTo, Refs
<1>6. QED
  BY <1>4, <1>5 DEF RefersTo

LEMMA StoredHeld ==
    ASSUME InitInv, Untouched, Descends(stack), NEW born, Birth(born), Growing(born),
           Held(born), NEW R, Building(R), NEW n \in Nat, NEW v, StoredAt(n, v),
           NEW born2, born2 = [s \in 1..n |-> born[s]]
    PROVE  Held(born2)'
<1>1. /\ n \in 1..Len(stack) /\ Len(stack') = n /\ made' = made /\ request' = request
      /\ Len(stack) \in Nat /\ made \in Nat
  BY StoredValue, FreshIs DEF StoredAt, Untouched
<1>2. KeysRepeat(request.body)' = KeysRepeat(request.body)
  BY <1>1
<1>3. SUFFICES ASSUME ~KeysRepeat(request.body), NEW i \in 2..made
               PROVE  \/ \E s \in 2..n : born2[s] = i
                      \/ \E j \in 1..(i - 1) : RefersTo(j, i)'
  BY <1>1, <1>2 DEF Held
<1>4. i \in 1..made /\ \A j \in 1..(i - 1) : j \in 1..made
  BY <1>1
<1>5. CASE \E j \in 1..(i - 1) : RefersTo(j, i)
  BY <1>3, <1>4, <1>5, ReferencesKept
<1>6. CASE \E s \in 2..n : born[s] = i
  <2>1. \A s \in 2..n : s \in 1..n
    OBVIOUS
  <2>2. QED
    BY <1>6, <2>1
<1>7. CASE \E s \in 2..Len(stack) : s \notin 2..n /\ born[s] = i
  <2>1. PICK s \in 2..Len(stack) : s \notin 2..n /\ born[s] = i
    BY <1>7
  <2>2. n # Len(stack)
    BY <2>1
  <2>3. n + 1 = Len(stack) /\ v = stack[n + 1].ptr
    BY <2>2 DEF StoredAt
  <2>4. s = n + 1 /\ s \in 1..Len(stack) /\ n < s
    BY <1>1, <2>1, <2>3
  <2>5. v \in Refs(i)
    BY <2>1, <2>3, <2>4, PtrsDiffer
  <2>6. born[n] \in 1..made /\ born[n] \in 1..Len(Fresh) /\ born[n] < i
    BY <1>1, <2>1, <2>4, PtrsDiffer DEF Growing
  <2>7. PICK j \in 1..made : j = born[n]
    BY <2>6
  <2>8. j \in 1..(i - 1)
    BY <2>6, <2>7
  <2>9. stack[n].ptr = Fresh[j][Type[stack[n].node]]
    BY <1>1, <2>7 DEF Birth
  <2>10. RefersTo(j, i)'
    <3>1. CASE Type[stack[n].node] = "object"
      <4>1. stack[n].ptr = Fresh[j].object /\ KidOf(stack[n]).key \in Names
        BY <2>9, <3>1 DEF StoredAt
      <4>2. view'.obj[Fresh[j].object][KidOf(stack[n]).key] = v
        BY <3>1, <4>1, StoredChanges
      <4>3. PICK key \in Names : view'.obj[Fresh[j].object][key] = v
        BY <4>1, <4>2
      <4>4. QED
        BY <2>5, <4>3 DEF RefersTo, Refs
    <3>2. CASE Type[stack[n].node] = "array"
      <4>1. stack[n].ptr = Fresh[j].array
        BY <2>9, <3>2
      <4>2. v \in view'.set[Fresh[j].array]
        BY <3>2, <4>1, StoredChanges
      <4>3. QED
        BY <2>5, <4>2 DEF RefersTo, Refs
    <3>3. QED
      BY <3>1, <3>2, StoredValue, NestedAssumption DEF FrameOk, IsNested
  <2>11. QED
    BY <2>8, <2>10
<1>8. QED
  BY <1>3, <1>5, <1>6, <1>7 DEF Held

LEMMA EnteredHeld ==
    ASSUME InitInv, Untouched, NEW born, Birth(born), Growing(born), Held(born),
           NEW n \in Nat, EnteredAt(n), NEW m, m = made + 1,
           NEW born2, born2 = [s \in 1..(n + 1) |-> IF s = n + 1 THEN m ELSE born[s]]
    PROVE  Held(born2)'
<1>1. /\ n = Len(stack) /\ n >= 1 /\ Len(stack') = n + 1 /\ made' = made + 1
      /\ view' = view /\ request' = request /\ made \in Nat
  BY FreshIs DEF EnteredAt, Untouched
<1>2. KeysRepeat(request.body)' = KeysRepeat(request.body)
  BY <1>1
<1>3. SUFFICES ASSUME ~KeysRepeat(request.body), NEW i \in 2..(made + 1)
               PROVE  \/ \E s \in 2..(n + 1) : born2[s] = i
                      \/ \E j \in 1..(i - 1) : RefersTo(j, i)'
  BY <1>1, <1>2 DEF Held
<1>4. CASE i = made + 1
  <2>1. n + 1 \in 2..(n + 1) /\ born2[n + 1] = i
    BY <1>1, <1>4
  <2>2. QED
    BY <2>1
<1>5. CASE i # made + 1
  <2>1. i \in 2..made
    BY <1>1, <1>5
  <2>2. CASE \E s \in 2..Len(stack) : born[s] = i
    <3>1. \A s \in 2..n : s \in 2..(n + 1) /\ s # n + 1 /\ s \in 1..(n + 1)
      OBVIOUS
    <3>2. QED
      BY <1>1, <2>2, <3>1
  <2>3. CASE \E j \in 1..(i - 1) : RefersTo(j, i)
    BY <1>1, <2>3 DEF RefersTo
  <2>4. QED
    BY <1>3, <2>1, <2>2, <2>3 DEF Held
<1>6. QED
  BY <1>4, <1>5

LEMMA BeginBuilds ==
    ASSUME InitInv, BuildInv, Begin
    PROVE  /\ Untouched'
           /\ \E born : (Birth(born) /\ Growing(born) /\ Held(born))'
           /\ \E R \in Relations : Building(R)'
<1>1. /\ Len(stack') = 1
      /\ stack'[1] = [node |-> request.body, ptr |-> Fresh[1][request.route], next |-> 1]
      /\ pc = "start" /\ made' = 1 /\ view' = view /\ made = 0
      /\ request.body \in Nodes /\ IsNested(request.body)
      /\ request.route = Type[request.body]
  BY BeginIs DEF BuildInv
<1>2. Untouched /\ made < Len(Fresh) /\ made + 1 = 1
  BY <1>1, FreshIs DEF BuildInv
<1>3. PICK node \in Nodes : node = request.body
  BY <1>1
<1>4. PICK q : q = Fresh[1][Type[node]]
  OBVIOUS
<1>5. Holds(view, {}, node, q, 0)
  BY <1>1, <1>2, <1>3, <1>4, NewHolds
<1>6. stack'[1].node = node /\ stack'[1].ptr = q /\ stack'[1].next = 1
  BY <1>1, <1>3, <1>4
<1>7. Untouched'
  <2>1. Made = {}
    BY <1>1 DEF Made
  <2>2. 1 \in 0..Len(Fresh)
    BY FreshIs
  <2>3. QED
    BY <1>1, <1>2, <2>1, <2>2 DEF Untouched
<1>8. Building({})' /\ {} \in Relations
  <2>1. \A s \in 1..1 : s = 1
    OBVIOUS
  <2>2. Closed(view', {})
    BY DEF Closed
  <2>3. \A s \in 1..1 : Holds(view', {}, stack'[s].node, stack'[s].ptr, stack'[s].next - 1)
    BY <1>1, <1>5, <1>6, <2>1
  <2>4. QED
    BY <1>1, <2>2, <2>3 DEF Building, Relations
<1>9. PICK born : born = [s \in 1..1 |-> 1]
  OBVIOUS
<1>10. born \in [1..1 -> 1..1] /\ born[1] = 1 /\ \A s \in 1..1 : s = 1
  BY <1>9
<1>11. Birth(born)' /\ Growing(born)'
  <2>1. \A s \in 1..1 : stack'[s].ptr = Fresh[born[s]][Type[stack'[s].node]]
    BY <1>4, <1>6, <1>10
  <2>2. QED
    BY <1>1, <1>10, <2>1 DEF Birth, Growing
<1>12. Held(born)'
  BY <1>1 DEF Held
<1>13. QED
  BY <1>7, <1>8, <1>11, <1>12

LEMMA BuildPreserved ==
    ASSUME InitInv, DescentInv, AnswerInv, BuildInv, InitNext PROVE BuildInv'
<1>1. pc' # "start"
  <2>1. \/ Refuse \/ Begin \/ EncodeScalar \/ EnterNested \/ LeaveNested
        \/ KidRefused \/ Unwind \/ Finish \/ Commit \/ Cleanup
        \/ ParseFails \/ BeginFails \/ KidFails \/ RefFails \/ CommitFails
    BY DEF InitNext, InitWork
  <2>2. QED
    BY <2>1 DEF Refuse, Begin, EncodeScalar, EnterNested, LeaveNested, KidRefused, Unwind,
                Finish, Commit, Cleanup, ParseFails, BeginFails, KidFails, RefFails,
         CommitFails
<1>2. ASSUME Sent' PROVE Untouched'
  <2>1. CASE Finish
    BY <2>1, FinishIs DEF BuildInv, Untouched, Made, Refs
  <2>2. CASE Sent /\ UNCHANGED <<request, view, made, answer>>
    BY <2>2 DEF BuildInv, Untouched, Made, Refs
  <2>3. QED
    BY <1>2, <2>1, <2>2, SentCases
<1>3. ASSUME pc' = "fill"
      PROVE  /\ Untouched'
             /\ \E born : (Birth(born) /\ Growing(born) /\ Held(born))'
             /\ \E R \in Relations : Building(R)'
  <2>1. CASE Begin
    BY <2>1, BeginBuilds
  <2>2. ASSUME pc = "fill"
        PROVE  /\ Untouched /\ Descends(stack)
               /\ \E born : Birth(born) /\ Growing(born) /\ Held(born)
               /\ \E R \in Relations : Building(R)
    BY <2>2 DEF BuildInv, DescentInv
  <2>3. CASE pc = "fill" /\ \E n \in Nat, v \in Val : StoredAt(n, v)
    <3>1. PICK n \in Nat, v \in Val : StoredAt(n, v)
      BY <2>3
    <3>2. PICK born : Birth(born) /\ Growing(born) /\ Held(born)
      BY <2>2, <2>3
    <3>3. PICK R \in Relations : Building(R)
      BY <2>2, <2>3
    <3>4. PICK born2 : born2 = [s \in 1..n |-> born[s]]
      OBVIOUS
    <3>5. Birth(born2)' /\ Growing(born2)' /\ Held(born2)'
      BY <2>2, <2>3, <3>1, <3>2, <3>3, <3>4, StoredBirth, StoredHeld
    <3>6. \E R2 \in Relations : Building(R2)'
      BY <2>2, <2>3, <3>1, <3>2, <3>3, StoredBuilds
    <3>7. Untouched'
      <4>1. /\ FrameOk(stack[n]) /\ n \in 1..Len(stack) /\ made' = made
        BY <3>1, StoredValue DEF StoredAt
      <4>2. stack[n].ptr \in Made /\ Made' = Made
        BY <2>2, <2>3, <3>2, <4>1, PtrsDiffer DEF Made, Refs
      <4>3. QED
        BY <2>2, <2>3, <3>1, <4>1, <4>2, StoredChanges DEF Untouched
    <3>8. QED
      BY <3>5, <3>6, <3>7
  <2>4. CASE pc = "fill" /\ \E n \in Nat : EnteredAt(n)
    <3>1. PICK n \in Nat : EnteredAt(n)
      BY <2>4
    <3>2. PICK born : Birth(born) /\ Growing(born) /\ Held(born)
      BY <2>2, <2>4
    <3>3. PICK R \in Relations : Building(R)
      BY <2>2, <2>4
    <3>4. PICK m : m = made + 1
      OBVIOUS
    <3>5. PICK born2 : born2 = [s \in 1..(n + 1) |-> IF s = n + 1 THEN m ELSE born[s]]
      OBVIOUS
    <3>6. Birth(born2)' /\ Growing(born2)' /\ Held(born2)'
      BY <2>2, <2>4, <3>1, <3>2, <3>4, <3>5, EnteredBirth, EnteredHeld
    <3>7. Building(R)' /\ Untouched'
      BY <2>2, <2>4, <3>1, <3>2, <3>3, EnteredBuilds
    <3>8. QED
      BY <3>6, <3>7
  <2>5. QED
    BY <1>3, <2>1, <2>3, <2>4, FillSteps
<1>4. QED
  BY <1>1, <1>2, <1>3 DEF BuildInv

-----------------------------------------------------------------------------
(***************************************************************************)
(* What is in place when an init has got to its end.                       *)
(***************************************************************************)
SentInv ==
    Sent =>
        /\ \E R \in Relations : Closed(view, R) /\ <<answer.ptr, request.body>> \in R
        /\ answer.count = IF request.route = "array"
                          THEN Cardinality(view.set[answer.ptr])
                          ELSE Len(Kids[request.body])
        /\ ~KeysRepeat(request.body) =>
              \A i \in 2..made : \E j \in 1..(i - 1) : RefersTo(j, i)
        /\ Accepted /\ ~request.shared => store = view

LEMMA AcceptedIs ==
    ASSUME InitInv, AnswerInv, InitNext, Accepted'
    PROVE  Commit
<1>1. \/ Refuse \/ Begin \/ EncodeScalar \/ EnterNested \/ LeaveNested
      \/ KidRefused \/ Unwind \/ Finish \/ Commit \/ Cleanup
      \/ ParseFails \/ BeginFails \/ KidFails \/ RefFails \/ CommitFails
  BY DEF InitNext, InitWork
<1>2. pc' = "done" /\ answer'.status = 201
  BY DEF Accepted
<1>3. ~(Begin \/ EncodeScalar \/ EnterNested \/ LeaveNested \/ KidRefused \/ Finish
        \/ BeginFails \/ KidFails \/ RefFails \/ CommitFails)
  BY <1>2 DEF Begin, EncodeScalar, EnterNested, LeaveNested, KidRefused, BeginFails,
         KidFails, RefFails, CommitFails, Finish
<1>4. ~Unwind
  BY <1>2 DEF Unwind
<1>5. ~Refuse /\ ~ParseFails
  <2>1. Refuse \/ ParseFails => answer'.status = 400 /\ pc' = "done"
    BY DEF Refuse, ParseFails, StatusOf, Reply
  <2>2. QED
    BY <1>2, <2>1
<1>6. ~Cleanup
  BY <1>2 DEF Cleanup, AnswerInv
<1>7. QED
  BY <1>1, <1>3, <1>4, <1>5, <1>6

LEMMA FinishSends ==
    ASSUME InitInv, DescentInv, BuildInv, Finish PROVE SentInv'
<1>1. /\ pc = "fill" /\ Len(stack) = 1 /\ 1 \in 1..Len(stack)
      /\ request.body \in Nodes /\ stack[1].node = request.body /\ FrameOk(stack[1])
      /\ stack[1].next = Len(Kids[request.body]) + 1
      /\ answer' = Reply(201, stack[1].ptr, Count)
      /\ request.route = Type[request.body]
      /\ UNCHANGED <<request, view, made, stack>>
  BY FinishIs
<1>2. /\ answer'.ptr = stack[1].ptr /\ answer'.count = Count /\ Top = stack[1]
      /\ Len(Kids[request.body]) \in Nat
  BY <1>1, KidsType DEF Reply, Top
<1>3. PICK R \in Relations : Building(R)
  BY <1>1 DEF BuildInv
<1>4. PICK db : db = view
  OBVIOUS
<1>5. PICK body \in Nodes : body = request.body
  BY <1>1
<1>6. PICK p : p = stack[1].ptr
  OBVIOUS
<1> DEFINE R2 == R \cup {<<p, body>>}
<1>7. /\ Holds(db, R, body, p, Len(Kids[body])) /\ Closed(db, R)
      /\ OfKind(body, p) /\ IsNested(body) /\ p \in Val
  <2>1. stack[1].next - 1 = Len(Kids[request.body])
    BY <1>1, <1>2
  <2>2. Holds(view, R, stack[1].node, stack[1].ptr, stack[1].next - 1) /\ Closed(view, R)
    BY <1>1, <1>3 DEF Building
  <2>3. OfKind(body, p) /\ IsNested(body) /\ p \in Val
    BY <1>1, <1>5, <1>6 DEF FrameOk, OfKind, Val, Ptr
  <2>4. QED
    BY <1>1, <1>4, <1>5, <1>6, <2>1, <2>2, <2>3
<1>8. R2 \in Relations /\ R \subseteq R2 /\ <<p, body>> \in R2
  BY <1>7 DEF Relations
<1>9. Closed(db, R2)
  <2>1. ASSUME NEW x \in R2, IsNested(x[2])
        PROVE  OfKind(x[2], x[1]) /\ Holds(db, R2, x[2], x[1], Len(Kids[x[2]]))
    <3>1. OfKind(x[2], x[1]) /\ Holds(db, R, x[2], x[1], Len(Kids[x[2]])) /\ x[2] \in Nodes
      BY <1>7, <1>8, <2>1 DEF Closed, Relations
    <3>2. QED
      BY <1>8, <3>1, HoldsKept
  <2>2. ASSUME NEW x \in R2, ~IsNested(x[2]) PROVE x[1] = Text[x[2]]
    BY <1>7, <2>2 DEF Closed
  <2> HIDE DEF R2
  <2>3. QED
    BY <2>1, <2>2 DEF Closed
<1>10. \E R3 \in Relations : Closed(view', R3) /\ <<answer'.ptr, request'.body>> \in R3
  <2>1. view' = db /\ answer'.ptr = p /\ request'.body = body
    BY <1>1, <1>2, <1>4, <1>5, <1>6
  <2> HIDE DEF R2
  <2>2. QED
    BY <1>8, <1>9, <2>1
<1>11. answer'.count = IF request'.route = "array" THEN Cardinality(view'.set[answer'.ptr])
                       ELSE Len(Kids[request'.body])
  <2>1. CASE request.route = "array"
    BY <1>1, <1>2, <2>1 DEF Count
  <2>2. CASE request.route = "object"
    BY <1>1, <1>2, <2>2 DEF Count
  <2>3. QED
    BY <1>1, <2>1, <2>2, NestedAssumption DEF IsNested, FrameOk
<1>12. ASSUME ~KeysRepeat(request'.body), NEW i \in 2..made'
       PROVE  \E j \in 1..(i - 1) : RefersTo(j, i)'
  <2>1. PICK born : Held(born)
    BY <1>1 DEF BuildInv
  <2>2. ~KeysRepeat(request.body) /\ i \in 2..made
    BY <1>1, <1>12
  <2>3. PICK j \in 1..(i - 1) : RefersTo(j, i)
    BY <1>1, <2>1, <2>2 DEF Held
  <2>4. RefersTo(j, i)'
    BY <1>1, <2>3 DEF RefersTo
  <2>5. QED
    BY <2>4
<1>13. ~Accepted'
  BY DEF Finish, Accepted
<1>14. QED
  BY <1>10, <1>11, <1>12, <1>13 DEF SentInv

LEMMA SentPreserved ==
    ASSUME InitInv, DescentInv, AnswerInv, BuildInv, SentInv, InitNext PROVE SentInv'
<1>1. CASE Finish
  BY <1>1, FinishSends
<1>2. CASE Sent /\ UNCHANGED <<request, view, made, answer>>
  <2>1. ASSUME Accepted', ~request'.shared PROVE store' = view'
    <3>1. Commit
      BY <2>1, AcceptedIs
    <3>2. QED
      BY <2>1, <3>1 DEF Commit
  <2>2. \A i, j : RefersTo(j, i)' <=> RefersTo(j, i)
    BY <1>2 DEF RefersTo
  <2>3. QED
    BY <1>2, <2>1, <2>2 DEF SentInv
<1>3. CASE ~Sent'
  BY <1>3 DEF SentInv
<1>4. QED
  BY <1>1, <1>2, <1>3, SentCases

\* The kid that a key stands for is the last that has it.
LEMMA MeantIs ==
    ASSUME NEW node \in Nodes, NEW key, HasKey(node, key)
    PROVE  \E i \in 1..Len(Kids[node]) :
              /\ Kids[node][i].key = key
              /\ \A j \in (i + 1)..Len(Kids[node]) : Kids[node][j].key # key
              /\ Meant(node, key) = Kids[node][i].node
<1> DEFINE L == Len(Kids[node])
           S == {i \in 1..L : Kids[node][i].key = key}
           T == {L - i : i \in S}
<1>1. L \in Nat /\ DOMAIN Kids[node] = 1..L
  BY KidsType
<1>2. T \in SUBSET Nat /\ T # {}
  <2>1. \E i \in 1..L : Kids[node][i].key = key
    BY <1>1 DEF HasKey, KidsOf
  <2>2. \A i \in S : L - i \in Nat
    BY <1>1
  <2>3. S # {}
    BY <2>1
  <2> HIDE DEF S
  <2>4. QED
    BY <2>2, <2>3
<1>3. PICK l \in T : \A m \in T : l <= m
  <2> HIDE DEF T
  <2>1. QED
    BY <1>2, LeastElement
<1>4. PICK i \in S : l = L - i
  BY <1>3
<1>5. \A j \in S : i >= j
  <2> TAKE j \in S
  <2>1. l <= L - j
    BY <1>3
  <2>2. i \in Nat /\ j \in Nat
    BY <1>4
  <2> HIDE DEF S, T
  <2>3. QED
    BY <1>1, <1>4, <2>1, <2>2
<1>6. \A x \in S : (\A y \in S : x >= y) => x = i
  BY <1>1, <1>4, <1>5
<1>7. Max(S) = i
  <2> HIDE DEF S
  <2>1. QED
    BY <1>4, <1>5, <1>6 DEF Max
<1>8. Meant(node, key) = Kids[node][i].node
  BY <1>1, <1>7 DEF Meant
<1>9. \A j \in (i + 1)..L : Kids[node][j].key # key
  BY <1>1, <1>4, <1>5
<1>10. QED
  BY <1>4, <1>8, <1>9

\* One height of image from the one below.
ImageStep(db, image) ==
    [node \in Nodes |->
        IF ~IsNested(node) THEN {Text[node]}
        ELSE IF Type[node] = "object"
             THEN {p \in ObjPtr : IsObject(db.obj[p], node, image)}
             ELSE {p \in SetPtr : IsArray(db.set[p], node, image)}]

\* The recursive definition of images says what it seems to say.
LEMMA ImagesAre ==
    ASSUME NEW db
    PROVE  /\ \A node \in Nodes : ~IsNested(node) => Text[node] \in Images(db)[0][node]
           /\ \A n \in 1..(NestMax + 1) :
                 Images(db)[n] = ImageStep(db, Images(db)[n - 1])
<1> DEFINE N == NestMax + 1
           First == [node \in Nodes |-> IF ~IsNested(node) THEN {Text[node]} ELSE {}]
           At(h, f) == [node \in Nodes |->
                IF ~IsNested(node) THEN {Text[node]}
                ELSE IF h = 0 THEN {}
                ELSE IF Type[node] = "object"
                     THEN {p \in ObjPtr : IsObject(db.obj[p], node, f[h - 1])}
                     ELSE {p \in SetPtr : IsArray(db.set[p], node, f[h - 1])}]
           Def(f) == [h \in 0..N |-> At(h, f)]
           T == [Nodes -> SUBSET Val]
           g == [n \in 1..N |-> [S \in T |-> ImageStep(db, S)]]
<1>1. N \in Nat
  BY NestedAssumption
<1>2. First \in T
  BY NestedAssumption DEF Val
<1>3. ASSUME NEW S \in T PROVE ImageStep(db, S) \in T
  <2>1. \A node \in Nodes :
          /\ {Text[node]} \subseteq Val
          /\ {p \in ObjPtr : IsObject(db.obj[p], node, S)} \subseteq Val
          /\ {p \in SetPtr : IsArray(db.set[p], node, S)} \subseteq Val
    BY NestedAssumption DEF Val, Ptr
  <2>2. QED
    BY <2>1 DEF ImageStep
<1>4. g \in [1..N -> [T -> T]]
  <2> HIDE DEF T
  <2>1. QED
    BY <1>3
<1>5. PICK f \in [0..N -> T] : f[0] = First /\ \A n \in 1..N : f[n] = g[n][f[n - 1]]
  <2> HIDE DEF g, N, T, First
  <2>1. QED
    BY <1>1, <1>2, <1>4, IterationExists, SMTT(60)
<1>6. \A n \in 1..N : f[n] = ImageStep(db, f[n - 1])
  <2> TAKE n \in 1..N
  <2>1. n - 1 \in 0..N
    BY <1>1
  <2> HIDE DEF T, N
  <2>2. f[n - 1] \in T
    BY <2>1
  <2>3. g[n][f[n - 1]] = ImageStep(db, f[n - 1])
    BY <2>2
  <2> HIDE DEF g
  <2>4. QED
    BY <1>5, <2>3
<1>7. \A n \in 1..N : \A h : At(n, h) = ImageStep(db, h[n - 1])
  <2> TAKE n \in 1..N
  <2> TAKE h
  <2>1. n # 0
    BY <1>1
  <2>2. QED
    BY <2>1, Zenon DEF ImageStep
<1>8. \A h : At(0, h) = First
  OBVIOUS
<1> HIDE DEF At, First, T, g
<1>9. \A n \in 0..N : n = 0 \/ n \in 1..N
  BY <1>1
<1>10. f = Def(f)
  <2> HIDE DEF N
  <2>1. QED
    BY <1>5, <1>6, <1>7, <1>8, <1>9
<1>11. Images(db) = CHOOSE h : h = Def(h)
  BY DEF Images, At
<1> HIDE DEF Def
<1>12. Images(db) = Def(Images(db))
  BY <1>10, <1>11
<1>13. /\ Def(Images(db))[0] = First
       /\ \A n \in 1..N : Def(Images(db))[n] = ImageStep(db, Images(db)[n - 1])
  <2>1. 0 \in 0..N /\ \A n \in 1..N : n \in 0..N
    BY <1>1
  <2>2. QED
    BY <1>7, <1>8, <2>1 DEF Def
<1>14. \A node \in Nodes : ~IsNested(node) => Text[node] \in First[node]
  BY DEF First
<1>15. QED
  BY <1>12, <1>13, <1>14

\* The texts and the references of all kids are those of the definition.
LEMMA AllParts ==
    ASSUME NEW node \in Nodes, IsNested(node)
    PROVE  /\ TextsTo(node, Len(Kids[node])) =
                 {Text[k.node] : k \in {k \in KidsOf(node) : ~IsNested(k.node)}}
           /\ NestedTo(node, Len(Kids[node])) =
                 {i \in DOMAIN Kids[node] : IsNested(Kids[node][i].node)}
<1>1. DOMAIN Kids[node] = 1..Len(Kids[node])
  BY KidsType
<1>2. QED
  BY <1>1 DEF TextsTo, NestedTo, KidsOf

\* A complete object is an image of its node.
LEMMA ObjectStands ==
    ASSUME NEW db, NEW R \in Relations, Closed(db, R), NEW node \in Nodes,
           Type[node] = "object", NEW p, <<p, node>> \in R, NEW image,
           \A x \in R : (\E k \in KidsOf(node) : k.node = x[2]) => x[1] \in image[x[2]]
    PROVE  p \in ObjPtr /\ IsObject(db.obj[p], node, image)
<1> DEFINE L == Len(Kids[node])
<1>1. IsNested(node)
  BY DEF IsNested
<1>2. p \in ObjPtr /\ Holds(db, R, node, p, L)
  BY <1>1 DEF Closed, OfKind
<1>3. DOMAIN Kids[node] = 1..L
  BY KidsType
<1>4. ASSUME NEW n \in Names, HasKey(node, n)
      PROVE  db.obj[p][n] \in image[Meant(node, n)]
  <2>1. PICK i \in 1..L :
              /\ Kids[node][i].key = n
              /\ \A j \in (i + 1)..L : Kids[node][j].key # n
              /\ Meant(node, n) = Kids[node][i].node
    BY <1>4, MeantIs
  <2>2. <<db.obj[p][n], Kids[node][i].node>> \in R
    BY <1>2, <2>1 DEF Holds
  <2>3. Kids[node][i] \in KidsOf(node)
    BY <1>1, <1>3 DEF KidsOf
  <2>4. QED
    BY <2>1, <2>2, <2>3
<1>5. ASSUME NEW n \in Names, ~HasKey(node, n) PROVE db.obj[p][n] = None
  <2>1. \A i \in 1..L : Kids[node][i].key # n
    BY <1>1, <1>3, <1>5 DEF HasKey, KidsOf
  <2>2. QED
    BY <1>2, <2>1 DEF Holds
<1>6. QED
  BY <1>2, <1>4, <1>5 DEF IsObject

\* A complete set is an image of its node.
LEMMA SetStands ==
    ASSUME NEW db, NEW R \in Relations, Closed(db, R), NEW node \in Nodes,
           Type[node] = "array", NEW p, <<p, node>> \in R, NEW image,
           \A x \in R : (\E k \in KidsOf(node) : k.node = x[2]) => x[1] \in image[x[2]]
    PROVE  p \in SetPtr /\ IsArray(db.set[p], node, image)
<1> DEFINE L == Len(Kids[node])
<1>1. IsNested(node)
  BY DEF IsNested
<1>2. p \in SetPtr /\ Holds(db, R, node, p, L)
  BY <1>1 DEF Closed, OfKind
<1>3. DOMAIN Kids[node] = 1..L
  BY KidsType
<1>4. /\ \A i \in 1..L : \E v \in db.set[p] : <<v, Kids[node][i].node>> \in R
      /\ \A v \in db.set[p] : \E i \in 1..L : <<v, Kids[node][i].node>> \in R
      /\ Cardinality(db.set[p]) =
            Cardinality(TextsTo(node, L)) + Cardinality(NestedTo(node, L))
  BY <1>2 DEF Holds
<1>5. \A i \in 1..L : Kids[node][i] \in KidsOf(node)
  BY <1>1, <1>3 DEF KidsOf
<1>6. \A k \in KidsOf(node) : \E v \in db.set[p] : v \in image[k.node]
  <2> TAKE k \in KidsOf(node)
  <2>1. PICK i \in 1..L : k = Kids[node][i]
    BY <1>1, <1>3 DEF KidsOf
  <2>2. PICK v \in db.set[p] : <<v, k.node>> \in R
    BY <1>4, <2>1
  <2>3. QED
    BY <2>2
<1>7. \A v \in db.set[p] : \E k \in KidsOf(node) : v \in image[k.node]
  <2> TAKE v \in db.set[p]
  <2>1. PICK i \in 1..L : <<v, Kids[node][i].node>> \in R
    BY <1>4
  <2>2. QED
    BY <1>5, <2>1
<1>8. Cardinality(db.set[p]) =
         Cardinality({Text[k.node] : k \in {k \in KidsOf(node) : ~IsNested(k.node)}})
         + Cardinality({i \in DOMAIN Kids[node] : IsNested(Kids[node][i].node)})
  BY <1>1, <1>4, AllParts
<1>9. QED
  BY <1>2, <1>6, <1>7, <1>8 DEF IsArray

\* What a complete and fine tree relates are images.
LEMMA RelatedAreImages ==
    ASSUME NEW db, NEW R \in Relations, Closed(db, R),
           NEW V \in SUBSET (Nodes \X Nat), Sound(V), NEW h \in Nat, h <= NestMax + 1,
           NEW x \in R, <<x[2], NestMax + 1 - h>> \in V
    PROVE  x[1] \in Images(db)[h][x[2]]
<1> DEFINE P(m) == m <= NestMax + 1 =>
                     \A y \in R : <<y[2], NestMax + 1 - m>> \in V =>
                        y[1] \in Images(db)[m][y[2]]
           T == {m \in Nat : P(m)}
<1>1. NestMax \in Nat
  BY NestedAssumption
<1>2. P(0)
  <2> SUFFICES ASSUME NEW y \in R, <<y[2], NestMax + 1 - 0>> \in V
               PROVE  y[1] \in Images(db)[0][y[2]]
    OBVIOUS
  <2>1. ~IsNested(y[2]) /\ y[2] \in Nodes
    <3>1. PICK z \in V : z = <<y[2], NestMax + 1 - 0>>
      OBVIOUS
    <3>2. z[1] = y[2] /\ ~(z[2] <= NestMax)
      BY <1>1, <3>1
    <3>3. QED
      BY <3>2 DEF Sound, Relations
  <2>2. QED
    BY <2>1, ImagesAre DEF Closed
<1>3. ASSUME NEW m \in Nat, P(m) PROVE P(m + 1)
  <2> SUFFICES ASSUME m + 1 <= NestMax + 1, NEW y \in R,
                      <<y[2], NestMax + 1 - (m + 1)>> \in V
               PROVE  y[1] \in Images(db)[m + 1][y[2]]
    OBVIOUS
  <2>1. PICK l \in 1..(NestMax + 1) : l = m + 1
    BY <1>1
  <2>2. Images(db)[l] = ImageStep(db, Images(db)[l - 1]) /\ l - 1 = m
    BY <2>1, ImagesAre
  <2>3. PICK image : image = Images(db)[m]
    OBVIOUS
  <2>4. Images(db)[m + 1] = ImageStep(db, image)
    BY <2>1, <2>2, <2>3
  <2>5. PICK node \in Nodes : node = y[2]
    BY DEF Relations
  <2>6. PICK p \in Val : p = y[1] /\ <<p, node>> \in R
    BY <2>5 DEF Relations
  <2>7. CASE ~IsNested(node)
    BY <2>4, <2>5, <2>6, <2>7 DEF Closed, ImageStep
  <2>8. ASSUME IsNested(node)
        PROVE  \A w \in R : (\E k \in KidsOf(node) : k.node = w[2]) => w[1] \in image[w[2]]
    <3> SUFFICES ASSUME NEW w \in R, NEW k \in KidsOf(node), k.node = w[2]
                 PROVE  w[1] \in image[w[2]]
      OBVIOUS
    <3>1. PICK z \in V : z = <<node, NestMax + 1 - (m + 1)>>
      BY <2>5
    <3>2. z[1] = node /\ z[2] + 1 = NestMax + 1 - m
      BY <1>1, <3>1
    <3>3. <<k.node, z[2] + 1>> \in V
      BY <2>8, <3>2 DEF Sound, KidsOf
    <3>4. <<w[2], NestMax + 1 - m>> \in V
      BY <3>2, <3>3
    <3>5. QED
      BY <1>1, <1>3, <2>3, <3>4
  <2>9. CASE Type[node] = "object"
    <3>1. IsNested(node)
      BY <2>9 DEF IsNested
    <3>2. p \in ObjPtr /\ IsObject(db.obj[p], node, image)
      BY <2>6, <2>8, <2>9, <3>1, ObjectStands
    <3>3. p \in ImageStep(db, image)[node]
      BY <2>9, <3>1, <3>2 DEF ImageStep
    <3>4. QED
      BY <2>4, <2>5, <2>6, <3>3
  <2>10. CASE Type[node] = "array"
    <3>1. IsNested(node)
      BY <2>10 DEF IsNested
    <3>2. p \in SetPtr /\ IsArray(db.set[p], node, image)
      BY <2>6, <2>8, <2>10, <3>1, SetStands
    <3>3. p \in ImageStep(db, image)[node]
      BY <2>10, <3>1, <3>2 DEF ImageStep
    <3>4. QED
      BY <2>4, <2>5, <2>6, <3>3
  <2>11. QED
    BY <2>7, <2>9, <2>10, NestedAssumption DEF IsNested
<1>4. P(h)
  <2> HIDE DEF P
  <2>1. T \in SUBSET Nat /\ 0 \in T /\ \A m \in T : m + 1 \in T
    BY <1>2, <1>3
  <2>2. T = Nat
    <3> HIDE DEF T
    <3>1. QED
      BY <2>1, Induction
  <2>3. QED
    BY <2>2
<1>5. QED
  BY <1>4

LEMMA OldIsKept ==
    ASSUME Untouched
    PROVE  /\ \A p \in ObjPtr : InitDb.obj[p] # NoMembers => view.obj[p] = InitDb.obj[p]
           /\ \A p \in SetPtr : InitDb.set[p] # {} => view.set[p] = InitDb.set[p]
<1>1. \A i \in 1..made : i \in 1..Len(Fresh)
  BY FreshIs DEF Untouched
<1>2. \A p \in Made : \/ p \in ObjPtr \ SetPtr /\ InitDb.obj[p] = NoMembers
                      \/ p \in SetPtr \ ObjPtr /\ InitDb.set[p] = {}
  <2> TAKE p \in Made
  <2>1. PICK i \in 1..made : p \in Refs(i)
    BY DEF Made
  <2>2. QED
    BY <1>1, <2>1, FreshIs, StoreAssumption DEF Refs
<1>3. QED
  BY <1>2 DEF Untouched

LEMMA StoredAsSent ==
    ASSUME FineInv, BuildInv, SentInv PROVE StoredIsSent
<1> SUFFICES ASSUME Accepted
             PROVE  /\ answer.ptr \in Images(view)[NestMax + 1][request.body]
                    /\ ~request.shared => store = view
                    /\ Untouched
  BY OldIsKept DEF StoredIsSent
<1>1. Sent
  BY DEF Sent
<1>2. PICK R \in Relations : Closed(view, R) /\ <<answer.ptr, request.body>> \in R
  BY <1>1 DEF SentInv
<1>3. PICK V \in SUBSET (Nodes \X Nat) : Sound(V) /\ <<request.body, 0>> \in V
  BY <1>1 DEF FineInv, Fine
<1>4. PICK db : db = view
  OBVIOUS
<1>5. PICK x \in R : x = <<answer.ptr, request.body>>
  BY <1>2
<1>6. PICK h \in Nat : h = NestMax + 1
  BY NestedAssumption
<1>7. NestMax + 1 - h = 0 /\ h <= NestMax + 1
  BY <1>6, NestedAssumption
<1>8. x[1] \in Images(db)[h][x[2]]
  BY <1>2, <1>3, <1>4, <1>5, <1>7, RelatedAreImages
<1>9. answer.ptr \in Images(view)[NestMax + 1][request.body]
  BY <1>4, <1>5, <1>6, <1>8
<1>10. QED
  BY <1>1, <1>9 DEF SentInv, BuildInv

LEMMA NoneIsOrphaned ==
    ASSUME SentInv PROVE NothingOrphaned
<1>1. Accepted => Sent
  BY DEF Sent
<1>2. QED
  BY <1>1 DEF SentInv, NothingOrphaned, RefersTo, Refs

LEMMA CountFits ==
    ASSUME InitInv, FineInv, SentInv PROVE CountIsStored
<1> SUFFICES ASSUME Accepted, request.route # "array", ~RepeatsKey(request.body)
             PROVE  answer.count = Cardinality(MembersStored)
  BY DEF CountIsStored, SentInv, Sent
<1>1. Sent /\ BodyOk /\ answer.count = Len(Kids[request.body])
  BY DEF Sent, SentInv, FineInv
<1>2. PICK R \in Relations : Closed(view, R) /\ <<answer.ptr, request.body>> \in R
  BY <1>1 DEF SentInv
<1>3. PICK V \in SUBSET (Nodes \X Nat) : Sound(V) /\ <<request.body, 0>> \in V
  BY <1>1 DEF FineInv, Fine
<1>4. PICK node \in Nodes : node = request.body
  BY <1>2 DEF Relations
<1> DEFINE L == Len(Kids[node])
           f == [i \in 1..L |-> Kids[node][i].key]
<1>5. Type[node] = "object" /\ IsNested(node)
  <2>1. Type[node] = request.route /\ request.route \in {"object", "array"}
    BY <1>1, <1>4, NestedAssumption DEF BodyOk, InitInv, InitTypeOK, Request
  <2>2. QED
    BY <2>1 DEF IsNested
<1>6. Holds(view, R, node, answer.ptr, L)
  BY <1>2, <1>4, <1>5 DEF Closed
<1>7. DOMAIN Kids[node] = 1..L /\ L \in Nat
  BY KidsType
<1>8. \A i \in 1..L : Kids[node][i].key \in Names
  BY <1>3, <1>4, <1>5, <1>7 DEF Sound
<1>9. \A i, j \in 1..L : Kids[node][i].key = Kids[node][j].key => i = j
  BY <1>4, <1>5, <1>7 DEF RepeatsKey
<1>10. \A i \in 1..L : Kids[node][i].key \in MembersStored
  <2> TAKE i \in 1..L
  <2>1. \A j \in (i + 1)..L : j \in 1..L /\ j # i
    BY <1>7
  <2>2. \A j \in (i + 1)..L : Kids[node][j].key # Kids[node][i].key
    BY <1>9, <2>1
  <2>3. <<view.obj[answer.ptr][Kids[node][i].key], Kids[node][i].node>> \in R
    BY <1>5, <1>6, <1>8, <2>2 DEF Holds
  <2>4. view.obj[answer.ptr][Kids[node][i].key] \in Val
    BY <2>3 DEF Relations
  <2>5. QED
    BY <1>8, <2>4, StoreAssumption DEF MembersStored, Val, Ptr
<1>11. \A n \in MembersStored : \E i \in 1..L : Kids[node][i].key = n
  BY <1>5, <1>6 DEF Holds, MembersStored
<1>12. f \in Bijection(1..L, MembersStored)
  BY <1>9, <1>10, <1>11 DEF Bijection, Injection, Surjection, IsInjective
<1>13. IsFiniteSet(1..L) /\ Cardinality(1..L) = L
  BY <1>7, FS_Interval
<1>14. Cardinality(MembersStored) = Cardinality(1..L)
  <2>1. ExistsBijection(1..L, MembersStored)
    BY <1>12 DEF ExistsBijection
  <2>2. QED
    BY <1>13, <2>1, FS_Bijection
<1>15. QED
  BY <1>1, <1>4, <1>13, <1>14

-----------------------------------------------------------------------------
\* All that is known of an init beyond its types.
TreeInv == DescentInv /\ AnswerInv /\ FineInv /\ ErrorInv /\ BuildInv /\ SentInv

LEMMA TreeStarts == Init => TreeInv
<1> SUFFICES ASSUME Init PROVE TreeInv
  OBVIOUS
<1>1. pc = "start" /\ made = 0 /\ view = InitDb /\ trail = <<>> /\ cause = None
  BY DEF Init
<1>2. ~Sent
  BY <1>1 DEF Sent, Accepted
<1>3. Untouched
  <2>1. made \in 0..Len(Fresh)
    BY <1>1, FreshIs
  <2>2. QED
    BY <1>1, <2>1 DEF Untouched
<1>4. cause # "type"
  BY <1>1, CauseAssumption DEF Causes
<1>5. QED
  BY <1>1, <1>2, <1>3, <1>4
     DEF TreeInv, DescentInv, AnswerInv, FineInv, ErrorInv, BuildInv, SentInv

LEMMA TreePreserved == InitInv /\ TreeInv /\ InitNext => TreeInv'
BY DescentPreserved, AnswerKept, FinePreserved, ErrorPreserved, BuildPreserved,
   SentPreserved DEF TreeInv

LEMMA TreeStutters ==
    ASSUME TreeInv, UNCHANGED init_vars PROVE TreeInv'
<1>1. UNCHANGED <<request, pc, store, view, made, stack, trail, cause, answer>>
  BY DEF init_vars
<1>2. Descends(stack)' = Descends(stack) /\ BodyOk' = BodyOk /\ Sent' = Sent
      /\ Accepted' = Accepted /\ Untouched' = Untouched /\ FramesFine(stack)' = FramesFine(stack)
  BY <1>1 DEF Descends, BodyOk, Sent, Accepted, Untouched, Made, FramesFine
<1>3. DescentInv'
  BY <1>1, <1>2 DEF TreeInv, DescentInv
<1>4. AnswerInv'
  BY <1>1, <1>2 DEF TreeInv, AnswerInv
<1>5. FineInv'
  BY <1>1, <1>2 DEF TreeInv, FineInv
<1>6. ErrorInv'
  <2>1. \A full : Passed(full) => Passed(full)'
    BY <1>1 DEF Passed, IsStack, Descends
  <2>2. QED
    BY <1>1, <2>1 DEF TreeInv, ErrorInv
<1>7. BuildInv'
  <2>1. \A born : Birth(born) /\ Growing(born) /\ Held(born) =>
                    (Birth(born) /\ Growing(born) /\ Held(born))'
    BY <1>1 DEF Birth, Growing, Held, RefersTo
  <2>2. \A R : Building(R) => Building(R)'
    BY <1>1 DEF Building, Made
  <2>3. QED
    BY <1>1, <1>2, <2>1, <2>2 DEF TreeInv, BuildInv
<1>8. SentInv'
  <2>1. \A i, j : RefersTo(j, i)' <=> RefersTo(j, i)
    BY <1>1 DEF RefersTo
  <2>2. QED
    BY <1>1, <1>2, <2>1 DEF TreeInv, SentInv
<1>9. QED
  BY <1>3, <1>4, <1>5, <1>6, <1>7, <1>8 DEF TreeInv

LEMMA TreeIsInvariant == Spec => [](InitInv /\ TreeInv)
<1>1. Start => TreeInv
  BY TreeStarts DEF Start
<1>2. InitInv /\ QueryInv /\ TreeInv /\ [Next]_vars => TreeInv'
  <2> SUFFICES ASSUME InitInv, TreeInv, [Next]_vars PROVE TreeInv'
    OBVIOUS
  <2>1. CASE InitNext
    BY <2>1, TreePreserved
  <2>2. CASE UNCHANGED init_vars
    BY <2>2, TreeStutters
  <2>3. QED
    BY <2>1, <2>2 DEF Next, Ended, vars
<1>3. QED
  BY <1>1, <1>2, Inductive, PTL DEF Spec

\* For every tree, what the transaction holds after a 201 is the tree that was
\* sent, and what was stored before is as it was.
THEOREM SentIsStored == Spec => []StoredIsSent
<1>1. InitInv /\ TreeInv => StoredIsSent
  BY StoredAsSent DEF TreeInv
<1>2. QED
  BY <1>1, TreeIsInvariant, PTL

\* An init is refused for its tree if and only if the tree is not as documented,
\* unless the storage fails.
THEOREM VerdictIsOfTheTree == Spec => []VerdictFitsTheTree
<1>1. InitInv /\ TreeInv => VerdictFitsTheTree
  BY VerdictFits DEF TreeInv
<1>2. QED
  BY <1>1, TreeIsInvariant, PTL

\* For every tree that is refused for a name or for its depth, the message has
\* the place of the node that is at fault, as much of the way there as the
\* buffers hold, and nothing in between is left out before they are full.
THEOREM ErrorsLeadToThePlace == Spec => []ErrorNamesThePlace
<1>1. Start => MessageInv
  BY DEF Start, Init, MessageInv
<1>2. InitInv /\ TreeInv /\ MessageInv /\ [Next]_vars => MessageInv'
  <2> SUFFICES ASSUME InitInv, TreeInv, MessageInv, [Next]_vars PROVE MessageInv'
    OBVIOUS
  <2>1. CASE InitNext
    BY <2>1, MessagePreserved DEF TreeInv
  <2>2. CASE UNCHANGED init_vars
    BY <2>2, MessageStutters
  <2>3. QED
    BY <2>1, <2>2 DEF Next, Ended, vars
<1>3. InitInv /\ TreeInv /\ MessageInv => ErrorNamesThePlace
  BY PlaceIsNamed DEF TreeInv, MessageInv, ErrorNamesThePlace
<1>4. QED
  BY <1>1, <1>2, <1>3, TreeIsInvariant, PTL DEF Spec

\* Every entity an init makes is referred to by one made before it.
THEOREM NoneOrphaned == Spec => []NothingOrphaned
<1>1. InitInv /\ TreeInv => NothingOrphaned
  BY NoneIsOrphaned DEF TreeInv
<1>2. QED
  BY <1>1, TreeIsInvariant, PTL

\* The count of a 201 is that of the elements, or of the members, stored.
THEOREM CountsAreStored == Spec => []CountIsStored
<1>1. InitInv /\ TreeInv => CountIsStored
  BY CountFits DEF TreeInv
<1>2. QED
  BY <1>1, TreeIsInvariant, PTL

-----------------------------------------------------------------------------
(***************************************************************************)
(* A query answers what a walk along its path comes to.                    *)
(***************************************************************************)
\* The objects behind the query lead from the root to where it is.
WayInv ==
    /\ at \in {"idle", "parse", "root"} => seg = 0
    /\ at \in {"root", "walk", "read"} => path.whole /\ Syntax(path.segments) = "OK"
    /\ at \in {"walk", "read"} =>
         /\ path.root \in ObjPtr
         /\ \E way \in [1..seg -> ObjPtr] :
               IsWay(snap, path.root, path.segments, way) /\ way[seg] = cur
    /\ QueryIsWalk

\* segments_parse finds the first bad segment, wherever the bad ones are.
LEMMA SyntaxIs ==
    ASSUME path \in Paths
    PROVE  segments_parse(path) = IF path.whole THEN Syntax(path.segments) ELSE "PATH_PARSE"
<1> DEFINE s == path.segments
           Stops(i) == s[i] = Blank \/ i > max_depth
           First(i) == Stops(i) /\ \A j \in 1..(i - 1) : ~Stops(j)
<1>1. s \in Seq(Names \cup {Blank}) /\ Len(s) \in Nat /\ DOMAIN s = 1..Len(s)
      /\ (s = <<>> <=> Len(s) = 0)
  BY PathType, EmptySeq, LenProperties
<1>2. max_depth \in Nat /\ max_depth >= 1
  BY QueryAssumption DEF max_depth
<1> HIDE DEF s
<1>3. CASE ~path.whole \/ Len(s) = 0
  <2>1. segments_parse(path) = "PATH_PARSE"
    BY <1>3 DEF segments_parse, s
  <2>2. path.whole => Syntax(s) = "PATH_PARSE"
    BY <1>1, <1>3 DEF Syntax
  <2>3. QED
    BY <2>1, <2>2 DEF s
<1>4. CASE path.whole /\ Len(s) # 0
  <2>1. segments_parse(path) = IF \A i \in 1..Len(s) : ~Stops(i) THEN "OK"
                               ELSE IF \E i \in 1..Len(s) : First(i) /\ s[i] = Blank
                               THEN "PATH_PARSE" ELSE "PATH_TOO_DEEP"
    BY <1>4 DEF segments_parse, s
  <2>2. Syntax(s) = IF \E i \in 1..Len(s) : s[i] = Blank /\ i <= max_depth + 1
                    THEN "PATH_PARSE"
                    ELSE IF Len(s) > max_depth THEN "PATH_TOO_DEEP" ELSE "OK"
    BY <1>1, <1>4 DEF Syntax
  <2>3. (\A i \in 1..Len(s) : ~Stops(i)) <=>
        /\ Len(s) <= max_depth
        /\ ~\E i \in 1..Len(s) : s[i] = Blank /\ i <= max_depth + 1
    <3>1. ASSUME \A i \in 1..Len(s) : ~Stops(i) PROVE Len(s) <= max_depth
      <4>1. ~Stops(Len(s))
        BY <1>1, <1>4, <3>1
      <4>2. QED
        BY <1>1, <1>2, <4>1
    <3>2. QED
      BY <1>1, <1>2, <3>1
  <2>4. ASSUME NEW i \in 1..Len(s), First(i), s[i] = Blank
        PROVE  i <= max_depth + 1
    <3>1. CASE i = 1
      BY <1>2, <3>1
    <3>2. CASE i # 1
      <4>1. i - 1 \in 1..(i - 1)
        BY <1>1, <3>2
      <4>2. ~(i - 1 > max_depth)
        BY <2>4, <4>1
      <4>3. QED
        BY <1>1, <1>2, <4>2
    <3>3. QED
      BY <3>1, <3>2
  <2>5. ASSUME NEW i \in 1..Len(s), s[i] = Blank, i <= max_depth + 1
        PROVE  \E j \in 1..Len(s) : First(j) /\ s[j] = Blank
    <3> DEFINE T == {j \in 1..Len(s) : s[j] = Blank}
    <3>1. T \in SUBSET Nat /\ T # {}
      BY <1>1, <2>5
    <3>2. PICK j \in T : \A k \in T : j <= k
      <4> HIDE DEF T
      <4>1. QED
        BY <3>1, LeastElement
    <3>3. j \in 1..Len(s) /\ s[j] = Blank /\ j <= i
      BY <2>5, <3>2
    <3>4. ASSUME NEW k \in 1..(j - 1) PROVE ~Stops(k)
      <4>1. k \in 1..Len(s) /\ k < j /\ k <= max_depth
        BY <1>1, <1>2, <2>5, <3>3
      <4>2. k \notin T
        BY <3>2, <4>1
      <4>3. QED
        BY <1>2, <4>1, <4>2
    <3>5. QED
      BY <3>3, <3>4
  <2> HIDE DEF Stops, First
  <2>6. QED
    BY <1>1, <1>2, <1>4, <2>1, <2>2, <2>3, <2>4, <2>5 DEF s
<1>5. QED
  BY <1>3, <1>4

\* Where the walk is at its end, the query has its answer.
LEMMA WalkEnds ==
    ASSUME QueryInv, WayInv, at \in {"walk", "read"},
           NEW rc, NEW value, NEW segment, NEW found, Answer(rc, value, segment, found),
           ~GoesOn(snap.obj[cur][Segment], path.segments, seg),
           Outcome(rc, value, segment, found) = Stop(snap, cur, path.segments, seg)
    PROVE  WayInv'
<1>1. /\ at' = "answered" /\ result' = Outcome(rc, value, segment, found)
      /\ UNCHANGED <<path, snap, cur, seg, capacity>>
  BY DEF Answer, Outcome
<1>2. /\ path \in Paths /\ path.root \in ObjPtr /\ path.whole
      /\ Syntax(path.segments) = "OK" /\ seg \in 1..Len(path.segments)
      /\ path.segments \in Seq(Names \cup {Blank})
  BY PathType DEF QueryInv, QueryTypeOK, WayInv
<1>3. PICK way \in [1..seg -> ObjPtr] :
         IsWay(snap, path.root, path.segments, way) /\ way[seg] = cur
  BY DEF WayInv
<1>4. seg \in DOMAIN path.segments
  BY <1>2, LenProperties
<1>5. IsWalk(snap, path.root, path.segments, result')
  BY <1>1, <1>3, <1>4 DEF IsWalk, Segment
<1>6. path.root # None /\ path.root \notin SetPtr
  BY <1>2, StoreAssumption
<1>7. IsExpected(snap, path, result')
  BY <1>2, <1>5, <1>6 DEF IsExpected
<1>8. IsExpected(snap', path', result')
  BY <1>1, <1>7
<1>9. QueryIsWalk'
  <2>1. PICK db : db = snap'
    OBVIOUS
  <2>2. PICK p : p = path'
    OBVIOUS
  <2>3. PICK outcome : outcome = result'
    OBVIOUS
  <2>4. IsExpected(db, p, outcome)
    BY <1>8, <2>1, <2>2, <2>3
  <2>5. QED
    BY <2>1, <2>2, <2>3, <2>4 DEF QueryIsWalk
<1>10. QED
  BY <1>1, <1>9 DEF WayInv

\* What a read tells about what is there.
LEMMA ReadTells ==
    ASSUME NEW p \in ObjPtr, NEW n \in Names, NEW size \in Nat, snap \in Db
    PROVE  LET rc == obj_member_get(p, n, size)
               value == snap.obj[p][n]
           IN /\ value \in Val \cup {None}
              /\ rc = "ENTITY_NOT_FOUND" <=> ~entity_exist(snap, p)
              /\ rc = "ENTITY_NOT_FOUND" => value = None
              /\ rc = "MEMBER_NOT_FOUND" <=> entity_exist(snap, p) /\ value = None
              /\ rc = "OK" => value # None /\ Size[value] <= size
              /\ rc = "BUFFER_TOO_SMALL" => value # None /\ Size[value] > size
<1> DEFINE rc == obj_member_get(p, n, size)
           value == snap.obj[p][n]
<1>1. value \in Val \cup {None}
  BY DEF Db, Members
<1>2. ~entity_exist(snap, p) => value = None
  <2>1. ~entity_exist(snap, p) => snap.obj[p] = NoMembers
    BY DEF entity_exist
  <2>2. QED
    BY <2>1 DEF NoMembers
<1>3. value # None => Size[value] \in Nat
  BY <1>1, QueryAssumption
<1>4. rc = IF ~entity_exist(snap, p) THEN "ENTITY_NOT_FOUND"
           ELSE IF value = None THEN "MEMBER_NOT_FOUND"
           ELSE IF Size[value] > size THEN "BUFFER_TOO_SMALL" ELSE "OK"
  BY DEF obj_member_get
<1> HIDE DEF value, rc
<1>5. value # None => (Size[value] <= size <=> ~(Size[value] > size))
  BY <1>3
<1>6. /\ rc = "ENTITY_NOT_FOUND" <=> ~entity_exist(snap, p)
      /\ rc = "MEMBER_NOT_FOUND" <=> entity_exist(snap, p) /\ value = None
  BY <1>4
<1>7. /\ rc = "OK" => value # None /\ Size[value] <= size
      /\ rc = "BUFFER_TOO_SMALL" => value # None /\ Size[value] > size
  BY <1>4, <1>5
<1>8. QED
  BY <1>1, <1>2, <1>6, <1>7 DEF rc, value

\* Where a query on its way is.
LEMMA OnTheWay ==
    ASSUME QueryInv, at \in {"walk", "read"}
    PROVE  /\ path \in Paths /\ snap \in Db /\ cur \in ObjPtr /\ Segment \in Names
           /\ Len(path.segments) \in Nat /\ seg \in 1..Len(path.segments)
           /\ seg \in Nat /\ capacity \in Nat
BY PathType DEF QueryInv, QueryTypeOK, Segment

LEMMA BeginQueryOnWay ==
    ASSUME QueryInv, WayInv, QueryBegins PROVE WayInv'
BY DEF QueryBegins, BeginQuery, WayInv, QueryIsWalk

LEMMA ParseOnWay ==
    ASSUME QueryInv, WayInv, Parse PROVE WayInv'
<1>1. at = "parse" /\ path \in Paths /\ seg = 0
  BY DEF Parse, QueryInv, QueryTypeOK, WayInv
<1>2. CASE segments_parse(path) = "OK"
  <2>1. at' = "root" /\ UNCHANGED <<path, snap, cur, seg, capacity, result>>
    BY <1>2 DEF Parse
  <2>2. path.whole /\ Syntax(path.segments) = "OK"
    BY <1>1, <1>2, SyntaxIs
  <2>3. path'.whole /\ Syntax(path'.segments) = "OK"
    BY <2>1, <2>2
  <2>4. Syntax(path.segments)' = Syntax(path'.segments)
    BY DEF Syntax, max_depth
  <2>5. QED
    BY <1>1, <2>1, <2>3, <2>4 DEF WayInv, QueryIsWalk
<1>3. CASE segments_parse(path) # "OK"
  <2>1. /\ at' = "answered" /\ path' = path /\ snap' = snap
        /\ result' = Outcome(segments_parse(path), None, None, None)
    BY <1>3 DEF Parse, Answer, Outcome
  <2>2. IsExpected(snap, path, result')
    BY <1>1, <1>3, <2>1, SyntaxIs DEF IsExpected
  <2>3. PICK db : db = snap'
    OBVIOUS
  <2>4. PICK p : p = path'
    OBVIOUS
  <2>5. PICK outcome : outcome = result'
    OBVIOUS
  <2>6. IsExpected(db, p, outcome)
    BY <2>1, <2>2, <2>3, <2>4, <2>5
  <2>7. QueryIsWalk'
    BY <2>3, <2>4, <2>5, <2>6 DEF QueryIsWalk
  <2>8. QED
    BY <2>1, <2>7 DEF WayInv
<1>4. QED
  BY <1>2, <1>3

LEMMA RootOnWay ==
    ASSUME QueryInv, WayInv, Root PROVE WayInv'
<1>1. /\ at = "root" /\ path \in Paths /\ seg = 0 /\ path.whole
      /\ Syntax(path.segments) = "OK" /\ path.root \in Ptr \cup {None}
  BY PathType DEF Root, QueryInv, QueryTypeOK, WayInv
<1>2. CASE path.root \in ObjPtr
  <2>1. /\ at' = "walk" /\ cur' = path.root /\ seg' = 1
        /\ UNCHANGED <<path, snap, capacity, result>>
    BY <1>2 DEF Root
  <2> DEFINE way == [k \in 1..1 |-> path.root]
  <2>2. way \in [1..1 -> ObjPtr] /\ way[1] = path.root /\ DOMAIN way = 1..1
    BY <1>2
  <2>3. IsWay(snap, path.root, path.segments, way)
    BY <2>2 DEF IsWay
  <2> HIDE DEF way
  <2>4. \E w \in [1..seg' -> ObjPtr] :
           IsWay(snap', path'.root, path'.segments, w) /\ w[seg'] = cur'
    BY <2>1, <2>2, <2>3
  <2>5. Syntax(path.segments)' = Syntax(path'.segments)
    BY DEF Syntax, max_depth
  <2>6. QED
    BY <1>1, <1>2, <2>1, <2>4, <2>5 DEF WayInv, QueryIsWalk, IsWay
<1>3. CASE path.root \notin ObjPtr
  <2>1. /\ at' = "answered" /\ path' = path /\ snap' = snap
        /\ result' = IF path.root \in SetPtr
                     THEN Outcome("SET_NOT_SUPPORTED", None, 0, "set")
                     ELSE Outcome("PATH_INVALID_PTR", None, 0, None)
    BY <1>1, <1>3 DEF Root, Fail, Answer, Outcome
  <2>2. path.root = None <=> path.root \notin SetPtr
    BY <1>1, <1>3, StoreAssumption DEF Ptr
  <2>3. IsExpected(snap, path, result')
    BY <1>1, <2>1, <2>2 DEF IsExpected
  <2>4. PICK db : db = snap'
    OBVIOUS
  <2>5. PICK p : p = path'
    OBVIOUS
  <2>6. PICK outcome : outcome = result'
    OBVIOUS
  <2>7. IsExpected(db, p, outcome)
    BY <2>1, <2>3, <2>4, <2>5, <2>6
  <2>8. QueryIsWalk'
    BY <2>4, <2>5, <2>6, <2>7 DEF QueryIsWalk
  <2>9. QED
    BY <2>1, <2>8 DEF WayInv
<1>4. QED
  BY <1>2, <1>3

\* One object more on the way.
LEMMA WayGrows ==
    ASSUME NEW db, NEW root, NEW segments, NEW n \in Nat \ {0},
           NEW way \in [1..n -> ObjPtr], IsWay(db, root, segments, way),
           NEW p \in ObjPtr, db.obj[way[n]][segments[n]] = p
    PROVE  \E more \in [1..(n + 1) -> ObjPtr] :
              IsWay(db, root, segments, more) /\ more[n + 1] = p
<1> DEFINE more == [k \in 1..(n + 1) |-> IF k = n + 1 THEN p ELSE way[k]]
<1>1. \A k \in 1..(n + 1) : k = n + 1 \/ k \in 1..n
  OBVIOUS
<1>2. more \in [1..(n + 1) -> ObjPtr]
  BY <1>1
<1>3. more[n + 1] = p /\ more[1] = way[1] /\ \A k \in 1..n : more[k] = way[k]
  OBVIOUS
<1>4. DOMAIN more = 1..(n + 1) /\ DOMAIN way = 1..n
  OBVIOUS
<1> HIDE DEF more
<1>5. ASSUME NEW k \in 1..(n + 1), k + 1 \in 1..(n + 1)
      PROVE  db.obj[more[k]][segments[k]] = more[k + 1]
  <2>1. CASE k = n
    BY <1>3, <2>1
  <2>2. CASE k # n
    <3>1. k \in 1..n /\ k + 1 \in 1..n
      BY <1>5, <2>2
    <3>2. db.obj[way[k]][segments[k]] = way[k + 1]
      BY <1>4, <3>1 DEF IsWay
    <3>3. QED
      BY <1>3, <3>1, <3>2
  <2>3. QED
    BY <2>1, <2>2
<1>6. IsWay(db, root, segments, more)
  BY <1>3, <1>4, <1>5 DEF IsWay
<1>7. QED
  BY <1>2, <1>3, <1>6

LEMMA FollowOnWay ==
    ASSUME QueryInv, WayInv, Follow PROVE WayInv'
<1> DEFINE rc == obj_member_get(cur, Segment, RefSize)
           value == snap.obj[cur][Segment]
<1>1. /\ at = "walk" /\ seg < Len(path.segments) /\ path \in Paths /\ snap \in Db
      /\ cur \in ObjPtr /\ Segment \in Names /\ RefSize \in Nat
      /\ seg \in 1..Len(path.segments) /\ Len(path.segments) \in Nat
  BY OnTheWay, QueryAssumption DEF Follow, LastSegment
<1>2. rc \in {"ENTITY_NOT_FOUND", "MEMBER_NOT_FOUND", "BUFFER_TOO_SMALL", "OK"}
  BY ReadCodes
<1>3. /\ value \in Val \cup {None}
      /\ rc = "ENTITY_NOT_FOUND" <=> ~entity_exist(snap, cur)
      /\ rc = "ENTITY_NOT_FOUND" => value = None
      /\ rc = "MEMBER_NOT_FOUND" <=> entity_exist(snap, cur) /\ value = None
      /\ rc = "OK" => value # None /\ Size[value] <= RefSize
      /\ rc = "BUFFER_TOO_SMALL" => value # None /\ Size[value] > RefSize
  BY <1>1, ReadTells
<1>4. Segment = path.segments[seg] /\ (seg = Len(path.segments)) = FALSE
  BY <1>1 DEF Segment
<1> HIDE DEF rc
<1>5. CASE rc = "OK" /\ value \in ObjPtr
  <2>1. /\ cur' = value /\ seg' = seg + 1
        /\ UNCHANGED <<path, at, snap, capacity, result>>
    BY <1>5, StoreAssumption DEF Follow, rc
  <2>2. PICK way \in [1..seg -> ObjPtr] :
           IsWay(snap, path.root, path.segments, way) /\ way[seg] = cur
    BY <1>1 DEF WayInv
  <2>3. PICK n \in Nat \ {0} : n = seg
    BY <1>1
  <2>4. \E more \in [1..(seg + 1) -> ObjPtr] :
           IsWay(snap, path.root, path.segments, more) /\ more[seg + 1] = value
    <3>1. PICK db : db = snap
      OBVIOUS
    <3>2. PICK root : root = path.root
      OBVIOUS
    <3>3. PICK segments : segments = path.segments
      OBVIOUS
    <3>4. PICK v : v = value
      OBVIOUS
    <3>5. way \in [1..n -> ObjPtr] /\ IsWay(db, root, segments, way) /\ v \in ObjPtr
          /\ db.obj[way[n]][segments[n]] = v
      BY <1>4, <1>5, <2>2, <2>3, <3>1, <3>2, <3>3, <3>4
    <3>6. QED
      BY <2>3, <3>1, <3>2, <3>3, <3>4, <3>5, WayGrows
  <2>5. Syntax(path.segments)' = Syntax(path'.segments)
    BY DEF Syntax, max_depth
  <2>6. \E way2 \in [1..seg' -> ObjPtr] :
           IsWay(snap', path'.root, path'.segments, way2) /\ way2[seg'] = cur'
    BY <2>1, <2>4
  <2>7. QED
    BY <1>1, <2>1, <2>5, <2>6 DEF WayInv, QueryIsWalk, IsWay
<1>6. CASE ~(rc = "OK" /\ value \in ObjPtr)
  <2>1. rc = "BUFFER_TOO_SMALL" => value \in Raw
    <3>1. value \in Ptr => Size[value] = RefSize
      BY QueryAssumption
    <3>2. rc = "BUFFER_TOO_SMALL" => Size[value] # RefSize
      <4>1. value # None => Size[value] \in Nat
        BY <1>3, QueryAssumption
      <4>2. QED
        BY <1>1, <1>3, <4>1
    <3>3. QED
      BY <1>3, <3>1, <3>2 DEF Val
  <2>2. ~GoesOn(value, path.segments, seg)
    BY <1>2, <1>3, <1>6, <2>1, StoreAssumption DEF GoesOn
  <2>3. PICK found : /\ Fail(IF rc = "OK" /\ value \in SetPtr THEN "SET_NOT_SUPPORTED"
                             ELSE IF rc \in {"OK", "BUFFER_TOO_SMALL"}
                             THEN "TYPE_MISMATCH" ELSE rc, found)
                     /\ found = IF rc # "OK" THEN None
                                ELSE IF value \in SetPtr THEN "set" ELSE TagOf(value)
    <3>1. CASE rc = "OK"
      <4>1. value \in SetPtr \cup Raw /\ value \notin ObjPtr
        <5> HIDE DEF value
        <5>1. QED
          BY <1>3, <1>6, <3>1 DEF Val, Ptr
      <4>2. CASE value \in SetPtr
        BY <3>1, <4>1, <4>2, StoreAssumption DEF Follow, rc
      <4>3. CASE value \notin SetPtr
        BY <3>1, <4>1, <4>3 DEF Follow, rc
      <4>4. QED
        BY <4>2, <4>3
    <3>2. CASE rc # "OK"
      BY <1>2, <3>2 DEF Follow, rc
    <3>3. QED
      BY <3>1, <3>2
  <2> DEFINE code == IF rc = "OK" /\ value \in SetPtr THEN "SET_NOT_SUPPORTED"
                     ELSE IF rc \in {"OK", "BUFFER_TOO_SMALL"}
                     THEN "TYPE_MISMATCH" ELSE rc
  <2>4. Outcome(code, None, seg, found) = Stop(snap, cur, path.segments, seg)
    <3>1. Stop(snap, cur, path.segments, seg) =
            IF ~entity_exist(snap, cur) THEN Outcome("ENTITY_NOT_FOUND", None, seg, None)
            ELSE IF value = None THEN Outcome("MEMBER_NOT_FOUND", None, seg, None)
            ELSE IF value \in SetPtr THEN Outcome("SET_NOT_SUPPORTED", None, seg, "set")
            ELSE Outcome("TYPE_MISMATCH", None, seg,
                         IF Size[value] > RefSize THEN None
                         ELSE IF value = Null THEN "null" ELSE "raw")
      BY <1>4 DEF Stop
    <3>2. value # None => (Size[value] > RefSize <=> ~(Size[value] <= RefSize))
      BY <1>1, <1>3, QueryAssumption
    <3>3. value \in SetPtr => value \notin Raw
      BY StoreAssumption
    <3> HIDE DEF value
    <3>4. CASE rc = "OK"
      BY <1>3, <2>3, <3>1, <3>2, <3>4 DEF TagOf
    <3>5. CASE rc = "BUFFER_TOO_SMALL"
      BY <1>3, <2>1, <2>3, <3>1, <3>2, <3>3, <3>5
    <3>6. CASE rc \in {"ENTITY_NOT_FOUND", "MEMBER_NOT_FOUND"}
      BY <1>3, <2>3, <3>1, <3>6
    <3>7. QED
      BY <1>2, <3>4, <3>5, <3>6
  <2>5. Answer(code, None, seg, found)
    BY <2>3 DEF Fail
  <2> HIDE DEF code
  <2>6. PICK c : c = code
    OBVIOUS
  <2>7. PICK n : n = seg
    OBVIOUS
  <2>8. PICK fd : fd = found
    OBVIOUS
  <2>9. QED
    BY <1>1, <1>4, <2>2, <2>4, <2>5, <2>6, <2>7, WalkEnds
<1>7. QED
  BY <1>5, <1>6

LEMMA StartReadOnWay ==
    ASSUME QueryInv, WayInv, StartRead PROVE WayInv'
<1>1. /\ at = "walk" /\ at' = "read" /\ UNCHANGED <<path, snap, cur, seg, result>>
  BY DEF StartRead
<1>2. Syntax(path.segments)' = Syntax(path'.segments)
  BY DEF Syntax, max_depth
<1>3. QED
  BY <1>1, <1>2 DEF WayInv, QueryIsWalk, IsWay

LEMMA GrowOnWay ==
    ASSUME QueryInv, WayInv, Grow PROVE WayInv'
<1> DEFINE value == snap.obj[cur][Segment]
<1>1. at = "read" /\ obj_member_get(cur, Segment, capacity) = "BUFFER_TOO_SMALL"
  BY DEF Grow
<1>2. CASE capacity >= max_bytes
  <2>1. Answer("VALUE_TOO_LARGE", None, seg, None)
    BY <1>2 DEF Grow, Fail
  <2>2. /\ cur \in ObjPtr /\ Segment \in Names /\ capacity \in Nat /\ snap \in Db
        /\ seg = Len(path.segments) /\ seg \in Nat /\ capacity <= max_bytes
    BY <1>1, ReadContext
  <2>3. value \in Val \cup {None} /\ value # None /\ Size[value] > capacity
        /\ entity_exist(snap, cur)
    BY <1>1, <2>2, ReadTells
  <2>4. Size[value] > max_bytes
    <3>1. capacity = max_bytes
      BY <1>2, <2>2, LimitType
    <3>2. QED
      BY <2>3, <3>1
  <2>5. ~GoesOn(value, path.segments, seg)
    BY <2>2 DEF GoesOn
  <2>6. Outcome("VALUE_TOO_LARGE", None, seg, None) = Stop(snap, cur, path.segments, seg)
    BY <2>2, <2>3, <2>4 DEF Stop, Segment
  <2>7. PICK n : n = seg
    OBVIOUS
  <2>8. QED
    BY <1>1, <2>1, <2>5, <2>6, <2>7, WalkEnds
<1>3. CASE ~(capacity >= max_bytes)
  <2>1. UNCHANGED <<path, at, snap, cur, seg, result>>
    BY <1>3 DEF Grow
  <2>2. Syntax(path.segments)' = Syntax(path'.segments)
    BY DEF Syntax, max_depth
  <2>3. QED
    BY <1>1, <2>1, <2>2 DEF WayInv, QueryIsWalk, IsWay
<1>4. QED
  BY <1>2, <1>3

LEMMA ReadOnWay ==
    ASSUME QueryInv, WayInv, Read PROVE WayInv'
<1> DEFINE rc == obj_member_get(cur, Segment, capacity)
           value == snap.obj[cur][Segment]
<1>1. at = "read" /\ rc # "BUFFER_TOO_SMALL"
  BY DEF Read
<1>2. /\ cur \in ObjPtr /\ Segment \in Names /\ capacity \in Nat /\ snap \in Db
      /\ seg = Len(path.segments) /\ seg \in Nat /\ capacity <= max_bytes
  BY <1>1, ReadContext
<1>3. /\ value \in Val \cup {None}
      /\ rc = "ENTITY_NOT_FOUND" <=> ~entity_exist(snap, cur)
      /\ rc = "MEMBER_NOT_FOUND" <=> entity_exist(snap, cur) /\ value = None
      /\ rc = "OK" => value # None /\ Size[value] <= capacity
  BY <1>2, ReadTells
<1>4. rc \in {"ENTITY_NOT_FOUND", "MEMBER_NOT_FOUND", "OK"}
  BY <1>1, ReadCodes
<1>5. IF rc = "OK" THEN Answer("OK", value, None, None) ELSE Answer(rc, None, seg, None)
  BY DEF Read, Fail
<1>6. ~GoesOn(value, path.segments, seg)
  BY <1>2 DEF GoesOn
<1>7. Stop(snap, cur, path.segments, seg) =
        IF ~entity_exist(snap, cur) THEN Outcome("ENTITY_NOT_FOUND", None, seg, None)
        ELSE IF value = None THEN Outcome("MEMBER_NOT_FOUND", None, seg, None)
        ELSE IF Size[value] > max_bytes THEN Outcome("VALUE_TOO_LARGE", None, seg, None)
        ELSE Outcome("OK", value, None, None)
  BY <1>2 DEF Stop, Segment
<1>8. PICK n : n = seg
  OBVIOUS
<1>9. PICK v : v = value
  OBVIOUS
<1>10. PICK c : c = rc
  OBVIOUS
<1>11. CASE rc = "OK"
  <2>1. ~(Size[value] > max_bytes)
    <3>1. Size[value] \in Nat
      BY <1>3, <1>11, QueryAssumption
    <3>2. QED
      BY <1>2, <1>3, <1>11, <3>1, LimitType
  <2>2. Outcome("OK", v, None, None) = Stop(snap, cur, path.segments, seg)
    BY <1>3, <1>7, <1>9, <1>11, <2>1
  <2>3. QED
    BY <1>1, <1>5, <1>6, <1>9, <1>11, <2>2, WalkEnds
<1>12. CASE rc # "OK"
  <2> HIDE DEF rc
  <2>1. Outcome(c, None, n, None) = Stop(snap, cur, path.segments, seg)
    BY <1>3, <1>4, <1>7, <1>8, <1>10, <1>12
  <2>2. Answer(c, None, n, None)
    BY <1>5, <1>8, <1>10, <1>12
  <2>3. QED
    BY <1>1, <1>6, <2>1, <2>2, WalkEnds
<1>13. QED
  BY <1>11, <1>12

LEMMA QueryAllocOnWay ==
    ASSUME WayInv, QueryAllocFails PROVE WayInv'
<1>1. at' = "answered" /\ result'.rc = "MEMORY"
  BY DEF QueryAllocFails, Answer, Fail
<1>2. QED
  BY <1>1 DEF WayInv, QueryIsWalk, Unlucky

LEMMA BeginQueryFailsOnWay ==
    ASSUME WayInv, BeginQueryFails PROVE WayInv'
<1>1. at' = "answered" /\ result'.rc \in Unlucky
  BY DEF BeginQueryFails, Unlucky
<1>2. QED
  BY <1>1 DEF WayInv, QueryIsWalk

LEMMA OnWay == QueryInv /\ WayInv /\ (QueryBegins \/ QueryNext) => WayInv'
<1> SUFFICES ASSUME QueryInv, WayInv, QueryBegins \/ QueryNext PROVE WayInv'
  OBVIOUS
<1>1. QueryBegins \/ Parse \/ Root \/ Follow \/ StartRead \/ Grow \/ Read
      \/ BeginQueryFails \/ QueryAllocFails
  BY DEF QueryNext, QueryWork
<1>2. QED
  BY <1>1, BeginQueryOnWay, ParseOnWay, RootOnWay, FollowOnWay, StartReadOnWay,
     GrowOnWay, ReadOnWay, BeginQueryFailsOnWay, QueryAllocOnWay

LEMMA WayStutters ==
    ASSUME WayInv, UNCHANGED query_vars PROVE WayInv'
<1>1. UNCHANGED <<path, at, snap, cur, seg, capacity, result>>
  BY DEF query_vars
<1>2. Syntax(path.segments)' = Syntax(path'.segments)
  BY DEF Syntax, max_depth
<1>3. IsExpected(snap, path, result)' = IsExpected(snap, path, result)
  BY <1>1 DEF IsExpected, Syntax, max_depth, IsWalk, IsWay, GoesOn, Stop, Outcome,
              entity_exist, max_bytes
<1>4. QED
  BY <1>1, <1>2, <1>3 DEF WayInv, QueryIsWalk, IsWay

LEMMA WayIsInvariant == Spec => []WayInv
<1>1. Start => WayInv
  BY DEF Start, QueryInit, WayInv, QueryIsWalk
<1>2. InitInv /\ QueryInv /\ WayInv /\ [Next]_vars => WayInv'
  <2> SUFFICES ASSUME QueryInv, WayInv, [Next]_vars PROVE WayInv'
    OBVIOUS
  <2>1. CASE UNCHANGED query_vars
    BY <2>1, WayStutters
  <2>2. CASE QueryBegins \/ QueryNext
    BY <2>2, OnWay
  <2>3. QED
    BY <2>1, <2>2 DEF Next, Ended, vars
<1>3. QED
  BY <1>1, <1>2, Inductive, PTL DEF Spec

\* A query answers what reading the path member by member comes to, with the
\* code, the segment and the type of the first obstacle, in the one version of
\* the store it began with, whatever is committed meanwhile.
THEOREM QueryWalks == Spec => []QueryIsWalk
<1>1. WayInv => QueryIsWalk
  BY DEF WayInv
<1>2. QED
  BY <1>1, WayIsInvariant, PTL

-----------------------------------------------------------------------------
(***************************************************************************)
(* A query that follows the keys of a tree finds what was sent.            *)
(***************************************************************************)
LEMMA MemberStands ==
    ASSUME NEW db, NEW R \in Relations, Closed(db, R), NEW node \in Nodes,
           Type[node] = "object", NEW p, <<p, node>> \in R, NEW n \in Names, HasKey(node, n)
    PROVE  p \in ObjPtr /\ <<db.obj[p][n], Meant(node, n)>> \in R
<1>1. p \in ObjPtr /\ Holds(db, R, node, p, Len(Kids[node]))
  BY DEF Closed, OfKind, IsNested
<1>2. PICK i \in 1..Len(Kids[node]) :
              /\ Kids[node][i].key = n
              /\ \A j \in (i + 1)..Len(Kids[node]) : Kids[node][j].key # n
              /\ Meant(node, n) = Kids[node][i].node
  BY MeantIs
<1>3. QED
  BY <1>1, <1>2 DEF Holds

\* The nodes along the path, from the body to the target.
IsTrack(segments, f) ==
    /\ f \in [0..Len(segments) -> Nodes]
    /\ f[0] = request.body /\ f[Len(segments)] = Target
    /\ \A n \in 1..Len(segments) :
          /\ Type[f[n - 1]] = "object" /\ HasKey(f[n - 1], segments[n])
          /\ f[n] = Meant(f[n - 1], segments[n])

\* The recursive definition of the target says what it seems to say.
LEMMA TargetsAre ==
    ASSUME request.body \in Nodes, NEW segments, segments = path.segments,
           Len(segments) \in Nat
    PROVE  \E f \in [0..Len(segments) -> Nodes \cup {None}] :
              /\ f[0] = request.body /\ f[Len(segments)] = Target
              /\ \A n \in 1..Len(segments) :
                    f[n] = IF /\ f[n - 1] # None /\ HasKey(f[n - 1], segments[n])
                              /\ Type[f[n - 1]] = "object"
                           THEN Meant(f[n - 1], segments[n]) ELSE None
<1> DEFINE N == Len(segments)
           T == Nodes \cup {None}
           Next1(n, node) == IF node # None /\ HasKey(node, segments[n]) /\ Type[node] = "object"
                             THEN Meant(node, segments[n]) ELSE None
           g == [n \in 1..N |-> [node \in T |-> Next1(n, node)]]
<1>1. PICK body : body = request.body /\ body \in T
  OBVIOUS
<1> DEFINE Def(f) == [n \in 0..N |-> IF n = 0 THEN body ELSE Next1(n, f[n - 1])]
<1>2. ASSUME NEW n \in 1..N, NEW node \in T PROVE Next1(n, node) \in T
  <2>1. CASE node # None /\ HasKey(node, segments[n])
    <3>1. node \in Nodes
      BY <2>1
    <3>2. PICK key : key = segments[n]
      OBVIOUS
    <3>3. Meant(node, key) \in Nodes
      BY <2>1, <3>1, <3>2, MeantIs, KidsType
    <3>4. QED
      BY <3>2, <3>3
  <2>2. CASE ~(node # None /\ HasKey(node, segments[n]))
    BY <2>2
  <2>3. QED
    BY <2>1, <2>2
<1>3. g \in [1..N -> [T -> T]]
  <2> HIDE DEF Next1, T, N
  <2>1. QED
    BY <1>2
<1>4. PICK f \in [0..N -> T] : f[0] = body /\ \A n \in 1..N : f[n] = g[n][f[n - 1]]
  <2>1. PICK S : S = T
    OBVIOUS
  <2>2. PICK h : h = g
    OBVIOUS
  <2>3. PICK M : M = N /\ M \in Nat
    OBVIOUS
  <2> HIDE DEF g, T, N
  <2>4. M \in Nat /\ body \in S /\ h \in [1..M -> [S -> S]]
    BY <1>1, <1>3, <2>1, <2>2, <2>3
  <2>5. \E f \in [0..M -> S] : f[0] = body /\ \A n \in 1..M : f[n] = h[n][f[n - 1]]
    BY <2>4, IterationExists, SMTT(60)
  <2>6. QED
    BY <2>1, <2>2, <2>3, <2>5
<1>5. \A n \in 1..N : f[n] = Next1(n, f[n - 1])
  <2> TAKE n \in 1..N
  <2>1. n - 1 \in 0..N
    OBVIOUS
  <2> HIDE DEF T, N
  <2>2. f[n - 1] \in T
    BY <2>1
  <2> HIDE DEF Next1
  <2>3. g[n][f[n - 1]] = Next1(n, f[n - 1])
    BY <2>2
  <2> HIDE DEF g
  <2>4. QED
    BY <1>4, <2>3
<1>6. \A n \in 0..N : n = 0 \/ n \in 1..N
  OBVIOUS
<1>7. f = Def(f)
  <2> HIDE DEF Next1, T, g, N
  <2>1. QED
    BY <1>4, <1>5, <1>6
<1>8. Target = (CHOOSE h : h = Def(h))[N]
  BY <1>1 DEF Target
<1>9. PICK h : h = CHOOSE way : way = Def(way)
  OBVIOUS
<1> HIDE DEF Def
<1>10. h = Def(h)
  BY <1>7, <1>9
<1> DEFINE Q(m) == m <= N => h[m] = f[m]
           U == {m \in Nat : Q(m)}
<1>11. h[0] = body /\ \A n \in 1..N : h[n] = Next1(n, h[n - 1])
  <2> HIDE DEF Next1
  <2>1. 0 \in 0..N /\ \A n \in 1..N : n \in 0..N /\ n # 0
    OBVIOUS
  <2>2. Def(h)[0] = body /\ \A n \in 1..N : Def(h)[n] = Next1(n, h[n - 1])
    BY <2>1 DEF Def
  <2>3. QED
    BY <1>10, <2>2
<1>12. Q(0)
  BY <1>4, <1>11
<1>13. ASSUME NEW m \in Nat, Q(m) PROVE Q(m + 1)
  <2> HIDE DEF Next1
  <2>1. SUFFICES ASSUME m + 1 <= N PROVE h[m + 1] = f[m + 1]
    OBVIOUS
  <2>2. PICK n \in 1..N : n = m + 1 /\ n - 1 = m
    BY <2>1
  <2>3. h[n - 1] = f[n - 1]
    BY <1>13, <2>2
  <2>4. QED
    BY <1>5, <1>11, <2>2, <2>3
<1>14. Q(N)
  <2> HIDE DEF Q, N
  <2>1. U \in SUBSET Nat /\ 0 \in U /\ \A m \in U : m + 1 \in U
    BY <1>12, <1>13
  <2>2. U = Nat
    <3> HIDE DEF U
    <3>1. QED
      BY <2>1, Induction
  <2>3. N \in Nat
    BY DEF N
  <2>4. QED
    BY <2>2, <2>3
<1>15. f[N] = Target
  BY <1>8, <1>9, <1>14
<1>16. QED
  BY <1>1, <1>4, <1>5, <1>15

LEMMA TrackIs ==
    ASSUME request.body \in Nodes, NEW segments, segments = path.segments,
           Len(segments) \in Nat, Target # None
    PROVE  \E f : IsTrack(segments, f)
<1> DEFINE N == Len(segments)
<1>1. PICK f \in [0..N -> Nodes \cup {None}] :
              /\ f[0] = request.body /\ f[N] = Target
              /\ \A n \in 1..N :
                    f[n] = IF /\ f[n - 1] # None /\ HasKey(f[n - 1], segments[n])
                              /\ Type[f[n - 1]] = "object"
                           THEN Meant(f[n - 1], segments[n]) ELSE None
  BY TargetsAre
<1> DEFINE Q(m) == m <= N => f[N - m] # None
           U == {m \in Nat : Q(m)}
<1>2. Q(0)
  BY <1>1
<1>3. ASSUME NEW m \in Nat, Q(m) PROVE Q(m + 1)
  <2>1. SUFFICES ASSUME m + 1 <= N PROVE f[N - (m + 1)] # None
    OBVIOUS
  <2>2. PICK n \in 1..N : n = N - m /\ n - 1 = N - (m + 1)
    <3>1. N \in Nat
      OBVIOUS
    <3> HIDE DEF N
    <3>2. N - m \in 1..N /\ (N - m) - 1 = N - (m + 1)
      BY <2>1, <3>1
    <3>3. QED
      BY <3>2
  <2>3. f[n] # None
    BY <1>3, <2>1, <2>2
  <2>4. f[n - 1] # None
    BY <1>1, <2>3
  <2>5. QED
    BY <2>2, <2>4
<1>4. ASSUME NEW n \in 0..N PROVE f[n] # None
  <2>1. U = Nat
    <3> HIDE DEF Q
    <3>1. U \in SUBSET Nat /\ 0 \in U /\ \A m \in U : m + 1 \in U
      BY <1>2, <1>3
    <3> HIDE DEF U
    <3>2. QED
      BY <3>1, Induction
  <2>2. PICK m \in Nat : m = N - n
    <3> HIDE DEF Q, U
    <3>1. n \in Nat /\ n <= N /\ N \in Nat
      OBVIOUS
    <3>2. N - n \in Nat
      BY ONLY <3>1
    <3>3. QED
      BY ONLY <3>2
  <2>3. Q(m)
    <3> HIDE DEF Q
    <3>1. QED
      BY <2>1
  <2>4. m <= N /\ N - m = n
    BY <2>2
  <2>5. QED
    BY <2>3, <2>4
<1>5. \A n \in 0..N : f[n] \in Nodes
  BY <1>1, <1>4
<1>6. f \in [0..N -> Nodes]
  BY <1>1, <1>5
<1>7. \A n \in 1..N : /\ Type[f[n - 1]] = "object" /\ HasKey(f[n - 1], segments[n])
                      /\ f[n] = Meant(f[n - 1], segments[n])
  <2> TAKE n \in 1..N
  <2>1. n \in 0..N
    OBVIOUS
  <2>2. f[n] # None
    BY <1>4, <2>1
  <2>3. QED
    BY <1>1, <2>2
<1>8. QED
  BY <1>1, <1>6, <1>7 DEF IsTrack

\* The track goes down a level with each segment, so its keys are names.
LEMMA TrackNames ==
    ASSUME NEW V \in SUBSET (Nodes \X Nat), Sound(V), <<request.body, 0>> \in V,
           NEW segments, Len(segments) \in Nat, NEW f, IsTrack(segments, f),
           NEW n \in 1..Len(segments)
    PROVE  segments[n] \in Names
<1> DEFINE N == Len(segments)
           Q(m) == m <= N => <<f[m], m>> \in V
           U == {m \in Nat : Q(m)}
<1>1. ASSUME NEW l \in 1..N, <<f[l - 1], l - 1>> \in V
      PROVE  <<f[l], l>> \in V /\ segments[l] \in Names
  <2>1. PICK node \in Nodes : node = f[l - 1] /\ <<node, l - 1>> \in V
    BY <1>1
  <2>2. Type[node] = "object" /\ HasKey(node, segments[l]) /\ f[l] = Meant(node, segments[l])
        /\ IsNested(node)
    BY <2>1 DEF IsTrack, IsNested
  <2>3. PICK i \in 1..Len(Kids[node]) :
              Kids[node][i].key = segments[l] /\ Meant(node, segments[l]) = Kids[node][i].node
    BY <2>2, MeantIs
  <2>4. PICK x \in V : x = <<node, l - 1>>
    BY <2>1
  <2>5. i \in DOMAIN Kids[node] /\ x[1] = node /\ x[2] + 1 = l
    BY <2>4, KidsType
  <2>6. Kids[node][i].key \in Names /\ <<Kids[node][i].node, l>> \in V
    BY <2>2, <2>5 DEF Sound
  <2>7. QED
    BY <2>2, <2>3, <2>6
<1>2. Q(0)
  BY DEF IsTrack
<1>3. ASSUME NEW m \in Nat, Q(m) PROVE Q(m + 1)
  <2>1. SUFFICES ASSUME m + 1 <= N PROVE <<f[m + 1], m + 1>> \in V
    OBVIOUS
  <2>2. PICK l \in 1..N : l = m + 1 /\ l - 1 = m
    BY <2>1
  <2>3. QED
    BY <1>1, <1>3, <2>1, <2>2
<1>4. U = Nat
  <2> HIDE DEF Q
  <2>1. U \in SUBSET Nat /\ 0 \in U /\ \A m \in U : m + 1 \in U
    BY <1>2, <1>3
  <2> HIDE DEF U
  <2>2. QED
    BY <2>1, Induction
<1>5. PICK m \in Nat : m = n - 1
  OBVIOUS
<1>6. Q(m)
  <2> HIDE DEF Q
  <2>1. QED
    BY <1>4
<1>7. n - 1 = m /\ m <= N
  BY <1>5
<1>8. <<f[n - 1], n - 1>> \in V
  BY <1>6, <1>7
<1>9. QED
  BY <1>1, <1>8

\* A way along the track leads through the objects that stand for its nodes.
LEMMA WayStands ==
    ASSUME NEW db, NEW R \in Relations, Closed(db, R), NEW root,
           <<root, request.body>> \in R,
           NEW segments, Len(segments) \in Nat, NEW f, IsTrack(segments, f),
           \A i \in 1..Len(segments) : segments[i] \in Names,
           NEW n \in 1..Len(segments), NEW way \in [1..n -> ObjPtr],
           IsWay(db, root, segments, way)
    PROVE  <<db.obj[way[n]][segments[n]], f[n]>> \in R
<1> DEFINE N == Len(segments)
           Q(m) == m + 1 \in 1..n => <<way[m + 1], f[m]>> \in R
           U == {m \in Nat : Q(m)}
<1>1. ASSUME NEW l \in 1..n, <<way[l], f[l - 1]>> \in R
      PROVE  <<db.obj[way[l]][segments[l]], f[l]>> \in R
  <2>1. l \in 1..N /\ l - 1 \in 0..N
    OBVIOUS
  <2>2. PICK node \in Nodes : node = f[l - 1]
    BY <2>1 DEF IsTrack
  <2>3. PICK name \in Names : name = segments[l]
    BY <2>1
  <2>4. Type[node] = "object" /\ HasKey(node, name) /\ f[l] = Meant(node, name)
    BY <2>1, <2>2, <2>3 DEF IsTrack
  <2>5. PICK p : p = way[l]
    OBVIOUS
  <2>6. <<db.obj[p][name], Meant(node, name)>> \in R
    BY <1>1, <2>2, <2>4, <2>5, MemberStands
  <2>7. QED
    BY <2>3, <2>4, <2>5, <2>6
<1>2. Q(0)
  <2>1. way[1] = root
    BY DEF IsWay
  <2>2. f[0] = request.body
    BY DEF IsTrack
  <2>3. <<way[1], f[0]>> \in R
    BY <2>1, <2>2
  <2>4. 0 + 1 = 1
    OBVIOUS
  <2>5. QED
    BY <2>3, <2>4
<1>3. ASSUME NEW m \in Nat, Q(m) PROVE Q(m + 1)
  <2>1. SUFFICES ASSUME m + 1 + 1 \in 1..n PROVE <<way[m + 1 + 1], f[m + 1]>> \in R
    OBVIOUS
  <2>2. PICK l \in 1..n : l = m + 1 /\ l - 1 = m /\ l + 1 \in 1..n
    BY <2>1
  <2>3. <<db.obj[way[l]][segments[l]], f[l]>> \in R
    BY <1>1, <1>3, <2>2
  <2>4. db.obj[way[l]][segments[l]] = way[l + 1]
    BY <2>2 DEF IsWay
  <2>5. QED
    BY <2>2, <2>3, <2>4
<1>4. U = Nat
  <2> HIDE DEF Q
  <2>1. U \in SUBSET Nat /\ 0 \in U /\ \A m \in U : m + 1 \in U
    BY <1>2, <1>3
  <2> HIDE DEF U
  <2>2. QED
    BY <2>1, Induction
<1>5. PICK m \in Nat : m = n - 1 /\ m + 1 = n
  OBVIOUS
<1>6. Q(m)
  <2> HIDE DEF Q
  <2>1. QED
    BY <1>4
<1>7. n \in 1..n
  OBVIOUS
<1>8. QED
  BY <1>1, <1>5, <1>6, <1>7

\* A walk along keys of the tree comes to the scalar at their end.
LEMMA WalkFinds ==
    ASSUME NEW db \in Db, NEW R \in Relations, Closed(db, R), NEW root,
           <<root, request.body>> \in R,
           NEW segments, Len(segments) \in Nat, DOMAIN segments = 1..Len(segments),
           NEW f, IsTrack(segments, f),
           \A i \in 1..Len(segments) : segments[i] \in Names,
           Type[Target] = "scalar",
           NEW outcome, IsWalk(db, root, segments, outcome)
    PROVE  outcome = IF Size[Text[Target]] > max_bytes
                     THEN Outcome("VALUE_TOO_LARGE", None, Len(segments), None)
                     ELSE Outcome("OK", Text[Target], None, None)
<1> DEFINE N == Len(segments)
<1>1. PICK n \in 1..N : \E way \in [1..n -> ObjPtr] :
         /\ IsWay(db, root, segments, way)
         /\ ~GoesOn(db.obj[way[n]][segments[n]], segments, n)
         /\ outcome = Stop(db, way[n], segments, n)
  BY DEF IsWalk
<1>2. PICK way \in [1..n -> ObjPtr] :
         /\ IsWay(db, root, segments, way)
         /\ ~GoesOn(db.obj[way[n]][segments[n]], segments, n)
         /\ outcome = Stop(db, way[n], segments, n)
  BY <1>1
<1>3. PICK value : value = db.obj[way[n]][segments[n]]
  OBVIOUS
<1>4. <<value, f[n]>> \in R
  BY <1>2, <1>3, WayStands
<1>5. value \in Val /\ f[n] \in Nodes
  BY <1>4 DEF Relations
<1>6. n \in 1..n /\ way[n] \in ObjPtr /\ segments[n] \in Names
  BY <1>2
<1>7. n = N
  <2>1. SUFFICES ASSUME n # N PROVE FALSE
    OBVIOUS
  <2>2. N \in Nat
    OBVIOUS
  <2> HIDE DEF N
  <2>3. n < N /\ n + 1 \in 1..N /\ (n + 1) - 1 = n
    BY <2>1, <2>2
  <2> USE DEF N
  <2>4. Type[f[n]] = "object"
    BY <2>3 DEF IsTrack
  <2>5. value \in ObjPtr
    BY <1>4, <2>4 DEF Closed, OfKind, IsNested
  <2>6. QED
    BY <1>2, <1>3, <2>3, <2>5 DEF GoesOn
<1>8. f[n] = Target
  BY <1>7 DEF IsTrack
<1>9. value = Text[Target]
  BY <1>4, <1>8 DEF Closed, IsNested
<1>10. value # None
  BY <1>5, StoreAssumption DEF Val, Ptr
<1>11. entity_exist(db, way[n])
  BY <1>3, <1>6, <1>10 DEF entity_exist, NoMembers
<1>12. QED
  BY <1>2, <1>3, <1>7, <1>9, <1>10, <1>11 DEF Stop

LEMMA FoundAsSent ==
    ASSUME InitInv, QueryInv, FineInv, SentInv, QueryIsWalk
    PROVE  SentIsFound
<1> SUFFICES ASSUME at = "answered", AsksForSent, result.rc \notin Unlucky
             PROVE  CASE result.rc = "OK" -> result.value = Text[Target]
                      [] result.rc = "PATH_TOO_DEEP" -> Len(path.segments) > max_depth
                      [] result.rc = "VALUE_TOO_LARGE" -> Size[Text[Target]] > max_bytes
                      [] OTHER -> result.rc \in Unlucky
  BY DEF SentIsFound, Unlucky
<1>1. Accepted /\ Sent /\ ~request.shared /\ snap = store /\ path.root = answer.ptr
      /\ path.root \in ObjPtr /\ path.whole /\ path.segments # <<>>
      /\ Target # None /\ Type[Target] = "scalar"
  BY DEF AsksForSent, Sent, InitInv, NothingUntilCommitted
<1>2. snap = view /\ snap \in Db
  BY <1>1 DEF SentInv, InitInv, InitTypeOK
<1>3. PICK R \in Relations : Closed(view, R) /\ <<answer.ptr, request.body>> \in R
  BY <1>1 DEF SentInv
<1>4. PICK V \in SUBSET (Nodes \X Nat) : Sound(V) /\ <<request.body, 0>> \in V
  BY <1>1 DEF FineInv, Fine
<1>5. PICK segments : segments = path.segments
  OBVIOUS
<1>6. path \in Paths /\ segments \in Seq(Names \cup {Blank}) /\ Len(segments) \in Nat
      /\ DOMAIN segments = 1..Len(segments)
  <2>1. path \in Paths
    BY DEF QueryInv, QueryTypeOK
  <2>2. QED
    BY <1>5, <2>1, PathType, LenProperties
<1>7. request.body \in Nodes
  BY <1>3 DEF Relations
<1>8. PICK f : IsTrack(segments, f)
  BY <1>1, <1>5, <1>6, <1>7, TrackIs
<1>9. \A i \in 1..Len(segments) : segments[i] \in Names
  BY <1>4, <1>6, <1>8, TrackNames
<1>10. Syntax(segments) = IF Len(segments) > max_depth THEN "PATH_TOO_DEEP" ELSE "OK"
  BY <1>1, <1>5, <1>6, <1>9, QueryAssumption DEF Syntax
<1>11. IsExpected(snap, path, result)
  BY DEF QueryIsWalk
<1>12. CASE Len(segments) > max_depth
  <2>1. result = Outcome("PATH_TOO_DEEP", None, None, None)
    BY <1>1, <1>5, <1>10, <1>11, <1>12 DEF IsExpected
  <2>2. result.rc = "PATH_TOO_DEEP"
    BY <2>1 DEF Outcome
  <2>3. QED
    BY <1>5, <1>12, <2>2
<1>13. CASE ~(Len(segments) > max_depth)
  <2>1. path.root # None /\ path.root \notin SetPtr
    BY <1>1, StoreAssumption
  <2>2. IsWalk(snap, path.root, segments, result)
    BY <1>1, <1>5, <1>10, <1>11, <1>13, <2>1 DEF IsExpected
  <2>3. PICK db : db = snap
    OBVIOUS
  <2>4. PICK root : root = path.root
    OBVIOUS
  <2>5. PICK outcome : outcome = result
    OBVIOUS
  <2>6. db \in Db /\ Closed(db, R) /\ <<root, request.body>> \in R
        /\ IsWalk(db, root, segments, outcome)
    BY <1>1, <1>2, <1>3, <2>2, <2>3, <2>4, <2>5
  <2>7. outcome = IF Size[Text[Target]] > max_bytes
                  THEN Outcome("VALUE_TOO_LARGE", None, Len(segments), None)
                  ELSE Outcome("OK", Text[Target], None, None)
    BY <1>1, <1>6, <1>8, <1>9, <2>6, WalkFinds
  <2>8. CASE Size[Text[Target]] > max_bytes
    BY <2>5, <2>7, <2>8 DEF Outcome
  <2>9. CASE ~(Size[Text[Target]] > max_bytes)
    BY <2>5, <2>7, <2>9 DEF Outcome
  <2>10. QED
    BY <2>8, <2>9
<1>14. QED
  BY <1>12, <1>13

\* Whatever tree an init has stored, and whichever of its scalars a query asks
\* for by the keys that lead to it, the query finds its text, unless the path or
\* the value is longer than the limits say.
THEOREM SentAreFound == Spec => []SentIsFound
<1>1. InitInv /\ QueryInv /\ TreeInv /\ QueryIsWalk => SentIsFound
  BY FoundAsSent DEF TreeInv
<1>2. QED
  BY <1>1, TreeIsInvariant, Inductive, QueryWalks, PTL

=============================================================================
