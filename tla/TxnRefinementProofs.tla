------------------------ MODULE TxnRefinementProofs ------------------------
(***************************************************************************)
(* TxnServer implements AtomicStore, for every set of connections and      *)
(* requests, every database, timeout and combination of faults, and        *)
(* however deep batches are nested.                                        *)
(*                                                                         *)
(* The first part shows that RunAll, the meaning of a request, is a sound  *)
(* recursion, and what it returns.  The second states the invariant: a     *)
(* thread's stack of handlers, run to its end, does what the whole request *)
(* does on the database the thread began with.  The third takes the        *)
(* actions one by one: each keeps that course and is a step of AtomicStore *)
(* or none.                                                                *)
(***************************************************************************)
EXTENDS TxnRefinement, TxnProofs, InductionLemmas

-----------------------------------------------------------------------------
(***************************************************************************)
(* The operations that are left of a sequence.                             *)
(***************************************************************************)
From(s, i) == SubSeq(s, i, Len(s))

LEMMA FromParts ==
    ASSUME NEW S, NEW s \in Seq(S), NEW i \in 1..(Len(s) + 1)
    PROVE  /\ From(s, i) \in Seq(S) /\ Len(From(s, i)) = Len(s) + 1 - i
           /\ i = Len(s) + 1 => From(s, i) = <<>>
           /\ i # Len(s) + 1 => /\ From(s, i) # <<>>
                                /\ i \in 1..Len(s)
                                /\ Head(From(s, i)) = s[i]
                                /\ Tail(From(s, i)) = From(s, i + 1)
           /\ i = 1 => From(s, i) = s
<1>1. Len(s) \in Nat /\ i \in Nat /\ \A j \in 1..Len(s) : s[j] \in S
  BY LenProperties, ElementOfSeq
<1>2. From(s, i) \in Seq(S) /\ Len(From(s, i)) = Len(s) + 1 - i
  <2>1. \A j \in i..Len(s) : s[j] \in S
    BY <1>1
  <2>2. /\ SubSeq(s, i, Len(s)) \in Seq(S)
        /\ Len(SubSeq(s, i, Len(s))) = IF i <= Len(s) THEN Len(s) - i + 1 ELSE 0
    BY <1>1, <2>1, SubSeqProperties
  <2>3. (IF i <= Len(s) THEN Len(s) - i + 1 ELSE 0) = Len(s) + 1 - i
    BY <1>1
  <2>4. QED
    BY <2>2, <2>3 DEF From
<1>3. i = Len(s) + 1 => From(s, i) = <<>>
  BY <1>1, SubSeqEmpty DEF From
<1>4. ASSUME i # Len(s) + 1
      PROVE  /\ From(s, i) # <<>> /\ i \in 1..Len(s)
             /\ Head(From(s, i)) = s[i] /\ Tail(From(s, i)) = From(s, i + 1)
  <2>1. i \in 1..Len(s) /\ Len(s) \in i..Len(s)
    BY <1>1, <1>4
  <2>2. Len(From(s, i)) # 0
    BY <1>1, <1>2, <2>1
  <2>3. QED
    BY <2>1, <2>2, EmptySeq, HeadTailOfSubSeq DEF From
<1>5. i = 1 => From(s, i) = s
  <2>1. SUFFICES ASSUME i = 1 PROVE SubSeq(s, 1, Len(s)) = s
    BY DEF From
  <2>2. \A j \in 1..Len(s) : s[j] \in S
    BY <1>1
  <2>3. /\ SubSeq(s, 1, Len(s)) \in Seq(S)
        /\ Len(SubSeq(s, 1, Len(s))) = Len(s)
    BY <1>2, <1>1, <2>1 DEF From
  <2>4. \A j \in 1..(Len(s) - 1 + 1) : SubSeq(s, 1, Len(s))[j] = s[1 + j - 1]
    BY <1>1, <2>2, SubSeqProperties
  <2>5. \A j \in 1..Len(s) : SubSeq(s, 1, Len(s))[j] = s[j]
    <3> TAKE j \in 1..Len(s)
    <3>1. j \in 1..(Len(s) - 1 + 1) /\ 1 + j - 1 = j
      BY <1>1
    <3>2. QED
      BY <2>4, <3>1
  <2>6. QED
    BY <2>3, <2>5, SeqEqual
<1>6. QED
  BY <1>2, <1>3, <1>4, <1>5

\* What the run of a sequence of operations runs: the rest of it, and the batch
\* that its first operation carries.
Under == [ops \in Seq(Op) |->
            {o \in Seq(Op) :
                /\ ops # <<>>
                /\ o = Tail(ops)
                   \/ (IsBatch(Head(ops)) /\ o = Body[Head(ops).body])}]

\* Batches are nested in finite depth, and they are finite.
LEMMA OpsGrounded == Grounded(Seq(Op), Under)
<1> SUFFICES ASSUME NEW S \in SUBSET Seq(Op), S # {}
             PROVE  \E x \in S : Under[x] \cap S = {}
  BY DEF Grounded
<1> DEFINE Within(b) == {o \in S : \E i \in 1..(Len(Body[b]) + 1) : o = From(Body[b], i)}
           B == {b \in Bodies : Within(b) # {}}
           Shortest(x, U) == x \in U /\ \A o \in U : Len(x) <= Len(o)
<1>1. ASSUME NEW U \in SUBSET S, U # {} PROVE \E x \in S : Shortest(x, U)
  <2> DEFINE L == {Len(o) : o \in U}
  <2>1. L \in SUBSET Nat /\ L # {}
    BY <1>1, LenProperties
  <2>2. PICK n \in L : \A m \in L : n <= m
    <3> HIDE DEF L
    <3>1. QED
      BY <2>1, LeastElement
  <2>3. QED
    BY <2>2
<1>2. ASSUME NEW x \in S, x # <<>>
      PROVE  /\ Tail(x) \in Seq(Op) /\ Len(x) \in Nat /\ Len(Tail(x)) = Len(x) - 1
             /\ Head(x) \in Op /\ Head(x).body \in Bodies
  <2>1. x \in Seq(Op)
    OBVIOUS
  <2>2. /\ Tail(x) \in Seq(Op) /\ Head(x) \in Op
        /\ Len(x) \in Nat /\ Len(Tail(x)) = Len(x) - 1
    BY <1>2, <2>1, HeadTailProperties, LenProperties
  <2>3. Head(x).body \in Bodies
    BY <2>2 DEF Op
  <2>4. QED
    BY <2>2, <2>3
<1>3. CASE B = {}
  <2>1. PICK x \in S : Shortest(x, S)
    BY <1>1
  <2>2. SUFFICES ASSUME NEW o \in Under[x], o \in S PROVE FALSE
    OBVIOUS
  <2>3. x # <<>> /\ (o = Tail(x) \/ (IsBatch(Head(x)) /\ o = Body[Head(x).body]))
    BY <2>2 DEF Under
  <2>4. o # Tail(x)
    BY <1>2, <2>1, <2>2, <2>3
  <2>5. PICK b \in Bodies : o = Body[b]
    BY <1>2, <2>3, <2>4
  <2>6. o = From(Body[b], 1) /\ 1 \in 1..(Len(Body[b]) + 1)
    <3>1. Body[b] \in Seq(Op) /\ Len(Body[b]) \in Nat
      BY BodyAssumption, LenProperties
    <3>2. 1 \in 1..(Len(Body[b]) + 1)
      BY <3>1
    <3>3. QED
      BY <2>5, <3>1, <3>2, FromParts
  <2>7. b \in B
    BY <2>2, <2>6
  <2>8. QED
    BY <1>3, <2>7
<1>4. CASE B # {}
  <2>1. PICK b \in B : \A i \in 1..Len(Body[b]) :
                          Body[b][i].kind \in BatchKinds => Body[b][i].body \notin B
    <3>1. B \in SUBSET Bodies
      OBVIOUS
    <3> HIDE DEF B
    <3>2. QED
      BY <1>4, <3>1, NestingAssumption
  <2>2. PICK x \in S : Shortest(x, Within(b))
    <3>1. Within(b) \in SUBSET S /\ Within(b) # {}
      OBVIOUS
    <3> HIDE DEF Within, Shortest
    <3>2. QED
      BY <1>1, <3>1
  <2>3. PICK i \in 1..(Len(Body[b]) + 1) : x = From(Body[b], i)
    BY <2>2
  <2>4. Body[b] \in Seq(Op) /\ Len(Body[b]) \in Nat
    BY BodyAssumption, LenProperties
  <2>5. SUFFICES ASSUME NEW o \in Under[x], o \in S PROVE FALSE
    OBVIOUS
  <2>6. x # <<>> /\ (o = Tail(x) \/ (IsBatch(Head(x)) /\ o = Body[Head(x).body]))
    BY <2>5 DEF Under
  <2>7. /\ i \in 1..Len(Body[b]) /\ Head(x) = Body[b][i]
        /\ Tail(x) = From(Body[b], i + 1) /\ i + 1 \in 1..(Len(Body[b]) + 1)
    <3>1. /\ i = Len(Body[b]) + 1 => From(Body[b], i) = <<>>
          /\ i # Len(Body[b]) + 1 =>
                /\ i \in 1..Len(Body[b])
                /\ Head(From(Body[b], i)) = Body[b][i]
                /\ Tail(From(Body[b], i)) = From(Body[b], i + 1)
      BY <2>3, <2>4, FromParts
    <3>2. QED
      BY <2>3, <2>4, <2>6, <3>1
  <2>8. o # Tail(x)
    <3>1. o = Tail(x) => o \in Within(b)
      BY <2>5, <2>7
    <3>2. QED
      BY <1>2, <2>2, <2>6, <3>1
  <2>9. IsBatch(Head(x)) /\ o = Body[Head(x).body]
    BY <2>6, <2>8
  <2>10. PICK d \in Bodies : d = Head(x).body
    BY <1>2, <2>6
  <2>11. d \notin B
    BY <2>1, <2>7, <2>9, <2>10 DEF IsBatch
  <2>12. o = From(Body[d], 1) /\ 1 \in 1..(Len(Body[d]) + 1)
    <3>1. Body[d] \in Seq(Op) /\ Len(Body[d]) \in Nat
      BY BodyAssumption, LenProperties
    <3>2. 1 \in 1..(Len(Body[d]) + 1)
      BY <3>1
    <3>3. QED
      BY <2>9, <2>10, <3>1, <3>2, FromParts
  <2>13. d \in B
    BY <2>5, <2>12
  <2>14. QED
    BY <2>11, <2>13
<1>5. QED
  BY <1>3, <1>4

-----------------------------------------------------------------------------
(***************************************************************************)
(* The run of a sequence of operations.                                    *)
(***************************************************************************)
Run == [Seq(Op) -> [Acc -> Acc]]

LEMMA AccParts ==
    ASSUME NEW acc \in Acc
    PROVE  /\ acc = [db |-> acc.db, calls |-> acc.calls, results |-> acc.results,
                     failed |-> acc.failed]
           /\ acc.db \in Db /\ acc.calls \in 0..MaxCalls /\ acc.results \in Seq(Result)
           /\ acc.failed \in Nat \cup {None}
BY DEF Acc

LEMMA AccIs ==
    ASSUME NEW db \in Db, NEW n \in 0..MaxCalls, NEW results \in Seq(Result),
           NEW s \in Nat \cup {None}
    PROVE  [db |-> db, calls |-> n, results |-> results, failed |-> s] \in Acc
BY DEF Acc

LEMMA AccResults ==
    ASSUME NEW acc \in Acc, NEW results \in Seq(Result)
    PROVE  /\ [acc EXCEPT !.results = results] \in Acc
           /\ [acc EXCEPT !.results = results]
                 = [db |-> acc.db, calls |-> acc.calls, results |-> results,
                    failed |-> acc.failed]
BY DEF Acc

LEMMA FailWithType ==
    ASSUME NEW acc \in Acc, NEW s \in Nat
    PROVE  FailWith(acc, s) \in Acc /\ FailWith(acc, s).failed = s
           /\ FailWith(acc, s).db = acc.db
BY DEF Acc, FailWith

LEMMA StartType ==
    ASSUME NEW db \in Db
    PROVE  Start(db) \in Acc /\ Start(db).failed = None /\ Start(db).db = db
<1>1. MaxCalls \in Nat
  BY ServerAssumption
<1>2. <<>> \in Seq(Result)
  BY EmptySeq
<1>3. QED
  BY <1>1, <1>2 DEF Start, Acc

\* A batch as an operation of another one: run says what it does.
Nested(R, acc, op) ==
    [R[Body[op.body]][[acc EXCEPT !.results = <<>>]]
        EXCEPT !.results = Append(acc.results, Empty(200))]

LEMMA NestedType ==
    ASSUME NEW R \in Run, NEW acc \in Acc, NEW op \in Op
    PROVE  Nested(R, acc, op) \in Acc
<1>1. [acc EXCEPT !.results = <<>>] \in Acc
  BY AccResults, EmptySeq
<1>2. Body[op.body] \in Seq(Op)
  BY BodyAssumption DEF Op
<1>3. R[Body[op.body]][[acc EXCEPT !.results = <<>>]] \in Acc
  BY <1>1, <1>2 DEF Run
<1>4. Append(acc.results, Empty(200)) \in Seq(Result)
  BY AccParts, EmptyType, AppendProperties
<1>5. QED
  BY <1>3, <1>4, AccResults DEF Nested

\* A route handler as one operation.
Handled(c, acc, op) ==
    LET out == Handle(acc.db, op, Fresh[c][acc.calls])
    IN [db |-> out.db, calls |-> acc.calls + 1,
        results |-> Append(acc.results, out.result),
        failed |-> IF out.result.status >= 400 THEN out.result.status ELSE None]

LEMMA HandledType ==
    ASSUME NEW c \in Conns, NEW acc \in Acc, NEW op \in Op, acc.calls # MaxCalls
    PROVE  /\ Handled(c, acc, op) \in Acc
           /\ Handle(acc.db, op, Fresh[c][acc.calls]) \in Outcomes
<1>1. /\ acc.db \in Db /\ acc.calls \in 0..MaxCalls /\ acc.results \in Seq(Result)
      /\ acc.calls + 1 \in 0..MaxCalls
  BY AccParts, ServerAssumption
<1>2. Fresh[c][acc.calls] \in New
  BY <1>1, ServerAssumption DEF New
<1>3. PICK out : out = Handle(acc.db, op, Fresh[c][acc.calls])
  OBVIOUS
<1>4. out \in Outcomes
  BY <1>1, <1>2, <1>3, HandleType
<1>5. out.db \in Db /\ out.result \in Result /\ out.result.status \in Nat
  BY <1>4 DEF Outcomes, Result
<1>6. Append(acc.results, out.result) \in Seq(Result)
  BY <1>1, <1>5, AppendProperties
<1>7. (IF out.result.status >= 400 THEN out.result.status ELSE None) \in Nat \cup {None}
  BY <1>5
<1>8. [db |-> out.db, calls |-> acc.calls + 1,
       results |-> Append(acc.results, out.result),
       failed |-> IF out.result.status >= 400 THEN out.result.status ELSE None] \in Acc
  BY <1>1, <1>5, <1>6, <1>7 DEF Acc
<1>9. QED
  BY <1>3, <1>4, <1>8 DEF Handled

\* What one operation does, case by case.
LEMMA OperateIs ==
    ASSUME NEW c, NEW R, NEW acc, NEW op
    PROVE  Operate(c, R, acc, op) =
             IF IsBatch(op)
             THEN IF BatchRefused(op) THEN FailWith(acc, 400) ELSE Nested(R, acc, op)
             ELSE IF acc.calls = MaxCalls THEN FailWith(acc, 500) ELSE Handled(c, acc, op)
BY DEF Operate, Nested, Handled

LEMMA OperateType ==
    ASSUME NEW c \in Conns, NEW R \in Run, NEW acc \in Acc, NEW op \in Op
    PROVE  Operate(c, R, acc, op) \in Acc
<1>1. FailWith(acc, 400) \in Acc /\ FailWith(acc, 500) \in Acc
  BY FailWithType
<1>2. Nested(R, acc, op) \in Acc
  BY NestedType
<1>3. acc.calls # MaxCalls => Handled(c, acc, op) \in Acc
  BY HandledType
<1>4. QED
  BY <1>1, <1>2, <1>3, OperateIs

\* Substitution keeps the operation's route and its array of operations.
LEMMA SubstituteKeeps ==
    ASSUME NEW op \in Op, NEW results \in Seq(Result), Resolvable(op, results)
    PROVE  /\ Substitute(op, results) \in Op
           /\ Substitute(op, results).kind = op.kind
           /\ Substitute(op, results).body = op.body
<1>1. Substitute(op, results).body = op.body
  BY DEF Substitute, Op
<1>2. QED
  BY <1>1, SubstituteType

\* One turn of the run: the definition that RunAll solves.
Turn(c, R, ops, acc) ==
    IF ops = <<>> \/ acc.failed # None THEN acc
    ELSE IF ~Resolvable(Head(ops), acc.results) THEN FailWith(acc, 400)
    ELSE R[Tail(ops)][Operate(c, R, acc, Substitute(Head(ops), acc.results))]

LEMMA TurnType ==
    ASSUME NEW c \in Conns, NEW R \in Run, NEW ops \in Seq(Op), NEW acc \in Acc
    PROVE  Turn(c, R, ops, acc) \in Acc
<1>1. FailWith(acc, 400) \in Acc
  BY FailWithType
<1>2. ASSUME ops # <<>>, Resolvable(Head(ops), acc.results)
      PROVE  R[Tail(ops)][Operate(c, R, acc, Substitute(Head(ops), acc.results))] \in Acc
  <2>1. Head(ops) \in Op /\ Tail(ops) \in Seq(Op)
    BY <1>2, HeadTailProperties
  <2>2. acc.results \in Seq(Result)
    BY AccParts
  <2>3. Substitute(Head(ops), acc.results) \in Op
    BY <1>2, <2>1, <2>2, SubstituteKeeps
  <2>4. Operate(c, R, acc, Substitute(Head(ops), acc.results)) \in Acc
    BY <2>3, OperateType
  <2>5. QED
    BY <2>1, <2>4 DEF Run
<1>3. QED
  BY <1>1, <1>2 DEF Turn

\* A turn needs the run of what is under the operations only.
LEMMA TurnLocal ==
    ASSUME NEW c \in Conns, NEW ops \in Seq(Op), NEW f, NEW g,
           \A o \in Under[ops] : f[o] = g[o], NEW acc \in Acc
    PROVE  Turn(c, f, ops, acc) = Turn(c, g, ops, acc)
<1>1. SUFFICES ASSUME ops # <<>>, Resolvable(Head(ops), acc.results)
               PROVE  f[Tail(ops)][
                          Operate(c, f, acc, Substitute(Head(ops), acc.results))]
                        = g[Tail(ops)][
                              Operate(c, g, acc, Substitute(Head(ops), acc.results))]
  BY DEF Turn
<1>2. PICK op : op = Substitute(Head(ops), acc.results)
  OBVIOUS
<1>3. Head(ops) \in Op /\ Tail(ops) \in Seq(Op) /\ acc.results \in Seq(Result)
  BY <1>1, HeadTailProperties, AccParts
<1>4. op \in Op /\ op.kind = Head(ops).kind /\ op.body = Head(ops).body
  BY <1>1, <1>2, <1>3, SubstituteKeeps
<1>5. f[Tail(ops)] = g[Tail(ops)]
  BY <1>1, <1>3 DEF Under
<1>6. IsBatch(op) => f[Body[op.body]] = g[Body[op.body]]
  <2>1. Body[op.body] \in Seq(Op)
    BY <1>4, BodyAssumption DEF Op
  <2>2. IsBatch(op) => Body[op.body] \in Under[ops]
    BY <1>1, <1>4, <2>1 DEF Under, IsBatch
  <2>3. QED
    BY <2>2
<1>7. IsBatch(op) => Nested(f, acc, op) = Nested(g, acc, op)
  BY <1>6 DEF Nested
<1>8. Operate(c, f, acc, op) = Operate(c, g, acc, op)
  BY <1>7, OperateIs
<1>9. QED
  BY <1>2, <1>5, <1>8

\* The recursion of RunAll is sound: it says what every run does.
LEMMA RunAllIs ==
    ASSUME NEW c \in Conns
    PROVE  /\ RunAll(c) \in Run
           /\ \A ops \in Seq(Op) : \A acc \in Acc :
                 RunAll(c)[ops][acc] = Turn(c, RunAll(c), ops, acc)
<1> DEFINE Def(f) == [ops \in Seq(Op) |-> [acc \in Acc |-> Turn(c, f, ops, acc)]]
           G == [ops \in Seq(Op) |->
                    [f \in Run |-> [acc \in Acc |-> Turn(c, f, ops, acc)]]]
<1>1. RunAll(c) = CHOOSE f : f = Def(f)
  BY DEF RunAll, Turn
<1>2. PICK T : T = [Acc -> Acc]
  OBVIOUS
<1>3. Run = [Seq(Op) -> T]
  BY <1>2 DEF Run
<1>4. G \in [Seq(Op) -> [Run -> T]]
  BY <1>2, TurnType
<1>5. PICK a : a \in T
  <2>1. [acc \in Acc |-> acc] \in T
    BY <1>2
  <2>2. QED
    BY <2>1
<1>6. Under \in [Seq(Op) -> SUBSET Seq(Op)]
  BY DEF Under
<1>7. Local(Seq(Op), T, Under, G)
  <2>1. ASSUME NEW ops \in Seq(Op), NEW f \in Run, NEW g \in Run,
               \A o \in Under[ops] : f[o] = g[o]
        PROVE  G[ops][f] = G[ops][g]
    <3>1. \A acc \in Acc : Turn(c, f, ops, acc) = Turn(c, g, ops, acc)
      BY <2>1, TurnLocal
    <3>2. QED
      BY <3>1
  <2> HIDE DEF G
  <2>2. QED
    BY <1>3, <2>1 DEF Local
<1>8. PICK f \in Run : \A ops \in Seq(Op) : f[ops] = G[ops][f]
  <2> HIDE DEF G
  <2>1. IsRecursion(Seq(Op), T, Under, G)
    BY <1>3, <1>4, <1>5, <1>6, <1>7, OpsGrounded DEF IsRecursion
  <2>2. \E f \in [Seq(Op) -> T] : \A ops \in Seq(Op) : f[ops] = G[ops][f]
    BY <2>1, RecursionExists
  <2>3. QED
    BY <1>3, <2>2
<1>9. f = Def(f)
  <2>1. f = [ops \in Seq(Op) |-> f[ops]]
    BY DEF Run
  <2>2. \A ops \in Seq(Op) : f[ops] = [acc \in Acc |-> Turn(c, f, ops, acc)]
    BY <1>8
  <2>3. QED
    BY <2>1, <2>2
<1>10. RunAll(c) = Def(RunAll(c))
  <2> HIDE DEF Def
  <2>1. QED
    BY <1>1, <1>9
<1>11. PICK R : R = RunAll(c)
  OBVIOUS
<1> HIDE DEF G
<1>12. R = [ops \in Seq(Op) |-> [acc \in Acc |-> Turn(c, R, ops, acc)]]
  BY <1>10, <1>11
<1>13. R = f
  <2>1. \A ops \in Seq(Op) : R[ops] = f[ops]
    <3> DEFINE S == {ops \in Seq(Op) : R[ops] # f[ops]}
    <3>1. SUFFICES ASSUME S # {} PROVE FALSE
      OBVIOUS
    <3>2. PICK ops \in S : Under[ops] \cap S = {}
      <4>1. S \in SUBSET Seq(Op)
        OBVIOUS
      <4> HIDE DEF S
      <4>2. QED
        BY <3>1, <4>1, OpsGrounded DEF Grounded
    <3>3. \A o \in Under[ops] : R[o] = f[o]
      BY <3>2 DEF Under
    <3>4. ops \in Seq(Op) /\ R[ops] # f[ops]
      BY <3>2
    <3>5. \A acc \in Acc : Turn(c, R, ops, acc) = Turn(c, f, ops, acc)
      BY <3>3, <3>4, TurnLocal
    <3>6. R[ops] = [acc \in Acc |-> Turn(c, R, ops, acc)]
      BY <1>12, <3>4
    <3>7. f[ops] = [acc \in Acc |-> Turn(c, f, ops, acc)]
      BY <1>9, <3>4
    <3>8. QED
      BY <3>4, <3>5, <3>6, <3>7
  <2>2. R = [ops \in Seq(Op) |-> R[ops]] /\ f = [ops \in Seq(Op) |-> f[ops]]
    BY <1>12 DEF Run
  <2>3. QED
    BY <2>1, <2>2
<1>14. QED
  <2>1. \A ops \in Seq(Op) : \A acc \in Acc : R[ops][acc] = Turn(c, R, ops, acc)
    BY <1>12
  <2>2. R \in Run
    BY <1>13
  <2>3. QED
    BY <1>11, <2>1, <2>2

\* The run of what is left of a sequence, one operation at a time.
LEMMA RunFrom ==
    ASSUME NEW c \in Conns, NEW s \in Seq(Op), NEW i \in 1..(Len(s) + 1),
           NEW acc \in Acc
    PROVE  /\ RunAll(c)[From(s, i)][acc] \in Acc
           /\ i = Len(s) + 1 \/ acc.failed # None => RunAll(c)[From(s, i)][acc] = acc
           /\ i # Len(s) + 1 /\ acc.failed = None /\ Resolvable(s[i], acc.results) =>
                 RunAll(c)[From(s, i)][acc]
                    = RunAll(c)[From(s, i + 1)][
                          Operate(c, RunAll(c), acc, Substitute(s[i], acc.results))]
<1>1. From(s, i) \in Seq(Op)
      /\ (i = Len(s) + 1 => From(s, i) = <<>>)
      /\ (i # Len(s) + 1 => /\ From(s, i) # <<>> /\ Head(From(s, i)) = s[i]
                            /\ Tail(From(s, i)) = From(s, i + 1))
  BY FromParts
<1>2. /\ RunAll(c) \in Run
      /\ RunAll(c)[From(s, i)][acc] = Turn(c, RunAll(c), From(s, i), acc)
  BY <1>1, RunAllIs
<1>3. RunAll(c)[From(s, i)][acc] \in Acc
  BY <1>1, <1>2 DEF Run
<1>4. QED
  BY <1>1, <1>2, <1>3 DEF Turn

\* All of a sequence is left at the start.
LEMMA RunWhole ==
    ASSUME NEW s \in Seq(Op)
    PROVE  From(s, 1) = s /\ 1 \in 1..(Len(s) + 1) /\ Len(s) \in Nat
<1>1. Len(s) \in Nat
  BY LenProperties
<1>2. 1 \in 1..(Len(s) + 1)
  BY <1>1
<1>3. QED
  BY <1>1, <1>2, FromParts

-----------------------------------------------------------------------------
(***************************************************************************)
(* Reads.  What only reads keeps the database, however it is nested.       *)
(***************************************************************************)
OnlyReads(ops) == \A i \in 1..Len(ops) : ~IsWrite(ops[i])

LEMMA OnlyReadsOn ==
    ASSUME NEW ops \in Seq(Op), OnlyReads(ops), ops # <<>>
    PROVE  /\ Head(ops) \in Op /\ ~IsWrite(Head(ops))
           /\ Tail(ops) \in Seq(Op) /\ OnlyReads(Tail(ops))
<1>1. /\ Head(ops) \in Op /\ Tail(ops) \in Seq(Op)
      /\ Len(ops) \in Nat /\ Len(Tail(ops)) = Len(ops) - 1 /\ Len(ops) # 0
      /\ Head(ops) = ops[1]
  BY HeadTailProperties, LenProperties, EmptySeq
<1>2. \A i \in 1..Len(Tail(ops)) : Tail(ops)[i] = ops[i + 1] /\ i + 1 \in 1..Len(ops)
  BY <1>1, HeadTailProperties
<1>3. 1 \in 1..Len(ops)
  BY <1>1
<1>4. QED
  BY <1>1, <1>2, <1>3 DEF OnlyReads

LEMMA ReadBatch ==
    ASSUME NEW op \in Op, IsBatch(op), ~BatchRefused(op), ~IsWrite(op)
    PROVE  Body[op.body] \in Seq(Op) /\ OnlyReads(Body[op.body])
<1>1. op.kind = "batchGet"
  BY DEF IsBatch, IsWrite, BatchKinds
<1>2. Body[op.body] \in Seq(Op)
  BY BodyAssumption DEF Op
<1>3. QED
  BY <1>1, <1>2 DEF BatchRefused, OnlyReads

LEMMA ReadRun ==
    ASSUME NEW c \in Conns, NEW ops \in Seq(Op), OnlyReads(ops), NEW acc \in Acc
    PROVE  RunAll(c)[ops][acc].db = acc.db
<1> DEFINE Kept(o) == \A a \in Acc : RunAll(c)[o][a].db = a.db
           S == {o \in Seq(Op) : OnlyReads(o) /\ ~Kept(o)}
<1>1. SUFFICES ASSUME S # {} PROVE FALSE
  OBVIOUS
<1>2. PICK o \in S : Under[o] \cap S = {}
  <2>1. S \in SUBSET Seq(Op)
    OBVIOUS
  <2> HIDE DEF S
  <2>2. QED
    BY <1>1, <2>1, OpsGrounded DEF Grounded
<1>3. o \in Seq(Op) /\ OnlyReads(o)
  OBVIOUS
<1>4. PICK a \in Acc : RunAll(c)[o][a].db # a.db
  OBVIOUS
<1>5. \A u \in Under[o] : OnlyReads(u) => Kept(u)
  BY <1>2, <1>3 DEF Under
<1> HIDE DEF S
<1>6. RunAll(c) \in Run /\ RunAll(c)[o][a] = Turn(c, RunAll(c), o, a)
  BY <1>3, RunAllIs
<1>7. FailWith(a, 400).db = a.db /\ FailWith(a, 500).db = a.db
  BY FailWithType
<1>8. PICK op : op = Substitute(Head(o), a.results)
  OBVIOUS
<1>9. /\ o # <<>> /\ Resolvable(Head(o), a.results)
      /\ RunAll(c)[o][a] = RunAll(c)[Tail(o)][Operate(c, RunAll(c), a, op)]
  BY <1>4, <1>6, <1>7, <1>8 DEF Turn
<1>10. /\ Head(o) \in Op /\ ~IsWrite(Head(o))
       /\ Tail(o) \in Seq(Op) /\ OnlyReads(Tail(o))
  BY <1>3, <1>9, OnlyReadsOn
<1>11. /\ op \in Op /\ op.kind = Head(o).kind /\ op.body = Head(o).body
  BY <1>8, <1>9, <1>10, AccParts, SubstituteKeeps
<1>12. ~IsWrite(op) /\ (IsBatch(op) <=> IsBatch(Head(o)))
  BY <1>10, <1>11 DEF IsWrite, IsBatch
<1>13. Kept(Tail(o))
  BY <1>3, <1>5, <1>9, <1>10 DEF Under
<1>14. ASSUME IsBatch(op), ~BatchRefused(op)
       PROVE  Nested(RunAll(c), a, op).db = a.db
  <2>1. PICK body : body = Body[op.body]
    OBVIOUS
  <2>2. body \in Seq(Op) /\ OnlyReads(body)
    BY <1>11, <1>12, <1>14, <2>1, ReadBatch
  <2>3. body \in Under[o]
    BY <1>3, <1>9, <1>11, <1>12, <1>14, <2>1, <2>2 DEF Under
  <2>4. PICK b : b = [a EXCEPT !.results = <<>>]
    OBVIOUS
  <2>5. b \in Acc /\ b.db = a.db
    <3>1. <<>> \in Seq(Result)
      BY EmptySeq
    <3>2. /\ [a EXCEPT !.results = <<>>] \in Acc
          /\ [a EXCEPT !.results = <<>>].db = a.db
      BY <3>1 DEF Acc
    <3>3. QED
      BY <2>4, <3>2
  <2>6. RunAll(c)[body][b].db = a.db
    BY <1>5, <2>2, <2>3, <2>5
  <2>7. RunAll(c)[body][b] \in Acc
    BY <1>6, <2>2, <2>5 DEF Run
  <2>8. Nested(RunAll(c), a, op)
          = [RunAll(c)[body][b] EXCEPT !.results = Append(a.results, Empty(200))]
    BY <2>1, <2>4 DEF Nested
  <2>9. QED
    BY <2>6, <2>7, <2>8 DEF Acc
<1>15. ASSUME ~IsBatch(op), a.calls # MaxCalls
       PROVE  Handled(c, a, op).db = a.db
  <2>1. a.db \in Db /\ Fresh[c][a.calls] \in New
    BY AccParts, ServerAssumption DEF New
  <2>2. Handle(a.db, op, Fresh[c][a.calls]).db = a.db
    BY <1>11, <1>12, <2>1, ReadKeepsView
  <2>3. QED
    BY <2>2 DEF Handled
<1>16. PICK b : b = Operate(c, RunAll(c), a, op)
  OBVIOUS
<1>17. b \in Acc /\ b.db = a.db
  BY <1>6, <1>7, <1>11, <1>14, <1>15, <1>16, OperateIs, OperateType
<1>18. QED
  BY <1>4, <1>9, <1>13, <1>16, <1>17

\* A request that only reads leaves the database as it was.
LEMMA ReadEffect ==
    ASSUME NEW c \in Conns, NEW op \in Op, ~IsWrite(op), NEW db \in Db
    PROVE  Effect(c, op, db).db = db
<1>1. PICK run : run = RunAll(c)[FrameOf(op).ops][Start(db)]
  OBVIOUS
<1>2. ~Malformed(op) => run.db = db
  <2>1. SUFFICES ASSUME ~Malformed(op) PROVE run.db = db
    OBVIOUS
  <2>2. FrameOf(op).ops \in Seq(Op) /\ OnlyReads(FrameOf(op).ops)
    <3>1. CASE IsBatch(op)
      <4>1. ~BatchRefused(op) /\ FrameOf(op).ops = Body[op.body]
        BY <2>1, <3>1 DEF Malformed, FrameOf
      <4>2. QED
        BY <3>1, <4>1, ReadBatch
    <3>2. CASE ~IsBatch(op)
      <4>1. FrameOf(op).ops = <<op>> /\ <<op>> \in Seq(Op) /\ Len(<<op>>) = 1
        BY <3>2 DEF FrameOf
      <4>2. \A i \in 1..Len(<<op>>) : <<op>>[i] = op
        BY <4>1
      <4>3. QED
        BY <4>1, <4>2 DEF OnlyReads
    <3>3. QED
      BY <3>1, <3>2
  <2>3. Start(db) \in Acc /\ Start(db).db = db
    BY StartType
  <2>4. QED
    BY <1>1, <2>2, <2>3, ReadRun
<1>3. QED
  BY <1>1, <1>2 DEF Effect

\* A read that succeeds answers 200.
LEMMA ReadStatus ==
    ASSUME NEW db, NEW op, NEW new, op.kind \in ReadKinds,
           ~(Handle(db, op, new).result.status >= 400)
    PROVE  Handle(db, op, new).result.status = 200
<1>1. \A s \in {400, 404} : Refuse(db, s).result.status = s
  BY DEF Refuse, Outcome, Empty
<1>2. ASSUME NEW kind, NEW body, ~(Guard(db, op, kind, body).result.status >= 400)
      PROVE  Guard(db, op, kind, body) = body
  BY <1>1, <1>2 DEF Guard
<1>3. ASSUME op.kind = "objGet" PROVE Handle(db, op, new).result.status = 200
  <2>1. Handle(db, op, new) = handle_obj_get(db, op)
    BY <1>3 DEF Handle
  <2>2. PICK body : body = Outcome(db, [Empty(200) EXCEPT !.ptr = op.ptr,
                                           !.data = MemberPairs(db.obj[op.ptr])])
    OBVIOUS
  <2>3. body.result.status = 200
    BY <2>2 DEF Outcome, Empty
  <2>4. handle_obj_get(db, op) = Guard(db, op, ObjPtr, body)
    BY <2>2 DEF handle_obj_get
  <2>5. QED
    BY <1>2, <2>1, <2>3, <2>4
<1>4. ASSUME op.kind = "memberGet" PROVE Handle(db, op, new).result.status = 200
  <2>1. Handle(db, op, new) = handle_obj_member_get(db, op)
    BY <1>4 DEF Handle
  <2>2. PICK v : v = db.obj[op.ptr][op.name]
    OBVIOUS
  <2>3. PICK found : found = Outcome(db, [Empty(200) EXCEPT !.value = v, !.data = {v}])
    OBVIOUS
  <2>4. found.result.status = 200
    BY <2>3 DEF Outcome, Empty
  <2>5. PICK body : body = IF v = None THEN Refuse(db, 404) ELSE found
    OBVIOUS
  <2>6. handle_obj_member_get(db, op) = Guard(db, op, ObjPtr, body)
    BY <2>2, <2>3, <2>5 DEF handle_obj_member_get
  <2>7. Guard(db, op, ObjPtr, body) = body
    BY <1>2, <2>1, <2>6
  <2>8. body.result.status = 404 \/ body = found
    BY <1>1, <2>5
  <2>9. QED
    BY <2>1, <2>4, <2>6, <2>7, <2>8
<1>5. ASSUME op.kind = "setGet" PROVE Handle(db, op, new).result.status = 200
  <2>1. Handle(db, op, new) = handle_set_get(db, op)
    BY <1>5 DEF Handle
  <2>2. PICK body : body = Outcome(db, [Empty(200) EXCEPT !.ptr = op.ptr,
                                           !.data = db.set[op.ptr]])
    OBVIOUS
  <2>3. body.result.status = 200
    BY <2>2 DEF Outcome, Empty
  <2>4. handle_set_get(db, op) = Guard(db, op, SetPtr, body)
    BY <2>2 DEF handle_set_get
  <2>5. QED
    BY <1>2, <2>1, <2>3, <2>4
<1>6. ASSUME op.kind = "ptrExist" PROVE Handle(db, op, new).result.status = 200
  <2>1. Handle(db, op, new) = handle_ptr_exist(db, op)
    BY <1>6 DEF Handle
  <2>2. QED
    BY <1>1, <2>1 DEF handle_ptr_exist, Outcome, Empty
<1>7. QED
  BY <1>3, <1>4, <1>5, <1>6 DEF ReadKinds

-----------------------------------------------------------------------------
(***************************************************************************)
(* The invariant: what a thread has done so far, followed by what it has   *)
(* still to do, is the run of the whole request on the database it began   *)
(* with.                                                                   *)
(***************************************************************************)
\* A handler's run once the handler above it has ended with final.
Waits(c, f, final) ==
    RunAll(c)[From(f.ops, Index(f) + 1)][
        [final EXCEPT !.results = Append(f.results, Empty(200))]]

\* The run of the handler on top, from where it stands.
Left(c, label, f, acc) ==
    IF label = "exec"
    THEN RunAll(c)[From(f.ops, Index(f) + 1)][
             Operate(c, RunAll(c), acc, f.ops[Index(f)])]
    ELSE RunAll(c)[From(f.ops, Index(f))][acc]

\* How each handler of a stack ends, given how the one on top does.
Ends(c, s, last, first) ==
    \E finals \in [1..Len(s) -> Acc] :
        /\ finals[1] = first
        /\ finals[Len(s)] = last
        /\ \A k \in 1..Len(s) - 1 : finals[k] = Waits(c, s[k], finals[k + 1])

\* What the thread has reached.
Reached(t, n, f) ==
    [db |-> t.view, calls |-> n, results |-> f.results, failed |-> None]

OnCourse(c, label, r, t, s, n) ==
    label \in {"loop", "exec", "end"} =>
        Ends(c, s, Left(c, label, s[Len(s)], Reached(t, n, s[Len(s)])),
             RunAll(c)[FrameOf(r).ops][Start(t.base)])

\* What a thread keeps besides.
Serves(c) ==
    /\ IF pc[c] = "idle" THEN req[c] = None ELSE req[c] \in Requests
    /\ pc[c] \in {"idle", "parsed"} => calls[c] = 0
    /\ pc[c] \in Open => /\ ~Malformed(req[c])
                         /\ txn[c].readonly = ReadOnlyRequest(req[c])
    /\ pc[c] = "cleanup" => status[c] >= 400
    /\ pc[c] \in {"respond", "done"} /\ status[c] < 400 => Len(frames[c]) >= 1

Promise(c) == OnCourse(c, pc[c], req[c], txn[c], frames[c], calls[c])

Implementing == Invariant /\ \A c \in Conns : Serves(c) /\ Promise(c)

\* A single handler ends as the request does.
LEMMA EndsOne ==
    ASSUME NEW c, NEW s, Len(s) = 1, NEW last \in Acc, NEW first
    PROVE  Ends(c, s, last, first) <=> first = last
<1>1. ASSUME first = last PROVE Ends(c, s, last, first)
  <2> DEFINE finals == [k \in 1..Len(s) |-> last]
  <2>1. /\ finals \in [1..Len(s) -> Acc]
        /\ finals[1] = first /\ finals[Len(s)] = last
        /\ \A k \in 1..Len(s) - 1 : finals[k] = Waits(c, s[k], finals[k + 1])
    BY <1>1
  <2>2. QED
    BY <2>1 DEF Ends
<1>2. ASSUME Ends(c, s, last, first) PROVE first = last
  BY <1>2 DEF Ends
<1>3. QED
  BY <1>1, <1>2

\* Only the handlers below the top one are said to wait.
LEMMA EndsSame ==
    ASSUME NEW c, NEW s, NEW t, Len(t) = Len(s), Len(s) \in Nat,
           \A k \in 1..Len(s) - 1 : t[k] = s[k],
           NEW last, NEW first, Ends(c, s, last, first)
    PROVE  Ends(c, t, last, first)
<1>1. PICK finals \in [1..Len(s) -> Acc] :
        /\ finals[1] = first /\ finals[Len(s)] = last
        /\ \A k \in 1..Len(s) - 1 : finals[k] = Waits(c, s[k], finals[k + 1])
  BY DEF Ends
<1>2. \A k \in 1..Len(t) - 1 : finals[k] = Waits(c, t[k], finals[k + 1])
  BY <1>1
<1>3. finals \in [1..Len(t) -> Acc] /\ finals[Len(t)] = last
  BY <1>1
<1>4. QED
  BY <1>1, <1>2, <1>3 DEF Ends

\* A batch starts: its caller waits for it.
LEMMA EndsPush ==
    ASSUME NEW c, NEW s, Len(s) \in Nat, Len(s) >= 1, NEW final \in Acc, NEW first,
           Ends(c, s, Waits(c, s[Len(s)], final), first),
           NEW t, Len(t) = Len(s) + 1, \A k \in 1..Len(s) : t[k] = s[k]
    PROVE  Ends(c, t, final, first)
<1>1. PICK finals \in [1..Len(s) -> Acc] :
        /\ finals[1] = first /\ finals[Len(s)] = Waits(c, s[Len(s)], final)
        /\ \A k \in 1..Len(s) - 1 : finals[k] = Waits(c, s[k], finals[k + 1])
  BY DEF Ends
<1> DEFINE more == [k \in 1..Len(t) |-> IF k = Len(t) THEN final ELSE finals[k]]
<1>2. more \in [1..Len(t) -> Acc]
  <2>1. \A k \in 1..Len(t) : k # Len(t) => k \in 1..Len(s)
    OBVIOUS
  <2>2. QED
    BY <1>1, <2>1
<1>3. more[1] = first /\ more[Len(t)] = final
  BY <1>1
<1>4. ASSUME NEW k \in 1..Len(t) - 1
      PROVE  more[k] = Waits(c, t[k], more[k + 1])
  <2>1. k \in 1..Len(s) /\ t[k] = s[k] /\ k \in 1..Len(t) /\ k + 1 \in 1..Len(t)
    OBVIOUS
  <2>2. more[k] = finals[k]
    BY <2>1
  <2>3. CASE k = Len(s)
    <3>1. more[k + 1] = final
      BY <2>1, <2>3
    <3>2. QED
      BY <1>1, <2>1, <2>2, <2>3, <3>1
  <2>4. CASE k # Len(s)
    <3>1. more[k + 1] = finals[k + 1] /\ k \in 1..Len(s) - 1
      BY <2>1, <2>4
    <3>2. QED
      BY <1>1, <2>1, <2>2, <3>1
  <2>5. QED
    BY <2>3, <2>4
<1> HIDE DEF more
<1>5. QED
  BY <1>2, <1>3, <1>4 DEF Ends

\* A batch ends, and its caller goes on.
LEMMA EndsPop ==
    ASSUME NEW c, NEW s, Len(s) \in Nat, Len(s) > 1, NEW final, NEW first,
           Ends(c, s, final, first),
           NEW t, Len(t) = Len(s) - 1, \A k \in 1..Len(t) - 1 : t[k] = s[k]
    PROVE  Ends(c, t, Waits(c, s[Len(s) - 1], final), first)
<1>1. PICK finals \in [1..Len(s) -> Acc] :
        /\ finals[1] = first /\ finals[Len(s)] = final
        /\ \A k \in 1..Len(s) - 1 : finals[k] = Waits(c, s[k], finals[k + 1])
  BY DEF Ends
<1> DEFINE less == [k \in 1..Len(t) |-> finals[k]]
<1>2. \A k \in 1..Len(t) : k \in 1..Len(s) - 1 /\ k \in 1..Len(s)
  OBVIOUS
<1>3. less \in [1..Len(t) -> Acc]
  BY <1>1, <1>2
<1>4. less[1] = first /\ less[Len(t)] = finals[Len(t)]
  BY <1>1
<1>5. finals[Len(t)] = Waits(c, s[Len(s) - 1], final)
  <2>1. Len(t) \in 1..Len(s) - 1 /\ Len(t) + 1 = Len(s) /\ Len(t) = Len(s) - 1
    OBVIOUS
  <2>2. QED
    BY <1>1, <2>1
<1>6. ASSUME NEW k \in 1..Len(t) - 1
      PROVE  less[k] = Waits(c, t[k], less[k + 1])
  <2>1. k \in 1..Len(t) /\ k + 1 \in 1..Len(t) /\ k \in 1..Len(s) - 1
    OBVIOUS
  <2>2. less[k] = finals[k] /\ less[k + 1] = finals[k + 1]
    BY <2>1
  <2>3. QED
    BY <1>1, <1>6, <2>1, <2>2
<1> HIDE DEF less
<1>7. QED
  BY <1>3, <1>4, <1>5, <1>6 DEF Ends

-----------------------------------------------------------------------------
\* A change of one operation is not a change of those after it.
LEMMA FromAfter ==
    ASSUME NEW s \in Seq(Op), NEW i \in 1..Len(s), NEW op \in Op
    PROVE  From([s EXCEPT ![i] = op], i + 1) = From(s, i + 1)
<1> DEFINE t == [s EXCEPT ![i] = op]
<1>1. /\ t \in Seq(Op) /\ Len(t) = Len(s) /\ Len(s) \in Nat
      /\ \A j \in 1..Len(s) : t[j] = IF j = i THEN op ELSE s[j]
  BY ExceptSeq, LenProperties
<1> HIDE DEF t
<1>2. i + 1 \in 1..(Len(s) + 1) /\ i + 1 \in 1..(Len(t) + 1)
  BY <1>1
<1>3. /\ From(t, i + 1) \in Seq(Op) /\ Len(From(t, i + 1)) = Len(s) - i
      /\ From(s, i + 1) \in Seq(Op) /\ Len(From(s, i + 1)) = Len(s) - i
  <2>1. /\ From(t, i + 1) \in Seq(Op) /\ Len(From(t, i + 1)) = Len(t) + 1 - (i + 1)
        /\ From(s, i + 1) \in Seq(Op) /\ Len(From(s, i + 1)) = Len(s) + 1 - (i + 1)
    BY <1>1, <1>2, FromParts
  <2>2. Len(s) + 1 - (i + 1) = Len(s) - i
    BY <1>1
  <2>3. QED
    BY <1>1, <2>1, <2>2
<1>4. ASSUME NEW j \in 1..(Len(s) - i)
      PROVE  From(t, i + 1)[j] = From(s, i + 1)[j]
  <2>1. /\ j \in 1..(Len(s) - (i + 1) + 1) /\ (i + 1) + j - 1 \in 1..Len(s)
        /\ (i + 1) + j - 1 # i
    BY <1>1
  <2>2. \A k \in (i + 1)..Len(s) : s[k] \in Op /\ t[k] \in Op
    BY <1>1, <1>2, ElementOfSeq
  <2>3. From(s, i + 1)[j] = s[(i + 1) + j - 1] /\ From(t, i + 1)[j] = t[(i + 1) + j - 1]
    BY <1>1, <2>1, <2>2, SubSeqProperties DEF From
  <2>4. QED
    BY <1>1, <2>1, <2>3
<1>5. From(t, i + 1) = From(s, i + 1)
  BY <1>3, <1>4, SeqEqual
<1>6. QED
  BY <1>5 DEF t

\* Where a handler stands.
Standing(f, acc) ==
    /\ f \in Frame /\ acc \in Acc
    /\ acc.results = f.results /\ acc.failed = None
    /\ Index(f) \in 1..(Len(f.ops) + 1)

\* vars are applied to the operation that is due.
LEMMA LeftNext ==
    ASSUME NEW c \in Conns, NEW f, NEW acc, Standing(f, acc),
           Index(f) # Len(f.ops) + 1,
           NEW op, op = f.ops[Index(f)], Resolvable(op, f.results),
           NEW g, g = [f EXCEPT !.ops[Index(f)] = Substitute(op, f.results)]
    PROVE  Left(c, "exec", g, acc) = Left(c, "loop", f, acc)
<1>1. f \in Frame /\ f.ops \in Seq(Op) /\ f.results \in Seq(Result)
      /\ Len(f.ops) \in Nat /\ acc \in Acc
  BY FrameParts DEF Standing
<1>2. PICK i : i = Index(f)
  OBVIOUS
<1>3. i \in 1..Len(f.ops) /\ i \in 1..(Len(f.ops) + 1) /\ i # Len(f.ops) + 1
  BY <1>1, <1>2 DEF Standing
<1>4. PICK new : new = Substitute(op, f.results)
  OBVIOUS
<1>5. op \in Op /\ op = f.ops[i]
  BY <1>1, <1>2, <1>3, ElementOfSeq
<1>6. new \in Op
  BY <1>1, <1>4, <1>5, SubstituteKeeps
<1>7. g.ops = [f.ops EXCEPT ![i] = new] /\ g.results = f.results
  BY <1>1, <1>2, <1>4 DEF Frame
<1>8. Index(g) = i /\ g.ops[i] = new
  BY <1>1, <1>2, <1>3, <1>7, LenProperties DEF Index
<1>9. From(g.ops, i + 1) = From(f.ops, i + 1)
  BY <1>1, <1>3, <1>6, <1>7, FromAfter
<1>10. Left(c, "exec", g, acc)
         = RunAll(c)[From(f.ops, i + 1)][Operate(c, RunAll(c), acc, new)]
  BY <1>8, <1>9 DEF Left
<1>11. acc.failed = None /\ acc.results = f.results
  BY DEF Standing
<1>12. RunAll(c)[From(f.ops, i)][acc]
         = RunAll(c)[From(f.ops, i + 1)][
               Operate(c, RunAll(c), acc, Substitute(f.ops[i], acc.results))]
  BY <1>1, <1>3, <1>5, <1>11, RunFrom
<1>13. Left(c, "loop", f, acc) = RunAll(c)[From(f.ops, i)][acc]
  BY <1>2 DEF Left
<1>14. QED
  BY <1>4, <1>5, <1>10, <1>11, <1>12, <1>13

\* A handler that has run its operations has reached its end.
LEMMA LeftNothing ==
    ASSUME NEW c \in Conns, NEW f, NEW acc, Standing(f, acc),
           Index(f) = Len(f.ops) + 1,
           NEW label, label # "exec"
    PROVE  Left(c, label, f, acc) = acc
<1>1. f.ops \in Seq(Op) /\ acc \in Acc
  BY FrameParts DEF Standing
<1>2. RunAll(c)[From(f.ops, Index(f))][acc] = acc
  BY <1>1, RunFrom DEF Standing
<1>3. QED
  BY <1>2 DEF Left

\* A batch within a batch.
LEMMA LeftEnter ==
    ASSUME NEW c \in Conns, NEW f, NEW acc, Standing(f, acc),
           Index(f) # Len(f.ops) + 1,
           NEW op, op = f.ops[Index(f)], IsBatch(op), ~BatchRefused(op),
           NEW start, start = [acc EXCEPT !.results = <<>>]
    PROVE  /\ Left(c, "loop", FrameOf(op), start) \in Acc
           /\ Left(c, "exec", f, acc) = Waits(c, f, Left(c, "loop", FrameOf(op), start))
           /\ Standing(FrameOf(op), start)
<1>1. /\ f \in Frame /\ f.ops \in Seq(Op) /\ Len(f.ops) \in Nat /\ acc \in Acc
      /\ acc.results = f.results
  BY FrameParts DEF Standing
<1>2. Index(f) \in 1..Len(f.ops)
  BY <1>1 DEF Standing
<1>3. op \in Op
  BY <1>1, <1>2, ElementOfSeq
<1>4. /\ FrameOf(op) \in Frame /\ FrameOf(op).results = <<>> /\ Index(FrameOf(op)) = 1
      /\ FrameOf(op).ops = Body[op.body] /\ Body[op.body] \in Seq(Op)
  <2>1. FrameOf(op) \in Frame
    BY <1>3, FrameOfType
  <2>2. FrameOf(op).results = <<>> /\ FrameOf(op).ops = Body[op.body]
    BY DEF FrameOf
  <2>3. Len(FrameOf(op).results) = 0
    BY <1>3, FrameOfType
  <2>4. Index(FrameOf(op)) = 1
    BY <2>3 DEF Index
  <2>5. Body[op.body] \in Seq(Op)
    BY <1>3, BodyAssumption DEF Op
  <2>6. QED
    BY <2>1, <2>2, <2>4, <2>5
<1>5. start \in Acc /\ start.results = <<>> /\ start.failed = None
  <2>1. <<>> \in Seq(Result)
    BY EmptySeq
  <2>2. start \in Acc /\ start = [db |-> acc.db, calls |-> acc.calls, results |-> <<>>,
                                 failed |-> acc.failed]
    BY <1>1, <2>1, AccResults
  <2>3. QED
    BY <2>2 DEF Standing
<1>6. From(Body[op.body], 1) = Body[op.body] /\ 1 \in 1..(Len(Body[op.body]) + 1)
  BY <1>4, RunWhole
<1>7. Left(c, "loop", FrameOf(op), start) = RunAll(c)[Body[op.body]][start]
  BY <1>4, <1>6 DEF Left
<1>8. RunAll(c)[Body[op.body]][start] \in Acc
  BY <1>4, <1>5, RunAllIs DEF Run
<1>9. Operate(c, RunAll(c), acc, op)
        = [RunAll(c)[Body[op.body]][start]
              EXCEPT !.results = Append(f.results, Empty(200))]
  BY <1>1, OperateIs DEF Nested
<1>10. Standing(FrameOf(op), start)
  BY <1>4, <1>5, <1>6 DEF Standing
<1>11. QED
  BY <1>7, <1>8, <1>9, <1>10 DEF Left, Waits

\* A frame with one result more.
Recorded(f, result) == [f EXCEPT !.results = Append(@, result)]

LEMMA RecordedParts ==
    ASSUME NEW f \in Frame, NEW result \in Result
    PROVE  /\ Recorded(f, result).ops = f.ops
           /\ Recorded(f, result).results = Append(f.results, result)
           /\ Index(Recorded(f, result)) = Index(f) + 1
<1>1. f.results \in Seq(Result) /\ Len(f.results) \in Nat
  BY FrameParts
<1>2. /\ Recorded(f, result).ops = f.ops
      /\ Recorded(f, result).results = Append(f.results, result)
  BY DEF Recorded, Frame
<1>3. Len(Append(f.results, result)) = Len(f.results) + 1
  BY <1>1, AppendProperties
<1>4. QED
  BY <1>1, <1>2, <1>3 DEF Index

\* A batch within a batch is over: one result more for its caller.
LEMMA LeftReturn ==
    ASSUME NEW c \in Conns, NEW g \in Frame, NEW final \in Acc,
           NEW h, h = Recorded(g, Empty(200)),
           NEW acc, acc = [final EXCEPT !.results = h.results]
    PROVE  Left(c, "loop", h, acc) = Waits(c, g, final)
<1>1. /\ h.results = Append(g.results, Empty(200)) /\ h.ops = g.ops
      /\ Index(h) = Index(g) + 1
  BY EmptyType, RecordedParts
<1>2. QED
  BY <1>1 DEF Left, Waits

\* TXN_BEGIN: all of the request is left.
LEMMA LeftBegin ==
    ASSUME NEW c \in Conns, NEW r \in Op, ~Malformed(r), r.var = None, NEW db \in Db,
           NEW label, label = IF IsBatch(r) THEN "loop" ELSE "exec"
    PROVE  /\ Standing(FrameOf(r), Start(db))
           /\ Left(c, label, FrameOf(r), Start(db)) = RunAll(c)[FrameOf(r).ops][Start(db)]
           /\ RunAll(c)[FrameOf(r).ops][Start(db)] \in Acc
<1>1. PICK f : f = FrameOf(r)
  OBVIOUS
<1>2. f \in Frame /\ Len(f.results) = 0 /\ f.results = <<>>
      /\ (~IsBatch(r) => f.ops = <<r>>)
  BY <1>1, FrameOfType DEF Malformed, FrameOf
<1>3. f.ops \in Seq(Op) /\ Index(f) = 1
  BY <1>2, FrameParts DEF Index
<1>4. From(f.ops, 1) = f.ops /\ 1 \in 1..(Len(f.ops) + 1)
  BY <1>3, RunWhole
<1>5. Start(db) \in Acc /\ Start(db).failed = None /\ Start(db).results = <<>>
  BY StartType DEF Start
<1>6. Standing(f, Start(db))
  BY <1>2, <1>3, <1>4, <1>5 DEF Standing
<1>7. RunAll(c)[f.ops][Start(db)] \in Acc
  BY <1>3, <1>5, RunAllIs DEF Run
<1>8. CASE IsBatch(r)
  BY <1>1, <1>3, <1>4, <1>6, <1>7, <1>8 DEF Left
<1>9. CASE ~IsBatch(r)
  <2>1. f.ops = <<r>> /\ Len(f.ops) = 1 /\ f.ops[1] = r
    <3>1. <<r>> \in Seq(Op) /\ Len(<<r>>) = 1 /\ <<r>>[1] = r
      OBVIOUS
    <3>2. f.ops = <<r>>
      BY <1>2, <1>9
    <3>3. QED
      BY <3>1, <3>2
  <2>2. Resolvable(r, <<>>) /\ Substitute(r, <<>>) = r
    BY DEF Resolvable, Substitute
  <2>3. RunAll(c)[From(f.ops, 1)][Start(db)]
          = RunAll(c)[From(f.ops, 1 + 1)][
                Operate(c, RunAll(c), Start(db),
                        Substitute(f.ops[1], Start(db).results))]
    <3>1. 1 # Len(f.ops) + 1
      BY <2>1
    <3>2. Resolvable(f.ops[1], Start(db).results)
      BY <1>5, <2>1, <2>2
    <3>3. QED
      BY <1>3, <1>4, <1>5, <3>1, <3>2, RunFrom
  <2>4. Left(c, label, f, Start(db)) = RunAll(c)[f.ops][Start(db)]
    BY <1>3, <1>4, <1>5, <1>9, <2>1, <2>2, <2>3 DEF Left
  <2>5. QED
    BY <1>1, <1>6, <1>7, <2>4
<1>10. QED
  BY <1>8, <1>9

-----------------------------------------------------------------------------
(***************************************************************************)
(* The steps.  A step of c leaves every other thread where it is.          *)
(***************************************************************************)
Apart(c) ==
    \A d \in Conns \ {c} :
        /\ pc'[d] = pc[d] /\ req'[d] = req[d] /\ txn'[d] = txn[d]
        /\ frames'[d] = frames[d] /\ calls'[d] = calls[d]
        /\ status'[d] = status[d]

LEMMA ThreadApart ==
    ASSUME Invariant, NEW c \in Conns, Thread(c)
    PROVE  Apart(c)
<1> USE DEF Invariant, TypeOK, GoTo, Apart, Release, Fail
<1>1. CASE Receive(c) \/ Reject(c) \/ Begin(c) \/ BeginFails(c)
  BY <1>1 DEF Receive, Reject, Begin, BeginFails
<1>2. CASE NextOperation(c)
  BY <1>2 DEF NextOperation
<1>3. CASE BatchTimeout(c) \/ BatchDone(c)
  BY <1>3 DEF BatchTimeout, BatchDone
<1>4. CASE EnterBatch(c)
  BY <1>4 DEF EnterBatch
<1>5. CASE Execute(c)
  BY <1>5 DEF Execute
<1>6. CASE HandlerTimeout(c) \/ AllocationFails(c)
  BY <1>6 DEF HandlerTimeout, AllocationFails
<1>7. CASE FinishRead(c) \/ Commit(c) \/ CommitFails(c) \/ Cleanup(c)
  BY <1>7 DEF FinishRead, Commit, CommitFails, Cleanup
<1>8. CASE Respond(c)
  BY <1>8 DEF Respond
<1>9. QED
  BY <1>1, <1>2, <1>3, <1>4, <1>5, <1>6, <1>7, <1>8 DEF Thread

LEMMA ThreadStays ==
    ASSUME NEW d \in Conns, Serves(d), Promise(d),
           pc'[d] = pc[d], req'[d] = req[d], txn'[d] = txn[d],
           frames'[d] = frames[d], calls'[d] = calls[d], status'[d] = status[d]
    PROVE  Serves(d)' /\ Promise(d)' /\ Decided(d)' = Decided(d)
<1>1. Serves(d)'
  BY DEF Serves
<1>2. Promise(d)'
  BY DEF Promise
<1>3. Decided(d)' = Decided(d)
  BY DEF Decided
<1>4. QED
  BY <1>1, <1>2, <1>3

\* What the clients see of the threads.
Decisions == [d \in Conns |-> Decided(d)]

LEMMA DecisionsApart ==
    ASSUME Implementing, NEW c \in Conns, Apart(c)
    PROVE  /\ Decisions' = [Decisions EXCEPT ![c] = Decided(c)']
           /\ \A d \in Conns \ {c} : Serves(d)' /\ Promise(d)'
<1>1. \A d \in Conns \ {c} : Serves(d)' /\ Promise(d)' /\ Decided(d)' = Decided(d)
  BY ThreadStays DEF Apart, Implementing
<1>2. Decisions' = [d \in Conns |-> Decided(d)']
  BY DEF Decisions
<1>3. Decisions' = [Decisions EXCEPT ![c] = Decided(c)']
  BY <1>1, <1>2 DEF Decisions
<1>4. QED
  BY <1>1, <1>3

-----------------------------------------------------------------------------
(***************************************************************************)
(* The steps of AtomicStore.                                               *)
(***************************************************************************)
LEMMA DecideStep ==
    ASSUME Implementing, NEW c \in Conns, Apart(c),
           req[c] # None, Decided(c) = None,
           Decided(c)' = [status |-> Effect(c, req[c], store).status,
                          results |-> Effect(c, req[c], store).results],
           store' = Effect(c, req[c], store).db,
           UNCHANGED <<req, reply>>
    PROVE  Atomic!Decide(c)
<1>1. Decisions' = [Decisions EXCEPT ![c] = Decided(c)']
  BY DecisionsApart
<1>2. Decisions[c] = None
  BY DEF Decisions
<1>3. QED
  BY <1>1, <1>2 DEF Atomic!Decide, Atomic!Outcome, Decisions

LEMMA GiveUpStep ==
    ASSUME Implementing, NEW c \in Conns, Apart(c),
           req[c] # None, reply[c] = None,
           ~IsWrite(req[c]) \/ Decided(c) = None,
           NEW s, s \in {408, 500} \/ (s = 400 /\ HasBody(req[c])),
           Decided(c)' = [status |-> s, results |-> <<>>],
           UNCHANGED <<store, req, reply>>
    PROVE  Atomic!GiveUp(c)
<1>1. Decisions' = [Decisions EXCEPT ![c] = [status |-> s, results |-> <<>>]]
  BY DecisionsApart
<1>2. Decisions[c] = Decided(c)
  BY DEF Decisions
<1>3. s \in {408, 500} \cup (IF HasBody(req[c]) THEN {400} ELSE {})
  OBVIOUS
<1> DEFINE statuses == {408, 500} \cup (IF HasBody(req[c]) THEN {400} ELSE {})
<1>4. Decisions' \in {[Decisions EXCEPT ![c] = [status |-> x, results |-> <<>>]] :
                         x \in statuses}
  <2>1. s \in statuses
    BY <1>3
  <2> HIDE DEF statuses
  <2>2. PICK old, new : old = Decisions /\ new = Decisions'
    OBVIOUS
  <2>3. new = [old EXCEPT ![c] = [status |-> s, results |-> <<>>]]
    BY <1>1, <2>2
  <2>4. new \in {[old EXCEPT ![c] = [status |-> x, results |-> <<>>]] : x \in statuses}
    <3> DEFINE Given(x) == [old EXCEPT ![c] = [status |-> x, results |-> <<>>]]
    <3>1. new = Given(s)
      BY <2>3
    <3> HIDE DEF Given
    <3>2. new \in {Given(x) : x \in statuses}
      BY <2>1, <3>1
    <3>3. QED
      BY <3>2 DEF Given
  <2>5. QED
    BY <2>2, <2>4
<1>5. /\ UNCHANGED <<store, req, reply>> /\ req[c] # None /\ reply[c] = None
      /\ ~IsWrite(req[c]) \/ Decisions[c] = None
  BY <1>2
<1>6. QED
  BY <1>4, <1>5 DEF Atomic!GiveUp, Decisions

LEMMA StutterStep ==
    ASSUME Implementing, NEW c \in Conns, Apart(c),
           Decided(c)' = Decided(c), UNCHANGED <<store, req, reply>>
    PROVE  UNCHANGED Atomic!vars
<1>1. Decisions' = [Decisions EXCEPT ![c] = Decided(c)]
  BY DecisionsApart
<1>2. Decisions' = Decisions
  BY <1>1 DEF Decisions
<1>3. QED
  BY <1>2 DEF Atomic!vars, Decisions

\* What a thread has decided, by where it is.
LEMMA DecidedIs ==
    ASSUME Invariant, NEW c \in Conns
    PROVE  /\ pc[c] \in {"idle", "parsed"} => Decided(c) = None
           /\ pc[c] \in {"loop", "exec", "end"} =>
                 Decided(c) = IF txn[c].readonly
                              THEN [status |-> Effect(c, req[c], txn[c].base).status,
                                    results |-> Effect(c, req[c], txn[c].base).results]
                              ELSE None
<1>1. pc[c] \in {"idle", "parsed"} => txn[c] = None
  BY DEF Invariant, TxnWhileOpen, Open
<1>2. pc[c] \in {"loop", "exec", "end"} => txn[c] # None
  BY DEF Invariant, TxnWhileOpen, Open
<1>3. QED
  BY <1>1, <1>2 DEF Decided

\* While it runs its operations, a thread decides nothing new.
LEMMA RunningKeeps ==
    ASSUME Invariant, Invariant', NEW c \in Conns,
           pc[c] \in {"loop", "exec", "end"}, pc'[c] \in {"loop", "exec", "end"},
           req'[c] = req[c], txn'[c].readonly = txn[c].readonly,
           txn'[c].base = txn[c].base
    PROVE  Decided(c)' = Decided(c)
<1>1. txn[c] # None /\ txn'[c] # None
  BY DEF Invariant, TxnWhileOpen, Open
<1>2. QED
  BY <1>1 DEF Decided

\* A request that may be served, and whether it writes.
LEMMA ServedRequest ==
    ASSUME Implementing, NEW c \in Conns, pc[c] # "idle"
    PROVE  /\ req[c] \in Op /\ req[c].var = None /\ req[c] # None
           /\ pc[c] # "done" => reply[c] = None
           /\ pc[c] \in Open => (txn[c].readonly <=> ~IsWrite(req[c]))
           /\ ~Malformed(req[c]) => (ReadOnlyRequest(req[c]) <=> ~IsWrite(req[c]))
<1>1. req[c] \in Requests
  BY DEF Implementing, Serves
<1>2. req[c] \in Op /\ req[c].var = None /\ req[c] # None
  BY <1>1, ServerAssumption
<1>3. pc[c] # "done" => reply[c] = None
  BY DEF Implementing, Invariant, CommitIsAnswered
<1>4. ~Malformed(req[c]) => (ReadOnlyRequest(req[c]) <=> ~IsWrite(req[c]))
  <2>1. req[c].kind \in Kinds
    BY <1>2 DEF Op
  <2>2. QED
    BY <2>1 DEF Malformed, ReadOnlyRequest, IsWrite, Kinds, ReadKinds, WriteKinds,
                BatchKinds
<1>5. pc[c] \in Open => (txn[c].readonly <=> ~IsWrite(req[c]))
  BY <1>4 DEF Implementing, Serves
<1>6. QED
  BY <1>2, <1>3, <1>4, <1>5

\* Where a thread stands while it runs its operations.
LEMMA ThreadStands ==
    ASSUME Invariant, NEW c \in Conns, pc[c] \in {"loop", "exec", "end"}
    PROVE  /\ Standing(Top(c), Reached(txn[c], calls[c], Top(c)))
           /\ Top(c) = frames[c][Len(frames[c])]
           /\ Len(frames[c]) \in Nat /\ Len(frames[c]) >= 1
           /\ txn[c] \in Txn /\ txn[c].base \in Db /\ txn[c].view \in Db
           /\ pc[c] = "exec" => Index(Top(c)) # Len(Top(c).ops) + 1
           /\ pc[c] = "end" => Index(Top(c)) = Len(Top(c).ops) + 1 /\ Len(frames[c]) = 1
<1>1. pc[c] \in Open
  BY DEF Open
<1>2. /\ Top(c) = frames[c][Len(frames[c])] /\ Top(c) \in Frame /\ WellFormed(Top(c))
      /\ Len(frames[c]) \in Nat /\ Len(frames[c]) >= 1
      /\ Top(c).results \in Seq(Result) /\ Len(Top(c).results) \in Nat
      /\ Len(Top(c).ops) \in Nat
  BY <1>1, CurrentHandler
<1>3. txn[c] \in Txn /\ txn[c].view \in Db /\ calls[c] \in 0..MaxCalls
  BY <1>1, SameView
<1>4. txn[c].base \in Db
  BY <1>3 DEF Txn
<1>5. Index(Top(c)) \in 1..(Len(Top(c).ops) + 1)
  <2>1. PICK m \in Nat, n \in Nat : m = Len(Top(c).results) /\ n = Len(Top(c).ops)
    BY <1>2
  <2>2. m <= n
    BY <1>2, <2>1 DEF WellFormed
  <2>3. m + 1 \in 1..(n + 1)
    BY <2>2
  <2>4. QED
    BY <2>1, <2>3 DEF Index
<1>6. Reached(txn[c], calls[c], Top(c)) \in Acc
      /\ Reached(txn[c], calls[c], Top(c)).results = Top(c).results
      /\ Reached(txn[c], calls[c], Top(c)).failed = None
  BY <1>2, <1>3 DEF Reached, Acc
<1>7. Standing(Top(c), Reached(txn[c], calls[c], Top(c)))
  BY <1>2, <1>5, <1>6 DEF Standing
<1>8. pc[c] = "exec" => Index(Top(c)) # Len(Top(c).ops) + 1
  <2>1. pc[c] = "exec" => Len(Top(c).results) < Len(Top(c).ops)
    BY DEF Invariant, Stacks, StackOf
  <2>2. QED
    BY <1>2, <2>1 DEF Index
<1>9. pc[c] = "end" => Index(Top(c)) = Len(Top(c).ops) + 1 /\ Len(frames[c]) = 1
  <2>1. pc[c] = "end" => Len(frames[c]) = 1 /\ Len(Top(c).results) = Len(Top(c).ops)
    BY DEF Invariant, Stacks, StackOf
  <2>2. QED
    BY <1>2, <2>1 DEF Index
<1>10. QED
  BY <1>2, <1>3, <1>4, <1>7, <1>8, <1>9

\* The only handler of a thread ends as the whole request does.
LEMMA WholeRequest ==
    ASSUME Implementing, NEW c \in Conns, pc[c] \in {"loop", "exec", "end"},
           Len(frames[c]) = 1,
           Left(c, pc[c], Top(c), Reached(txn[c], calls[c], Top(c))) \in Acc
    PROVE  RunAll(c)[FrameOf(req[c]).ops][Start(txn[c].base)]
             = Left(c, pc[c], Top(c), Reached(txn[c], calls[c], Top(c)))
<1>1. Promise(c) /\ Invariant
  BY DEF Implementing
<1>2. Top(c) = frames[c][Len(frames[c])]
  BY DEF Top
<1>3. PICK s : s = frames[c]
  OBVIOUS
<1>4. PICK last \in Acc : last = Left(c, pc[c], Top(c), Reached(txn[c], calls[c], Top(c)))
  OBVIOUS
<1>5. PICK first : first = RunAll(c)[FrameOf(req[c]).ops][Start(txn[c].base)]
  OBVIOUS
<1>6. Ends(c, s, last, first)
  BY <1>1, <1>2, <1>3, <1>4, <1>5 DEF Promise, OnCourse
<1>7. first = last
  BY <1>3, <1>6, EndsOne
<1>8. QED
  BY <1>4, <1>5, <1>7

\* A step of c does what AtomicStore allows, and keeps c on its course.
StepImplements(c) ==
    /\ Serves(c)' /\ Promise(c)'
    /\ \/ UNCHANGED Atomic!vars
       \/ Atomic!Ask(c) \/ Atomic!Decide(c) \/ Atomic!GiveUp(c) \/ Atomic!Answer(c)

LEMMA ReceiveImplements ==
    ASSUME Implementing, Invariant', NEW c \in Conns, Apart(c), Receive(c)
    PROVE  StepImplements(c)
<1>1. PICK r \in Requests : req' = [req EXCEPT ![c] = r]
  BY DEF Receive
<1>2. /\ pc[c] = "idle" /\ pc'[c] = "parsed" /\ req[c] = None /\ req'[c] = r
      /\ calls[c] = 0 /\ UNCHANGED <<store, calls, reply>>
  BY <1>1 DEF Receive, GoTo, Implementing, Serves, Invariant, TypeOK
<1>3. Serves(c)'
  BY <1>2 DEF Serves, Open
<1>4. Promise(c)'
  BY <1>2 DEF Promise, OnCourse
<1>5. Decided(c) = None /\ Decided(c)' = None
  <2>1. txn'[c] = None
    BY <1>2 DEF Invariant, TxnWhileOpen, Open
  <2>2. Decided(c)' = None
    BY <1>2, <2>1 DEF Decided
  <2>3. QED
    BY <1>2, <2>2, DecidedIs DEF Implementing
<1>6. Decisions' = Decisions
  BY <1>5, DecisionsApart DEF Decisions
<1>7. Atomic!Ask(c)
  BY <1>1, <1>2, <1>6 DEF Atomic!Ask, Decisions
<1>8. QED
  BY <1>3, <1>4, <1>7 DEF StepImplements

\* An answer before there is a transaction.
LEMMA RefuseImplements ==
    ASSUME Implementing, Invariant', NEW c \in Conns, Apart(c),
           Reject(c) \/ BeginFails(c)
    PROVE  StepImplements(c)
<1>1. /\ pc[c] = "parsed" /\ pc'[c] = "respond"
      /\ UNCHANGED <<store, req, txn, calls, reply>>
  BY DEF Reject, BeginFails, GoTo, Implementing, Invariant, TypeOK
<1>2. /\ req[c] \in Op /\ req[c] # None /\ reply[c] = None
  BY <1>1, ServedRequest
<1>3. status \in [Conns -> Nat]
  BY DEF Implementing, Invariant, TypeOK
<1>4. Decided(c) = None
  BY <1>1, DecidedIs DEF Implementing
<1>5. ASSUME ~(status'[c] < 400) PROVE Serves(c)' /\ Promise(c)'
  BY <1>1, <1>5 DEF Serves, Promise, OnCourse, Open, Implementing
<1>6. CASE Reject(c)
  <2>1. Malformed(req[c]) /\ status'[c] = Refusal(req[c])
    BY <1>3, <1>6 DEF Reject
  <2>2. status'[c] >= 400 /\ ~(status'[c] < 400)
    BY <2>1 DEF Refusal
  <2>3. Decided(c)' = [status |-> Refusal(req[c]), results |-> <<>>]
    BY <1>1, <2>1, <2>2 DEF Decided
  <2>4. /\ Effect(c, req[c], store).status = Refusal(req[c])
        /\ Effect(c, req[c], store).results = <<>>
        /\ Effect(c, req[c], store).db = store
    BY <2>1 DEF Effect
  <2>5. Atomic!Decide(c)
    BY <1>1, <1>2, <1>4, <2>3, <2>4, DecideStep
  <2>6. QED
    BY <1>5, <2>2, <2>5 DEF StepImplements
<1>7. CASE BeginFails(c)
  <2>1. PICK s \in {400, 500} :
           /\ s = 400 => "alloc" \in Faults /\ HasBody(req[c])
           /\ status' = [status EXCEPT ![c] = s]
    BY <1>7, Zenon DEF BeginFails
  <2>2. s \in {408, 500} \/ (s = 400 /\ HasBody(req[c]))
    BY <2>1
  <2>3. status'[c] = s /\ s >= 400 /\ ~(s < 400)
    BY <1>3, <2>1
  <2>4. Decided(c)' = [status |-> s, results |-> <<>>]
    BY <1>1, <2>3 DEF Decided
  <2>5. Atomic!GiveUp(c)
    BY <1>1, <1>2, <1>4, <2>2, <2>4, GiveUpStep
  <2>6. QED
    BY <1>5, <2>3, <2>5 DEF StepImplements
<1>8. QED
  BY <1>6, <1>7

\* TXN_BEGIN.  The instant of a read is here: its snapshot decides it.
LEMMA BeginImplements ==
    ASSUME Implementing, Invariant', NEW c \in Conns, Apart(c), Begin(c)
    PROVE  StepImplements(c)
<1>1. PICK r, db : r = req[c] /\ db = store
  OBVIOUS
<1>2. /\ pc[c] = "parsed" /\ ~Malformed(r)
      /\ pc'[c] = IF IsBatch(r) THEN "loop" ELSE "exec"
      /\ txn'[c] = [readonly |-> ReadOnlyRequest(r), base |-> db, view |-> db]
      /\ frames'[c] = <<FrameOf(r)>>
      /\ calls'[c] = 0 /\ req'[c] = r /\ r \in Requests /\ db \in Db
      /\ UNCHANGED <<store, req, reply>>
  BY <1>1 DEF Begin, GoTo, Implementing, Serves, Invariant, TypeOK
<1>3. /\ r \in Op /\ r.var = None /\ r # None
      /\ ReadOnlyRequest(r) <=> ~IsWrite(r)
  BY <1>1, <1>2, ServedRequest
<1>4. Serves(c)'
  BY <1>2 DEF Serves, Open
<1>5. Promise(c)'
  <2>1. PICK label, s, t : /\ label = pc'[c] /\ s = frames'[c] /\ t = txn'[c]
    OBVIOUS
  <2>2. s = <<FrameOf(r)>> /\ Len(s) = 1 /\ s[Len(s)] = FrameOf(r)
    BY <1>2, <2>1
  <2>3. Reached(t, 0, FrameOf(r)) = Start(db) /\ t.base = db
    BY <1>2, <2>1 DEF Reached, Start, FrameOf
  <2>4. /\ Left(c, label, FrameOf(r), Start(db)) = RunAll(c)[FrameOf(r).ops][Start(db)]
        /\ RunAll(c)[FrameOf(r).ops][Start(db)] \in Acc
    BY <1>2, <1>3, <2>1, LeftBegin
  <2>5. OnCourse(c, label, r, t, s, 0)
    BY <2>2, <2>3, <2>4, EndsOne DEF OnCourse
  <2>6. QED
    BY <1>2, <2>1, <2>5 DEF Promise
<1>6. Decided(c) = None
  BY <1>2, DecidedIs DEF Implementing
<1>7. pc'[c] \in {"loop", "exec", "end"} /\ txn'[c] # None
  BY <1>2 DEF Invariant, TxnWhileOpen, Open
<1>8. CASE ReadOnlyRequest(r)
  <2>1. Decided(c)' = [status |-> Effect(c, r, db).status,
                       results |-> Effect(c, r, db).results]
    BY <1>2, <1>7, <1>8 DEF Decided
  <2>2. Effect(c, r, db).db = db
    BY <1>2, <1>3, <1>8, ReadEffect
  <2>3. Atomic!Decide(c)
    BY <1>1, <1>2, <1>3, <1>6, <2>1, <2>2, DecideStep
  <2>4. QED
    BY <1>4, <1>5, <2>3 DEF StepImplements
<1>9. CASE ~ReadOnlyRequest(r)
  <2>1. Decided(c)' = None
    BY <1>2, <1>7, <1>9 DEF Decided
  <2>2. UNCHANGED Atomic!vars
    BY <1>2, <1>6, <2>1, StutterStep
  <2>3. QED
    BY <1>4, <1>5, <2>2 DEF StepImplements
<1>10. QED
  BY <1>8, <1>9

-----------------------------------------------------------------------------
\* A thread gives its request up.
LEMMA FailingImplements ==
    ASSUME Implementing, Invariant', NEW c \in Conns, Apart(c),
           pc[c] \in {"loop", "exec"}, pc'[c] = "cleanup",
           NEW s, s \in {408, 500} \/ (s = 400 /\ IsBatch(req[c])),
           status'[c] = s, txn'[c].readonly = txn[c].readonly,
           UNCHANGED <<store, req, reply>>
    PROVE  StepImplements(c)
<1>1. /\ req[c] # None /\ reply[c] = None
      /\ txn[c].readonly <=> ~IsWrite(req[c])
  BY ServedRequest DEF Open
<1>2. Serves(c)'
  BY DEF Serves, Implementing, Open
<1>3. Promise(c)'
  BY DEF Promise, OnCourse
<1>4. ~IsWrite(req[c]) \/ Decided(c) = None
  BY <1>1, DecidedIs DEF Implementing
<1>5. Decided(c)' = [status |-> s, results |-> <<>>]
  BY DEF Decided
<1>6. s \in {408, 500} \/ (s = 400 /\ HasBody(req[c]))
  BY DEF HasBody
<1>7. Atomic!GiveUp(c)
  BY <1>1, <1>4, <1>5, <1>6, GiveUpStep
<1>8. QED
  BY <1>2, <1>3, <1>7 DEF StepImplements

\* It goes on: what its client may know stays the same.
LEMMA GoingOnImplements ==
    ASSUME Implementing, Invariant', NEW c \in Conns, Apart(c),
           pc[c] \in {"loop", "exec", "end"}, pc'[c] \in {"loop", "exec", "end"},
           txn'[c].readonly = txn[c].readonly, txn'[c].base = txn[c].base,
           UNCHANGED <<store, req, reply>>,
           Promise(c)'
    PROVE  StepImplements(c)
<1>1. Serves(c)'
  BY DEF Serves, Implementing, Open
<1>2. Decided(c)' = Decided(c)
  BY RunningKeeps DEF Implementing
<1>3. UNCHANGED Atomic!vars
  BY <1>2, StutterStep
<1>4. QED
  BY <1>1, <1>3 DEF StepImplements

LEMMA TimeoutImplements ==
    ASSUME Implementing, Invariant', NEW c \in Conns, Apart(c),
           BatchTimeout(c) \/ HandlerTimeout(c) \/ AllocationFails(c)
    PROVE  StepImplements(c)
<1>1. /\ pc[c] \in {"loop", "exec"} /\ pc'[c] = "cleanup" /\ txn'[c] = txn[c]
      /\ UNCHANGED <<store, req, reply>>
  BY DEF BatchTimeout, HandlerTimeout, AllocationFails, Fail, GoTo, Implementing,
         Invariant, TypeOK
<1>2. PICK s : s = status'[c]
  OBVIOUS
<1>3. s \in {408, 500} \/ (s = 400 /\ IsBatch(req[c]))
  <2>1. status \in [Conns -> Nat]
    BY DEF Implementing, Invariant, TypeOK
  <2>2. CASE BatchTimeout(c)
    <3>1. IsBatch(req[c])
      BY <2>2 DEF BatchTimeout, Implementing, Invariant, Stacks, StackOf
    <3>2. QED
      BY <1>2, <2>1, <2>2, <3>1 DEF BatchTimeout
  <2>3. CASE HandlerTimeout(c)
    BY <1>2, <2>1, <2>3 DEF HandlerTimeout, Fail
  <2>4. CASE AllocationFails(c)
    BY <1>2, <2>1, <2>4 DEF AllocationFails
  <2>5. QED
    BY <2>2, <2>3, <2>4
<1>4. QED
  BY <1>1, <1>2, <1>3, FailingImplements

\* The stack with another handler on top.
WithTop(s, g) == [s EXCEPT ![Len(s)] = g]

LEMMA TopReplaced ==
    ASSUME NEW s, IsStack(s), NEW g, NEW t, t = WithTop(s, g)
    PROVE  /\ Len(t) = Len(s) /\ t[Len(t)] = g
           /\ \A k \in 1..Len(s) - 1 : t[k] = s[k]
<1>1. Len(s) \in Nat /\ Len(s) >= 1 /\ s \in Seq(Frame)
  BY StackTop DEF IsStack
<1>2. DOMAIN s = 1..Len(s) /\ DOMAIN t = 1..Len(s)
  BY <1>1 DEF WithTop
<1>3. Len(t) = Len(s)
  BY <1>1, <1>2, LenProperties
<1>4. QED
  BY <1>1, <1>2, <1>3 DEF WithTop

LEMMA NextOperationImplements ==
    ASSUME Implementing, Invariant', NEW c \in Conns, Apart(c), NextOperation(c)
    PROVE  StepImplements(c)
<1>1. PICK s, t, n, r, label :
        /\ s = frames[c] /\ t = txn[c] /\ n = calls[c] /\ r = req[c] /\ label = pc[c]
  OBVIOUS
<1>2. PICK f : f = s[Len(s)]
  OBVIOUS
<1>3. PICK acc : acc = Reached(t, n, f)
  OBVIOUS
<1>4. PICK op : op = f.ops[Index(f)]
  OBVIOUS
<1>5. /\ label = "loop" /\ IsBatch(r) /\ Top(c) = f /\ Current(c) = op
      /\ IsStack(s) /\ f \in Frame
  BY <1>1, <1>2, <1>4, CurrentHandler
     DEF NextOperation, Top, Current, Implementing, Invariant, Stacks, StackOf, Open
<1>6. Standing(f, acc) /\ Len(s) \in Nat /\ Len(s) >= 1
  BY <1>1, <1>2, <1>3, <1>5, ThreadStands DEF Implementing
<1>7. /\ Index(f) <= Len(f.ops) /\ Index(f) \in 1..(Len(f.ops) + 1) /\ Len(f.ops) \in Nat
      /\ Index(f) # Len(f.ops) + 1
  <2>1. Index(f) <= Len(f.ops) /\ Len(f.ops) \in Nat
    BY <1>5, FrameParts DEF NextOperation
  <2>2. QED
    BY <1>6, <2>1 DEF Standing
<1>8. UNCHANGED <<store, req, txn, calls, reply>>
  BY DEF NextOperation
<1>9. CASE Resolvable(op, f.results)
  <2> DEFINE new == Substitute(op, f.results)
  <2>1. PICK g : g = [f EXCEPT !.ops[Index(f)] = new]
    OBVIOUS
  <2>2. PICK u : u = WithTop(s, g)
    OBVIOUS
  <2>3. /\ pc'[c] = "exec"
        /\ frames' = [frames EXCEPT ![c][Len(frames[c])].ops[Index(f)] = new]
    BY <1>5, <1>9 DEF NextOperation, GoTo, Implementing, Invariant, TypeOK
  <2>4. frames'[c] = u
    BY <1>1, <1>2, <2>1, <2>2, <2>3 DEF WithTop, Implementing, Invariant, TypeOK
  <2>5. Len(u) = Len(s) /\ u[Len(u)] = g /\ \A k \in 1..Len(s) - 1 : u[k] = s[k]
    BY <1>5, <2>2, TopReplaced
  <2>6. Left(c, "exec", g, acc) = Left(c, "loop", f, acc)
    BY <1>4, <1>6, <1>7, <1>9, <2>1, LeftNext
  <2>7. Reached(t, n, g) = acc
    BY <1>3, <1>5, <2>1 DEF Reached, Frame
  <2>8. PICK last, first : /\ last = Left(c, "loop", f, acc)
                           /\ first = RunAll(c)[FrameOf(r).ops][Start(t.base)]
    OBVIOUS
  <2>9. Ends(c, s, last, first)
    BY <1>1, <1>2, <1>3, <1>5, <2>8 DEF Implementing, Promise, OnCourse
  <2>10. Ends(c, u, last, first)
    BY <1>6, <2>5, <2>9, EndsSame
  <2>11. OnCourse(c, "exec", r, t, u, n)
    BY <2>5, <2>6, <2>7, <2>8, <2>10 DEF OnCourse
  <2>12. Promise(c)'
    BY <1>1, <1>8, <2>3, <2>4, <2>11 DEF Promise
  <2>13. QED
    BY <1>1, <1>5, <1>8, <2>3, <2>12, GoingOnImplements
<1>10. CASE ~Resolvable(op, f.results)
  <2>1. pc'[c] = "cleanup" /\ status'[c] = 400
    BY <1>1, <1>5, <1>10 DEF NextOperation, Fail, GoTo, Implementing, Invariant, TypeOK
  <2>2. /\ pc[c] \in {"loop", "exec"} /\ IsBatch(req[c])
        /\ txn'[c].readonly = txn[c].readonly
        /\ UNCHANGED <<store, req, reply>>
    BY <1>1, <1>5, <1>8
  <2>3. QED
    BY <2>1, <2>2, FailingImplements
<1>11. QED
  BY <1>9, <1>10

LEMMA BatchDoneImplements ==
    ASSUME Implementing, Invariant', NEW c \in Conns, Apart(c), BatchDone(c)
    PROVE  StepImplements(c)
<1>1. PICK s, t, n, r :
        /\ s = frames[c] /\ t = txn[c] /\ n = calls[c] /\ r = req[c]
  OBVIOUS
<1>2. PICK f : f = s[Len(s)]
  OBVIOUS
<1>3. PICK acc : acc = Reached(t, n, f)
  OBVIOUS
<1>4. /\ pc[c] = "loop" /\ Top(c) = f /\ IsStack(s) /\ f \in Frame /\ WellFormed(f)
      /\ s \in Seq(Frame)
  BY <1>1, <1>2, CurrentHandler DEF BatchDone, Top, Implementing, Open, IsStack
<1>5. Standing(f, acc) /\ Len(s) \in Nat /\ Len(s) >= 1
  BY <1>1, <1>2, <1>3, <1>4, ThreadStands DEF Implementing
<1>6. Index(f) = Len(f.ops) + 1
  <2>1. Index(f) > Len(f.ops) /\ Len(f.ops) \in Nat
    BY <1>4, FrameParts DEF BatchDone
  <2>2. QED
    BY <1>5, <2>1 DEF Standing
<1>7. UNCHANGED <<store, req, txn, calls, reply>>
  BY DEF BatchDone
<1>8. Left(c, "loop", f, acc) = acc /\ Left(c, "end", f, acc) = acc /\ acc \in Acc
  BY <1>5, <1>6, LeftNothing DEF Standing
<1>9. PICK first : first = RunAll(c)[FrameOf(r).ops][Start(t.base)]
  OBVIOUS
<1>10. Ends(c, s, acc, first)
  BY <1>1, <1>2, <1>3, <1>4, <1>8, <1>9 DEF Implementing, Promise, OnCourse
<1>11. CASE Len(s) = 1
  <2>1. pc'[c] = "end" /\ frames'[c] = s
    BY <1>1, <1>11 DEF BatchDone, GoTo, Implementing, Invariant, TypeOK
  <2>2. OnCourse(c, "end", r, t, s, n)
    BY <1>2, <1>3, <1>8, <1>9, <1>10 DEF OnCourse
  <2>3. Promise(c)'
    BY <1>1, <1>7, <2>1, <2>2 DEF Promise
  <2>4. QED
    BY <1>1, <1>4, <1>7, <2>1, <2>3, GoingOnImplements
<1>12. CASE Len(s) > 1
  <2>1. PICK p : p = Pop(s)
    OBVIOUS
  <2>2. PICK g : g = s[Len(s) - 1]
    OBVIOUS
  <2>3. /\ IsStack(p) /\ Len(p) = Len(s) - 1 /\ g \in Frame
        /\ \A k \in 1..Len(p) : p[k] = s[k]
    <3>1. IsStack(p) /\ Len(p) = Len(s) - 1
      BY <1>4, <1>12, <2>1, StackPop
    <3>2. \A k \in 1..Len(s) : s[k] \in Frame
      BY <1>4, ElementOfSeq
    <3>3. Len(s) - 1 \in 1..Len(s)
      BY <1>5, <1>12
    <3>4. ASSUME NEW k \in 1..Len(p) PROVE p[k] = s[k]
      <4>1. \A j \in 1..Len(s) - 1 : s[j] \in Frame
        BY <1>5, <3>2
      <4>2. \A j \in 1..(Len(s) - 1) - 1 + 1 : SubSeq(s, 1, Len(s) - 1)[j] = s[1 + j - 1]
        BY <1>5, <4>1, SubSeqProperties
      <4>3. k \in 1..(Len(s) - 1) - 1 + 1 /\ 1 + k - 1 = k
        BY <1>5, <3>1
      <4>4. QED
        BY <2>1, <4>2, <4>3 DEF Pop
    <3>5. QED
      BY <2>2, <3>1, <3>2, <3>3, <3>4
  <2>4. PICK h : h = Recorded(g, Empty(200))
    OBVIOUS
  <2>5. PICK u : u = WithTop(p, h)
    OBVIOUS
  <2>6. Len(p) \in 1..Len(p) /\ p[Len(p)] = g
    BY <1>5, <1>12, <2>2, <2>3
  <2>7. /\ pc'[c] = "loop" /\ frames' = [frames EXCEPT ![c] = Record(Pop(@), Empty(200))]
    <3>1. Len(frames[c]) # 1
      <4>1. \A m \in Nat : m > 1 => m # 1
        OBVIOUS
      <4>2. QED
        BY <1>1, <1>5, <1>12, <4>1
    <3>2. QED
      BY <1>4, <3>1 DEF BatchDone
  <2>8. frames'[c] = u
    BY <1>1, <2>1, <2>4, <2>5, <2>6, <2>7
       DEF WithTop, Record, Recorded, Implementing, Invariant, TypeOK
  <2>9. Len(u) = Len(p) /\ u[Len(u)] = h /\ \A k \in 1..Len(p) - 1 : u[k] = p[k]
    BY <2>3, <2>5, TopReplaced
  <2>10. Ends(c, u, Waits(c, g, acc), first)
    <3>1. Len(u) = Len(s) - 1 /\ \A k \in 1..Len(u) - 1 : u[k] = s[k]
      BY <1>5, <2>3, <2>9
    <3>2. QED
      BY <1>5, <1>10, <1>12, <2>2, <3>1, EndsPop
  <2>11. PICK next : next = [acc EXCEPT !.results = h.results]
    OBVIOUS
  <2>12. next = Reached(t, n, h)
    BY <1>3, <2>11 DEF Reached
  <2>13. Left(c, "loop", h, next) = Waits(c, g, acc)
    <3>1. g \in Frame /\ acc \in Acc
      BY <1>8, <2>3
    <3>2. QED
      BY <3>1, <2>4, <2>11, LeftReturn
  <2>14. OnCourse(c, "loop", r, t, u, n)
    BY <1>9, <2>9, <2>10, <2>12, <2>13 DEF OnCourse
  <2>15. Promise(c)'
    BY <1>1, <1>7, <2>7, <2>8, <2>14 DEF Promise
  <2>16. QED
    BY <1>1, <1>4, <1>7, <2>7, <2>15, GoingOnImplements
<1>13. \A m \in Nat : m >= 1 => m = 1 \/ m > 1
  OBVIOUS
<1>14. QED
  BY <1>5, <1>11, <1>12, <1>13

LEMMA EnterBatchImplements ==
    ASSUME Implementing, Invariant', NEW c \in Conns, Apart(c), EnterBatch(c)
    PROVE  StepImplements(c)
<1>1. PICK s, t, n, r :
        /\ s = frames[c] /\ t = txn[c] /\ n = calls[c] /\ r = req[c]
  OBVIOUS
<1>2. PICK f : f = s[Len(s)]
  OBVIOUS
<1>3. PICK acc : acc = Reached(t, n, f)
  OBVIOUS
<1>4. PICK op : op = f.ops[Index(f)]
  OBVIOUS
<1>5. /\ pc[c] = "exec" /\ Top(c) = f /\ Current(c) = op /\ IsBatch(op)
      /\ s \in Seq(Frame)
  BY <1>1, <1>2, <1>4, CurrentHandler
     DEF EnterBatch, Top, Current, Implementing, Open, IsStack
<1>6. /\ Standing(f, acc) /\ Len(s) \in Nat /\ Len(s) >= 1
      /\ Index(f) # Len(f.ops) + 1
  BY <1>1, <1>2, <1>3, <1>5, ThreadStands DEF Implementing
<1>7. UNCHANGED <<store, req, txn, calls, reply>>
  BY DEF EnterBatch
<1>8. IsBatch(r)
  \* a lone operation that is a batch would be the request itself
  <2>1. SUFFICES ASSUME ~IsBatch(req[c]) PROVE FALSE
    BY <1>1
  <2>2. Len(s) = 1 /\ f.ops = <<r>>
    BY <1>1, <1>2, <1>5, <2>1 DEF Implementing, Invariant, Stacks, StackOf, Open
  <2>3. Len(f.ops) = 1 /\ f.ops[1] = r
    BY <2>2
  <2>4. Index(f) = 1
    BY <1>6, <2>3 DEF Standing
  <2>5. QED
    BY <1>1, <1>4, <1>5, <2>1, <2>3, <2>4
<1>9. CASE BatchRefused(op)
  <2>1. pc'[c] = "cleanup" /\ status'[c] = 400
    BY <1>1, <1>5, <1>8, <1>9 DEF EnterBatch, Fail, GoTo, Implementing, Invariant, TypeOK
  <2>2. QED
    BY <1>1, <1>5, <1>7, <1>8, <2>1, FailingImplements
<1>10. CASE ~BatchRefused(op)
  <2>1. PICK g, u : g = FrameOf(op) /\ u = Append(s, g)
    OBVIOUS
  <2>2. pc'[c] = "loop" /\ frames'[c] = u
    BY <1>1, <1>5, <1>10, <2>1 DEF EnterBatch, GoTo, Implementing, Invariant, TypeOK
  <2>3. PICK start : start = [acc EXCEPT !.results = <<>>]
    OBVIOUS
  <2>4. PICK final : final = Left(c, "loop", g, start)
    OBVIOUS
  <2>5. /\ final \in Acc /\ Standing(g, start)
        /\ Left(c, "exec", f, acc) = Waits(c, f, final)
    BY <1>4, <1>5, <1>6, <1>10, <2>1, <2>3, <2>4, LeftEnter
  <2>6. /\ Len(u) = Len(s) + 1 /\ u[Len(u)] = g
        /\ \A k \in 1..Len(s) : u[k] = s[k]
    BY <1>5, <2>1, <2>5, AppendProperties DEF Standing
  <2>7. PICK first : first = RunAll(c)[FrameOf(r).ops][Start(t.base)]
    OBVIOUS
  <2>8. Ends(c, s, Waits(c, f, final), first)
    BY <1>1, <1>2, <1>3, <1>5, <2>5, <2>7 DEF Implementing, Promise, OnCourse
  <2>9. Ends(c, u, final, first)
    BY <1>2, <1>6, <2>5, <2>6, <2>8, EndsPush
  <2>10. start = Reached(t, n, g)
    BY <1>3, <2>1, <2>3 DEF Reached, FrameOf
  <2>11. OnCourse(c, "loop", r, t, u, n)
    BY <2>4, <2>6, <2>7, <2>9, <2>10 DEF OnCourse
  <2>12. Promise(c)'
    BY <1>1, <1>7, <2>2, <2>11 DEF Promise
  <2>13. QED
    BY <1>1, <1>5, <1>7, <2>2, <2>12, GoingOnImplements
<1>11. QED
  BY <1>9, <1>10

\* A handler of a route, within a batch or alone.
LEMMA ExecuteImplements ==
    ASSUME Implementing, Invariant', NEW c \in Conns, Apart(c), Execute(c)
    PROVE  StepImplements(c)
<1>1. PICK s, t, n, r :
        /\ s = frames[c] /\ t = txn[c] /\ n = calls[c] /\ r = req[c]
  OBVIOUS
<1>2. PICK f : f = s[Len(s)]
  OBVIOUS
<1>3. PICK acc : acc = Reached(t, n, f)
  OBVIOUS
<1>4. PICK op : op = f.ops[Index(f)]
  OBVIOUS
<1>5. PICK out : out = Handle(acc.db, op, Fresh[c][acc.calls])
  OBVIOUS
<1>6. acc.db = t.view /\ acc.calls = n /\ acc.results = f.results /\ acc.failed = None
  BY <1>3 DEF Reached
<1>7. /\ pc[c] = "exec" /\ Top(c) = f /\ Current(c) = op /\ ~IsBatch(op)
      /\ IsStack(s) /\ n < MaxCalls
  BY <1>1, <1>2, <1>4, CurrentHandler DEF Execute, Top, Current, Implementing, Open
<1>8. /\ Standing(f, acc) /\ Len(s) \in Nat /\ Len(s) >= 1
      /\ Index(f) # Len(f.ops) + 1
      /\ t \in Txn /\ t.base \in Db /\ t.view \in Db /\ n \in 0..MaxCalls
  BY <1>1, <1>2, <1>3, <1>7, ThreadStands DEF Implementing, Invariant, TypeOK
<1>9. acc.calls # MaxCalls
  BY <1>6, <1>7, <1>8, ServerAssumption
<1>10. /\ f \in Frame /\ acc \in Acc /\ op \in Op
       /\ f.ops \in Seq(Op) /\ Len(f.ops) \in Nat /\ Index(f) \in 1..Len(f.ops)
  <2>1. f \in Frame /\ acc \in Acc /\ Index(f) \in 1..(Len(f.ops) + 1)
    BY <1>8 DEF Standing
  <2>2. f.ops \in Seq(Op) /\ Len(f.ops) \in Nat
    BY <2>1, FrameParts
  <2>3. Index(f) \in 1..Len(f.ops)
    BY <1>8, <2>1, <2>2
  <2>4. QED
    BY <1>4, <2>1, <2>2, <2>3, ElementOfSeq
<1>11. out \in Outcomes /\ Handled(c, acc, op) \in Acc
  BY <1>5, <1>9, <1>10, HandledType
<1>12. out.db \in Db /\ out.result \in Result /\ out.result.status \in Nat
  BY <1>11 DEF Outcomes, Result
<1>13. out = Handle(txn[c].view, Current(c), Fresh[c][calls[c]])
  BY <1>1, <1>5, <1>6, <1>7
<1>14. PICK u : u = [t EXCEPT !.view = out.db]
  OBVIOUS
<1>15. /\ txn'[c] = u /\ calls'[c] = n + 1
       /\ u.view = out.db /\ u.base = t.base /\ u.readonly = t.readonly
       /\ UNCHANGED <<store, req, reply>>
  BY <1>1, <1>8, <1>13, <1>14 DEF Execute, Implementing, Invariant, TypeOK, Txn
<1>16. ~Malformed(r) /\ r \in Op /\ r # None /\ (t.readonly <=> ~IsWrite(r))
  BY <1>1, <1>7, ServedRequest DEF Implementing, Serves, Open
<1>17. CASE ~(out.result.status >= 400)
  <2>1. PICK label : label = IF IsBatch(r) THEN "loop" ELSE "end"
    OBVIOUS
  <2>2. PICK g : g = Recorded(f, out.result)
    OBVIOUS
  <2>3. PICK v : v = WithTop(s, g)
    OBVIOUS
  <2>4. pc'[c] = label /\ frames'[c] = v
    BY <1>1, <1>2, <1>13, <1>17, <2>1, <2>2, <2>3
       DEF Execute, GoTo, Record, Recorded, WithTop, Implementing, Invariant, TypeOK
  <2>5. Len(v) = Len(s) /\ v[Len(v)] = g /\ \A k \in 1..Len(s) - 1 : v[k] = s[k]
    BY <1>7, <2>3, TopReplaced
  <2>6. PICK next : next = [db |-> out.db, calls |-> acc.calls + 1,
                            results |-> g.results, failed |-> None]
    OBVIOUS
  <2>7. next = Reached(u, n + 1, g)
    BY <1>6, <1>15, <2>6 DEF Reached
  <2>8. label # "exec" /\ label \in {"loop", "exec", "end"}
    BY <2>1
  <2>9. Left(c, label, g, next) = Left(c, "exec", f, acc)
    <3>1. g.ops = f.ops /\ g.results = Append(f.results, out.result)
          /\ Index(g) = Index(f) + 1
      BY <1>10, <1>12, <2>2, RecordedParts
    <3>2. next = Handled(c, acc, op)
      BY <1>5, <1>6, <1>17, <2>6, <3>1 DEF Handled
    <3>3. Operate(c, RunAll(c), acc, op) = next
      BY <1>7, <1>9, <3>2, OperateIs
    <3>4. QED
      BY <1>4, <2>8, <3>1, <3>3 DEF Left
  <2>10. PICK last, first : /\ last = Left(c, "exec", f, acc)
                            /\ first = RunAll(c)[FrameOf(r).ops][Start(t.base)]
    OBVIOUS
  <2>11. Ends(c, s, last, first)
    BY <1>1, <1>2, <1>3, <1>7, <2>10 DEF Implementing, Promise, OnCourse
  <2>12. Ends(c, v, last, first)
    BY <1>8, <2>5, <2>11, EndsSame
  <2>13. OnCourse(c, label, r, u, v, n + 1)
    BY <1>15, <2>5, <2>7, <2>9, <2>10, <2>12 DEF OnCourse
  <2>14. Promise(c)'
    BY <1>1, <1>15, <2>4, <2>13 DEF Promise
  <2>15. QED
    BY <1>1, <1>7, <1>15, <2>4, <2>8, <2>14, GoingOnImplements
<1>18. CASE out.result.status >= 400
  <2>1. PICK e : e = out.result.status
    OBVIOUS
  <2>2. pc'[c] = "cleanup" /\ status'[c] = IF IsBatch(r) THEN 400 ELSE e
    BY <1>1, <1>13, <1>18, <2>1 DEF Execute, Fail, GoTo, Implementing, Invariant, TypeOK
  <2>3. CASE IsBatch(r)
    <3>1. /\ pc[c] \in {"loop", "exec"} /\ IsBatch(req[c]) /\ status'[c] = 400
          /\ txn'[c].readonly = txn[c].readonly
      BY <1>1, <1>7, <1>15, <2>2, <2>3
    <3>2. QED
      BY <1>15, <2>2, <3>1, FailingImplements
  <2>4. CASE ~IsBatch(r)
    <3>1. Len(s) = 1
      BY <1>1, <1>7, <2>4 DEF Implementing, Invariant, Stacks, StackOf, Open
    <3>2. Operate(c, RunAll(c), acc, op) = Handled(c, acc, op)
      BY <1>7, <1>9, OperateIs
    <3>3. PICK final : final = Handled(c, acc, op)
      OBVIOUS
    <3>4. final \in Acc /\ final.failed = e /\ e # None
      BY <1>5, <1>11, <1>12, <1>18, <2>1, <3>3, NoneIsFresh DEF Handled
    <3>5. Left(c, "exec", f, acc) = final
      <4>1. Index(f) + 1 \in 1..(Len(f.ops) + 1)
        BY <1>10
      <4>2. RunAll(c)[From(f.ops, Index(f) + 1)][final] = final
        BY <1>10, <3>4, <4>1, RunFrom
      <4>3. QED
        BY <1>4, <3>2, <3>3, <4>2 DEF Left
    <3>6. RunAll(c)[FrameOf(r).ops][Start(t.base)] = final
      BY <1>1, <1>3, <1>7, <3>1, <3>4, <3>5, WholeRequest
    <3>7. /\ Effect(c, r, t.base).status = e
          /\ Effect(c, r, t.base).results = <<>>
          /\ Effect(c, r, t.base).db = t.base
      BY <1>16, <2>4, <3>4, <3>6 DEF Effect
    <3>8. Decided(c)' = [status |-> e, results |-> <<>>]
      BY <2>2, <2>4 DEF Decided
    <3>9. Serves(c)'
      BY <1>1, <1>7, <1>15, <1>18, <2>1, <2>2, <2>4 DEF Serves, Implementing, Open
    <3>10. Promise(c)'
      BY <2>2 DEF Promise, OnCourse
    <3>11. CASE t.readonly
      <4>1. Decided(c)' = Decided(c)
        BY <1>1, <1>7, <3>7, <3>8, <3>11, DecidedIs DEF Implementing
      <4>2. UNCHANGED Atomic!vars
        BY <1>15, <4>1, StutterStep
      <4>3. QED
        BY <3>9, <3>10, <4>2 DEF StepImplements
    <3>12. CASE ~t.readonly
      <4>1. t.base = store /\ Decided(c) = None
        <5>1. txn[c] # None
          BY <1>7 DEF Implementing, Invariant, TxnWhileOpen, Open
        <5>2. QED
          BY <1>1, <1>7, <3>12, <5>1, DecidedIs DEF Implementing, Invariant, BaseIsLatest
      <4>2. Atomic!Decide(c)
        BY <1>1, <1>15, <1>16, <3>7, <3>8, <4>1, DecideStep
      <4>3. QED
        BY <3>9, <3>10, <4>2 DEF StepImplements
    <3>13. QED
      BY <3>11, <3>12
  <2>5. QED
    BY <2>3, <2>4
<1>19. QED
  BY <1>17, <1>18

-----------------------------------------------------------------------------
\* A request that is one operation is that operation.
LEMMA OneOperation ==
    ASSUME NEW c \in Conns, NEW r \in Op, ~IsBatch(r), r.var = None, NEW db \in Db
    PROVE  RunAll(c)[FrameOf(r).ops][Start(db)] = Operate(c, RunAll(c), Start(db), r)
<1>1. FrameOf(r).ops = <<r>>
  BY DEF FrameOf
<1>2. PICK ops : ops = <<r>>
  OBVIOUS
<1>3. ops \in Seq(Op) /\ Len(ops) = 1 /\ ops[1] = r
  BY <1>2
<1>4. Start(db) \in Acc /\ Start(db).failed = None /\ Start(db).results = <<>>
  BY StartType DEF Start
<1>5. Resolvable(ops[1], Start(db).results) /\ Substitute(ops[1], Start(db).results) = r
  BY <1>3 DEF Resolvable, Substitute
<1>6. /\ 1 \in 1..(Len(ops) + 1) /\ 1 # Len(ops) + 1
      /\ 2 \in 1..(Len(ops) + 1) /\ 2 = Len(ops) + 1
  BY <1>3
<1>7. RunAll(c)[From(ops, 1)][Start(db)]
        = RunAll(c)[From(ops, 1 + 1)][
              Operate(c, RunAll(c), Start(db),
                      Substitute(ops[1], Start(db).results))]
  BY <1>3, <1>4, <1>5, <1>6, RunFrom
<1>8. Operate(c, RunAll(c), Start(db), r) \in Acc
  BY <1>4, RunAllIs, OperateType
<1>9. RunAll(c)[From(ops, 2)][Operate(c, RunAll(c), Start(db), r)]
        = Operate(c, RunAll(c), Start(db), r)
  BY <1>3, <1>6, <1>8, RunFrom
<1>10. From(ops, 1) = ops
  BY <1>3, RunWhole
<1>11. QED
  BY <1>1, <1>2, <1>5, <1>7, <1>9, <1>10

\* At the end of a request, its effect is what the thread has in its hands.
LEMMA EndOfRequest ==
    ASSUME Implementing, NEW c \in Conns, pc[c] = "end"
    PROVE  /\ Effect(c, req[c], txn[c].base).results = frames[c][1].results
           /\ Effect(c, req[c], txn[c].base).db = txn[c].view
           /\ Effect(c, req[c], txn[c].base).status
                = IF IsBatch(req[c]) THEN 200 ELSE frames[c][1].results[1].status
           /\ ~IsBatch(req[c]) => frames[c][1].results[1].status < 400
           /\ txn[c].readonly =>
                 Effect(c, req[c], txn[c].base).status = 200
           /\ Len(frames[c]) = 1
<1>1. PICK t, f, r : t = txn[c] /\ f = Top(c) /\ r = req[c]
  OBVIOUS
<1>2. PICK acc : acc = Reached(t, calls[c], f)
  OBVIOUS
<1>3. /\ Standing(f, acc) /\ Index(f) = Len(f.ops) + 1 /\ Len(frames[c]) = 1
      /\ f = frames[c][1] /\ t.base \in Db
  BY <1>1, <1>2, ThreadStands DEF Implementing
<1>4. acc \in Acc /\ acc.failed = None /\ acc.results = f.results /\ acc.db = t.view
  BY <1>2, <1>3 DEF Standing, Reached
<1>5. Left(c, "end", f, acc) = acc
  BY <1>3, LeftNothing
<1>6. RunAll(c)[FrameOf(r).ops][Start(t.base)] = acc
  BY <1>1, <1>2, <1>3, <1>4, <1>5, WholeRequest
<1>7. /\ ~Malformed(r) /\ r \in Op /\ r.var = None /\ (t.readonly <=> ~IsWrite(r))
      /\ t.readonly = ReadOnlyRequest(r)
  BY <1>1, ServedRequest DEF Implementing, Serves, Open
<1>8. /\ Effect(c, r, t.base).results = f.results
      /\ Effect(c, r, t.base).db = t.view
      /\ Effect(c, r, t.base).status = IF IsBatch(r) THEN 200 ELSE f.results[1].status
  BY <1>4, <1>6, <1>7 DEF Effect
<1>9. ASSUME ~IsBatch(r)
      PROVE  /\ f.results[1].status < 400
             /\ t.readonly => f.results[1].status = 200
  <2>1. PICK start : start = Start(t.base)
    OBVIOUS
  <2>2. start \in Acc /\ start.db = t.base /\ start.results = <<>>
    BY <1>3, <2>1, StartType DEF Start
  <2>3. acc = Operate(c, RunAll(c), start, r)
    BY <1>3, <1>6, <1>7, <1>9, <2>1, OneOperation
  <2>4. start.calls # MaxCalls
    <3>1. FailWith(start, 500).failed = 500 /\ 500 # None
      BY <2>2, FailWithType, NoneIsFresh
    <3>2. QED
      BY <1>4, <1>9, <2>3, <3>1, OperateIs
  <2>5. acc = Handled(c, start, r)
    BY <1>9, <2>3, <2>4, OperateIs
  <2>6. PICK out : out = Handle(start.db, r, Fresh[c][start.calls])
    OBVIOUS
  <2>7. out \in Outcomes
    BY <1>7, <2>2, <2>4, <2>6, HandledType
  <2>8. out.result \in Result /\ out.result.status \in Nat
    BY <2>7 DEF Outcomes, Result
  <2>9. /\ acc.results = Append(<<>>, out.result)
        /\ acc.failed = IF out.result.status >= 400 THEN out.result.status ELSE None
    BY <2>2, <2>5, <2>6 DEF Handled
  <2>10. ~(out.result.status >= 400)
    BY <1>4, <2>8, <2>9, NoneIsFresh
  <2>11. f.results[1] = out.result
    <3>1. Append(<<>>, out.result)[1] = out.result
      OBVIOUS
    <3>2. QED
      BY <1>4, <2>9, <3>1
  <2>12. t.readonly => out.result.status = 200
    <3>1. t.readonly => r.kind \in ReadKinds
      BY <1>7, <1>9 DEF ReadOnlyRequest, IsBatch, BatchKinds
    <3>2. QED
      BY <2>6, <2>10, <3>1, ReadStatus
  <2>13. QED
    BY <2>8, <2>10, <2>11, <2>12
<1>10. QED
  BY <1>1, <1>3, <1>8, <1>9

LEMMA EndImplements ==
    ASSUME Implementing, Invariant', NEW c \in Conns, Apart(c),
           FinishRead(c) \/ Commit(c) \/ CommitFails(c)
    PROVE  StepImplements(c)
<1>1. /\ pc[c] = "end" /\ pc'[c] = "respond" /\ calls'[c] = calls[c]
      /\ frames'[c] = frames[c] /\ UNCHANGED <<req, reply>>
      /\ txn[c].readonly <=> FinishRead(c)
  BY DEF FinishRead, Commit, CommitFails, GoTo, Implementing, Invariant, TypeOK
<1>2. PICK t, r : t = txn[c] /\ r = req[c]
  OBVIOUS
<1>3. /\ req[c] # None /\ reply[c] = None /\ (t.readonly <=> ~IsWrite(r))
  BY <1>1, <1>2, ServedRequest DEF Open
<1>4. PICK effect : effect = Effect(c, r, t.base)
  OBVIOUS
<1>5. /\ effect.results = frames[c][1].results /\ effect.db = t.view
      /\ effect.status = IF IsBatch(r) THEN 200 ELSE frames[c][1].results[1].status
      /\ ~IsBatch(r) => frames[c][1].results[1].status < 400
      /\ t.readonly => effect.status = 200
      /\ Len(frames[c]) = 1
  BY <1>1, <1>2, <1>4, EndOfRequest
<1>6. Serves(c)'
  BY <1>1, <1>5 DEF Serves, Implementing, Open
<1>7. Promise(c)'
  BY <1>1 DEF Promise, OnCourse
<1>8. ASSUME status'[c] = effect.status, effect.status < 400
      PROVE  Decided(c)' = [status |-> effect.status, results |-> effect.results]
  BY <1>1, <1>5, <1>8 DEF Decided
<1>9. CASE FinishRead(c)
  <2>1. status'[c] = 200 /\ store' = store /\ t.readonly
    BY <1>2, <1>9 DEF FinishRead, Implementing, Invariant, TypeOK
  <2>2. Decided(c)' = Decided(c)
    BY <1>1, <1>2, <1>4, <1>5, <1>8, <2>1, DecidedIs DEF Implementing
  <2>3. UNCHANGED Atomic!vars
    BY <1>1, <2>1, <2>2, StutterStep
  <2>4. QED
    BY <1>6, <1>7, <2>3 DEF StepImplements
<1>10. CASE Commit(c)
  <2>1. /\ store' = t.view /\ ~t.readonly
        /\ status'[c] = effect.status /\ effect.status < 400
    BY <1>2, <1>5, <1>10 DEF Commit, Implementing, Invariant, TypeOK
  <2>2. t.base = store /\ Decided(c) = None
    <3>1. txn[c] # None
      BY <1>1 DEF Implementing, Invariant, TxnWhileOpen, Open
    <3>2. QED
      BY <1>1, <1>2, <2>1, <3>1, DecidedIs DEF Implementing, Invariant, BaseIsLatest
  <2>3. Atomic!Decide(c)
    BY <1>1, <1>2, <1>3, <1>4, <1>5, <1>8, <2>1, <2>2, DecideStep
  <2>4. QED
    BY <1>6, <1>7, <2>3 DEF StepImplements
<1>11. CASE CommitFails(c)
  <2>1. status'[c] = 500 /\ store' = store /\ ~t.readonly
    BY <1>2, <1>11 DEF CommitFails, Implementing, Invariant, TypeOK
  <2>2. Decided(c) = None /\ Decided(c)' = [status |-> 500, results |-> <<>>]
    BY <1>1, <1>2, <2>1, DecidedIs DEF Implementing, Decided
  <2>3. Atomic!GiveUp(c)
    BY <1>1, <1>3, <2>1, <2>2, GiveUpStep
  <2>4. QED
    BY <1>6, <1>7, <2>3 DEF StepImplements
<1>12. QED
  BY <1>9, <1>10, <1>11

\* cleanup: what was decided when the request failed stands.
LEMMA CleanupImplements ==
    ASSUME Implementing, Invariant', NEW c \in Conns, Apart(c), Cleanup(c)
    PROVE  StepImplements(c)
<1>1. /\ pc[c] = "cleanup" /\ pc'[c] = "respond"
      /\ UNCHANGED <<store, req, calls, frames, status, reply>>
      /\ status[c] \in Nat /\ status[c] >= 400
  BY DEF Cleanup, GoTo, Implementing, Serves, Invariant, TypeOK
<1>2. Serves(c)' /\ Promise(c)'
  BY <1>1 DEF Serves, Promise, OnCourse, Implementing, Open
<1>3. Decided(c)' = Decided(c)
  BY <1>1 DEF Decided
<1>4. UNCHANGED Atomic!vars
  BY <1>1, <1>3, StutterStep
<1>5. QED
  BY <1>2, <1>4 DEF StepImplements

LEMMA RespondImplements ==
    ASSUME Implementing, Invariant', NEW c \in Conns, Apart(c), Respond(c)
    PROVE  StepImplements(c)
<1>1. /\ pc[c] = "respond" /\ pc'[c] = "done"
      /\ UNCHANGED <<store, req, calls, frames, status>>
      /\ status[c] \in Nat /\ frames[c] \in Seq(Frame)
  BY DEF Respond, GoTo, Implementing, Invariant, TypeOK
<1>2. PICK s \in Sent(c) : reply' = [reply EXCEPT ![c] = s]
  BY DEF Respond
<1>3. Serves(c)' /\ Promise(c)'
  BY <1>1 DEF Serves, Promise, OnCourse, Implementing, Open
<1>4. Decided(c)' = Decided(c)
  BY <1>1 DEF Decided
<1>5. Decisions' = Decisions
  BY <1>4, DecisionsApart DEF Decisions
<1>6. PICK d : d = Decided(c)
  OBVIOUS
<1>7. d.status = status[c] /\ d # None
  <2>1. PICK results : results = IF status[c] < 400 THEN frames[c][1].results ELSE <<>>
    OBVIOUS
  <2>2. d = [status |-> status[c], results |-> results]
    BY <1>1, <1>6, <2>1 DEF Decided
  <2>3. results \in Seq(Result)
    <3>1. CASE status[c] < 400
      <4>1. Len(frames[c]) >= 1 /\ Len(frames[c]) \in Nat
        BY <1>1, <3>1, LenProperties DEF Implementing, Serves
      <4>2. frames[c][1] \in Frame
        BY <1>1, <4>1, ElementOfSeq
      <4>3. QED
        BY <2>1, <3>1, <4>2 DEF Frame
    <3>2. CASE ~(status[c] < 400)
      BY <2>1, <3>2, EmptySeq
    <3>3. QED
      BY <3>1, <3>2
  <2>4. [status |-> status[c], results |-> results] \in [status: Nat, results: Seq(Result)]
    BY <1>1, <2>3
  <2>5. QED
    BY <2>2, <2>4, ServerAssumption
<1>8. reply[c] = None
  BY <1>1, ServedRequest
<1>9. s \in {d.status, 413, 500}
  BY <1>7 DEF Sent
<1>10. Decisions[c] = d
  BY <1>6 DEF Decisions
<1>11. /\ UNCHANGED <<store, req>> /\ reply[c] = None /\ Decisions[c] # None
       /\ \E x \in {Decisions[c].status, 413, 500} : reply' = [reply EXCEPT ![c] = x]
       /\ UNCHANGED Decisions
  <2>1. Decisions[c] # None /\ s \in {Decisions[c].status, 413, 500}
    BY <1>7, <1>9, <1>10
  <2>2. \E x \in {Decisions[c].status, 413, 500} : reply' = [reply EXCEPT ![c] = x]
    <3>1. s \in {Decisions[c].status, 413, 500}
      BY <2>1
    <3> DEFINE Answers(x) == reply' = [reply EXCEPT ![c] = x]
    <3>2. Answers(s)
      BY <1>2
    <3> HIDE DEF Answers
    <3>3. \E x \in {Decisions[c].status, 413, 500} : Answers(x)
      BY <3>1, <3>2
    <3>4. QED
      BY <3>3 DEF Answers
  <2>3. QED
    BY <1>1, <1>5, <1>8, <2>1, <2>2
<1>12. Atomic!Answer(c)
  BY <1>11 DEF Atomic!Answer, Decisions
<1>13. QED
  BY <1>3, <1>12 DEF StepImplements

-----------------------------------------------------------------------------
(***************************************************************************)
(* Every step of the server is a step of the atomic store, or none.        *)
(***************************************************************************)
LEMMA Implements ==
    ASSUME Implementing, [Next]_vars
    PROVE  Implementing' /\ [Atomic!Next]_(Atomic!vars)
<1>1. Invariant'
  BY Inductive DEF Implementing
<1>2. ASSUME NEW c \in Conns, Thread(c)
      PROVE  Implementing' /\ [Atomic!Next]_(Atomic!vars)
  <2>1. Apart(c)
    BY <1>2, ThreadApart DEF Implementing
  <2>2. StepImplements(c)
    BY <1>1, <1>2, <2>1, ReceiveImplements, RefuseImplements, BeginImplements,
       NextOperationImplements, BatchDoneImplements, EnterBatchImplements,
       ExecuteImplements, TimeoutImplements, EndImplements, CleanupImplements,
       RespondImplements DEF Thread
  <2>3. \A d \in Conns \ {c} : Serves(d)' /\ Promise(d)'
    BY <2>1, DecisionsApart
  <2>4. Implementing'
    BY <1>1, <2>2, <2>3 DEF Implementing, StepImplements
  <2>5. [Atomic!Next]_(Atomic!vars)
    BY <2>2 DEF StepImplements, Atomic!Next
  <2>6. QED
    BY <2>4, <2>5
<1>3. ASSUME Tick \/ AllServed \/ UNCHANGED vars
      PROVE  Implementing' /\ [Atomic!Next]_(Atomic!vars)
  <2>1. UNCHANGED <<store, pc, req, txn, frames, calls, status, reply>>
    BY <1>3 DEF Tick, AllServed, vars
  <2>2. \A d \in Conns : Serves(d)' /\ Promise(d)' /\ Decided(d)' = Decided(d)
    BY <2>1, ThreadStays DEF Implementing
  <2>3. Decisions' = [d \in Conns |-> Decided(d)']
    BY DEF Decisions
  <2>4. Decisions' = Decisions
    BY <2>2, <2>3 DEF Decisions
  <2>5. UNCHANGED Atomic!vars
    BY <2>1, <2>4 DEF Atomic!vars, Decisions
  <2>6. QED
    BY <1>1, <2>2, <2>5 DEF Implementing
<1>4. QED
  BY <1>2, <1>3 DEF Next

LEMMA StartsImplementing == Init => Implementing /\ Atomic!Init
<1> SUFFICES ASSUME Init PROVE Implementing /\ Atomic!Init
  OBVIOUS
<1>1. Invariant
  BY Initial
<1>2. \A c \in Conns : /\ pc[c] = "idle" /\ req[c] = None /\ calls[c] = 0
                       /\ Decided(c) = None
  BY DEF Init, Decided
<1>3. \A c \in Conns : Serves(c) /\ Promise(c)
  BY <1>2 DEF Serves, Promise, OnCourse, Open
<1>4. Atomic!Init
  BY <1>2 DEF Init, Atomic!Init
<1>5. QED
  BY <1>1, <1>3, <1>4 DEF Implementing

\* Every request takes effect at one instant, as if alone, entirely or not at
\* all: whatever the threads do between TXN_BEGIN and TXN_COMMIT or TXN_ABORT,
\* and however batches are nested, clients cannot tell the server from the
\* atomic store.
THEOREM ServerIsLinearizable == Spec => Linearizable
<1>1. Init => Implementing /\ Atomic!Init
  BY StartsImplementing
<1>2. Implementing /\ [Next]_vars => Implementing' /\ [Atomic!Next]_(Atomic!vars)
  BY Implements
<1>3. QED
  BY <1>1, <1>2, PTL DEF Spec, Linearizable, Atomic!Spec

=============================================================================
