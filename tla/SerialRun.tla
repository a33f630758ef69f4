----------------------------- MODULE SerialRun ------------------------------
(***************************************************************************)
(* The meaning of a request: the whole of it executed on one database,     *)
(* with nobody else about.  A request that fails, on its own or in any     *)
(* operation of its batch, leaves the database as it was.                  *)
(***************************************************************************)
EXTENDS TxnServer

\* The database so far, the number of handlers run, the results of the batch
\* in progress, and the status of the operation that failed.
Acc == [db: Db, calls: 0..MaxCalls, results: Seq(Result),
        failed: Nat \cup {None}]

Start(db) == [db |-> db, calls |-> 0, results |-> <<>>, failed |-> None]

FailWith(acc, s) == [acc EXCEPT !.failed = s]

\* One operation more.  A batch inside a batch counts as one result; run says
\* what its operations do.
Operate(c, run, acc, op) ==
    LET inner == run[Body[op.body]][[acc EXCEPT !.results = <<>>]]
        out == Handle(acc.db, op, Fresh[c][acc.calls])
        s == out.result.status
    IN IF IsBatch(op)
       THEN IF BatchRefused(op) THEN FailWith(acc, 400)
            ELSE [inner EXCEPT !.results = Append(acc.results, Empty(200))]
       ELSE IF acc.calls = MaxCalls THEN FailWith(acc, 500)
       ELSE [db |-> out.db,
             calls |-> acc.calls + 1,
             results |-> Append(acc.results, out.result),
             failed |-> IF s >= 400 THEN s ELSE None]

\* The operations of a batch, from first to last or to the one that fails.
RunAll(c) ==
    LET run[ops \in Seq(Op)] ==
            [acc \in Acc |->
                IF ops = <<>> \/ acc.failed # None THEN acc
                ELSE IF ~Resolvable(Head(ops), acc.results)
                THEN FailWith(acc, 400)
                ELSE LET op == Substitute(Head(ops), acc.results)
                     IN run[Tail(ops)][Operate(c, run, acc, op)]]
    IN run

\* A whole request on one database: status, results and the new database.
Effect(c, op, db) ==
    LET run == RunAll(c)[FrameOf(op).ops][Start(db)]
        Failure(s) == [status |-> s, results |-> <<>>, db |-> db]
    IN IF Malformed(op) THEN Failure(Refusal(op))
       ELSE IF run.failed # None
       THEN Failure(IF IsBatch(op) THEN 400 ELSE run.failed)
       ELSE [status |-> IF IsBatch(op) THEN 200 ELSE run.results[1].status,
             results |-> run.results, db |-> run.db]

=============================================================================
