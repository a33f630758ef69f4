------------------------------ MODULE TxnServer ------------------------------
(***************************************************************************)
(* The transactions of LMJCore-Web.  The server runs a thread for each     *)
(* connection, and a connection carries one request: an operation of one   *)
(* route, or a batch of operations.  The thread parses the request, opens  *)
(* a transaction (TXN_BEGIN), checks the time it has used, runs the        *)
(* handler, or every operation of the batch, inside that transaction,      *)
(* commits or rolls back, and sends one response.                          *)
(*                                                                         *)
(* LMDB lets one write transaction run at a time: opening a second one     *)
(* waits.  Readers never wait, each reads the version that was committed   *)
(* last when it began.  A step of a handler touches only the view of its   *)
(* own transaction, so the steps that matter to other threads are begin,   *)
(* commit and rollback; time may pass between any two steps.               *)
(*                                                                         *)
(* A batch may hold batches.  handle_batch_core then runs again, on the    *)
(* transaction its caller passes in hp->txn, so a thread has a stack of    *)
(* frames, and only the handler at the bottom owns the transaction.        *)
(***************************************************************************)
EXTENDS Handlers, Integers

CONSTANTS
    Conns,          \* connections, and the threads that serve them
    Requests,       \* the requests clients may send
    InitDb,         \* the database the server starts with
    Fresh,          \* Fresh[c][i]: what the engine generates for c's i-th call
    MaxCalls,       \* bound: handlers one request may run
    Timeout,        \* txn_timeout, in clock seconds; 0 turns it off
    Faults          \* what may fail: "begin", "commit", "alloc", "oversize"

\* A transaction: what it began with, and its private view since.
Txn == [readonly: BOOLEAN, base: Db, view: Db]

\* A running handler: its operations, and the results it has so far.
Frame == [readonly: BOOLEAN, ops: Seq(Op), results: Seq(Result)]

ASSUME ServerAssumption ==
    /\ None \notin Conns \cup Op \cup Txn \cup Nat
    /\ None \notin [status: Nat, results: Seq(Result)]
    /\ Requests \subseteq {op \in Op : op.var = None}
    /\ InitDb \in Db
    /\ MaxCalls \in Nat
    /\ Fresh \in [Conns -> [0..MaxCalls -> [obj: ObjPtr, set: SetPtr]]]
    /\ Timeout \in Nat

VARIABLES
    store,      \* the committed database
    writer,     \* the connection that holds LMDB's write lock, or None
    pc,         \* where each thread is
    req,        \* the request of each connection
    txn,        \* its open transaction, or None
    frames,     \* the running batches, outermost first
    calls,      \* how many route handlers the thread has run
    age,        \* clock seconds since txn_start_time, up to Timeout
    status,     \* status of the response the handler has built
    detail,     \* status of the operation that failed, or None
    reply,      \* status sent to the client, or None
    applied     \* history: connections whose transaction was committed

vars == <<store, writer, pc, req, txn, frames, calls, age, status, detail,
          reply, applied>>

Labels == {"idle", "parsed", "loop", "exec", "end", "cleanup", "respond",
           "done"}

TypeOK ==
    /\ store \in Db
    /\ writer \in Conns \cup {None}
    /\ pc \in [Conns -> Labels]
    /\ req \in [Conns -> Op \cup {None}]
    /\ txn \in [Conns -> Txn \cup {None}]
    /\ frames \in [Conns -> Seq(Frame)]
    /\ calls \in [Conns -> 0..MaxCalls]
    /\ age \in [Conns -> 0..Timeout]
    /\ status \in [Conns -> Nat]
    /\ detail \in [Conns -> Nat \cup {None}]
    /\ reply \in [Conns -> Nat \cup {None}]
    /\ applied \subseteq Conns

Init ==
    /\ store = InitDb
    /\ writer = None
    /\ pc = [c \in Conns |-> "idle"]
    /\ req = [c \in Conns |-> None]
    /\ txn = [c \in Conns |-> None]
    /\ frames = [c \in Conns |-> <<>>]
    /\ calls = [c \in Conns |-> 0]
    /\ age = [c \in Conns |-> 0]
    /\ status = [c \in Conns |-> 0]
    /\ detail = [c \in Conns |-> None]
    /\ reply = [c \in Conns |-> None]
    /\ applied = {}

-----------------------------------------------------------------------------
(***************************************************************************)
(* Helpers.                                                                *)
(***************************************************************************)
GoTo(c, label) == pc' = [pc EXCEPT ![c] = label]

\* A request that only reads opens a read-only transaction.
ReadOnlyRequest(op) == op.kind \in ReadKinds \cup {"batchGet"}

\* A request whose response may outgrow the send buffer.
Bulky(op) == op.kind \in ReadKinds \cup BatchKinds

\* Mutant: the second in which the timeout expires does not count.
LateByOne(c) == Timeout > 0 /\ age[c] > Timeout

\* The second in which the timeout expires counts as late.
lmjcore_txn_check_timeout(c) == Timeout > 0 /\ age[c] >= Timeout

\* A request that is refused without a transaction, and its status.
Malformed(op) ==
    \/ op.kind \in {"bad", "unrouted"}
    \/ IsBatch(op) /\ BatchRefused(op)
    \/ /\ op.kind \notin BatchKinds \cup {"objCreate", "objInit", "setCreate",
                                          "setInit"}
       /\ op.ptr \notin Ptr

Refusal(op) == IF op.kind = "unrouted" THEN 404 ELSE 400

FrameOf(op) ==
    [readonly |-> op.kind = "batchGet",
     ops |-> IF IsBatch(op) THEN Body[op.body] ELSE <<op>>,
     results |-> <<>>]

Top(c) == frames[c][Len(frames[c])]

\* The operation a frame is at, and the frame once that operation has run.
Index(f) == Len(f.results) + 1

Current(c) == Top(c).ops[Index(Top(c))]

Record(stack, result) ==
    [stack EXCEPT ![Len(stack)].results = Append(@, result)]

Pop(stack) == SubSeq(stack, 1, Len(stack) - 1)

\* resolve_vars: only an executed operation may be referred to, and its
\* response must have the field.
Bound(op, results) == results[op.var.idx + 1][op.var.key]

Resolvable(op, results) ==
    \/ op.var = None
    \/ op.var.idx < Len(results) /\ Bound(op, results) # None

\* One pass over the path and the body, no cascade.
Substitute(op, results) ==
    IF op.var = None THEN op
    ELSE LET Swap(x) == IF x = Token THEN Bound(op, results) ELSE x
         IN [op EXCEPT !.ptr = Swap(@), !.val = Swap(@)]

\* A request fails: a batch reports 400 whatever its operation failed with.
\* cleanup rolls back.
Fail(c, s) ==
    /\ detail' = [detail EXCEPT ![c] = s]
    /\ status' = [status EXCEPT ![c] = IF IsBatch(req[c]) THEN 400 ELSE s]
    /\ GoTo(c, "cleanup")

\* Mutant: closing any transaction, a reader's too, frees the write lock.
ReleaseAny(c) ==
    /\ txn' = [txn EXCEPT ![c] = None]
    /\ writer' = None

\* lmjcore_txn_commit or lmjcore_txn_abort: the transaction is closed.
Release(c) ==
    /\ txn' = [txn EXCEPT ![c] = None]
    /\ writer' = IF writer = c THEN None ELSE writer

-----------------------------------------------------------------------------
(***************************************************************************)
(* The steps of a connection's thread.                                     *)
(***************************************************************************)
\* A request is read and routed; txn_start_time is taken.
Receive(c) ==
    /\ pc[c] = "idle"
    /\ \E r \in Requests : req' = [req EXCEPT ![c] = r]
    /\ GoTo(c, "parsed")
    /\ UNCHANGED <<store, writer, txn, frames, calls, age, status, detail,
                   reply, applied>>

Reject(c) ==
    /\ pc[c] = "parsed"
    /\ Malformed(req[c])
    /\ status' = [status EXCEPT ![c] = Refusal(req[c])]
    /\ GoTo(c, "respond")
    /\ UNCHANGED <<store, writer, req, txn, frames, calls, age, detail, reply,
                   applied>>

\* TXN_BEGIN of the handler that serves the request.
Begin(c) ==
    LET readonly == ReadOnlyRequest(req[c])
    IN /\ pc[c] = "parsed"
       /\ ~Malformed(req[c])
       /\ readonly \/ writer = None
       /\ writer' = IF readonly THEN writer ELSE c
       /\ txn' = [txn EXCEPT ![c] = [readonly |-> readonly, base |-> store,
                                     view |-> store]]
       /\ frames' = [frames EXCEPT ![c] = <<FrameOf(req[c])>>]
       /\ GoTo(c, IF IsBatch(req[c]) THEN "loop" ELSE "exec")
       /\ UNCHANGED <<store, req, calls, age, status, detail, reply, applied>>

\* No transaction, or no memory for what comes before it: a body that there
\* is no memory to parse is taken for one that does not parse.
BeginFails(c) ==
    /\ Faults \cap {"begin", "alloc"} # {}
    /\ pc[c] = "parsed"
    /\ ~Malformed(req[c])
    /\ \E s \in {400, 500} :
          /\ s = 400 => "alloc" \in Faults /\ HasBody(req[c])
          /\ status' = [status EXCEPT ![c] = s]
    /\ GoTo(c, "respond")
    /\ UNCHANGED <<store, writer, req, txn, frames, calls, age, detail, reply,
                   applied>>

\* The head of the batch loop: the operation is due, vars are applied to it.
NextOperation(c) ==
    /\ pc[c] = "loop"
    /\ Index(Top(c)) <= Len(Top(c).ops)
    /\ ~lmjcore_txn_check_timeout(c)
    /\ LET f == Top(c)
           op == Current(c)
       IN IF Resolvable(op, f.results)
          THEN /\ frames' = [frames EXCEPT ![c][Len(frames[c])].ops[Index(f)]
                                = Substitute(op, f.results)]
               /\ GoTo(c, "exec")
               /\ UNCHANGED <<status, detail>>
          ELSE Fail(c, 400) /\ UNCHANGED frames
    /\ UNCHANGED <<store, writer, req, txn, calls, age, reply, applied>>

\* Mutant: a batch inside another one that runs out of time is taken for one
\* that is done.
TimeoutIsResult(c) ==
    /\ pc[c] = "loop"
    /\ Index(Top(c)) <= Len(Top(c).ops)
    /\ lmjcore_txn_check_timeout(c)
    /\ IF Len(frames[c]) = 1
       THEN Fail(c, 408) /\ UNCHANGED frames
       ELSE /\ frames' = [frames EXCEPT ![c] = Record(Pop(@), Empty(408))]
            /\ UNCHANGED <<pc, status, detail>>
    /\ UNCHANGED <<store, writer, req, txn, calls, age, reply, applied>>

\* The same check when the time is used up: the outermost batch answers 408,
\* the 408 of a nested one is its caller's failed operation.
BatchTimeout(c) ==
    /\ pc[c] = "loop"
    /\ Index(Top(c)) <= Len(Top(c).ops)
    /\ lmjcore_txn_check_timeout(c)
    /\ detail' = [detail EXCEPT ![c] = 408]
    /\ status' = [status EXCEPT
                    ![c] = IF Len(frames[c]) = 1 THEN 408 ELSE 400]
    /\ GoTo(c, "cleanup")
    /\ UNCHANGED <<store, writer, req, txn, frames, calls, age, reply, applied>>

\* The loop is over.  A nested batch does not own the transaction: it leaves
\* it open and hands its response to the batch it is an operation of.
BatchDone(c) ==
    /\ pc[c] = "loop"
    /\ Index(Top(c)) > Len(Top(c).ops)
    /\ IF Len(frames[c]) = 1
       THEN GoTo(c, "end") /\ UNCHANGED frames
       ELSE /\ frames' = [frames EXCEPT ![c] = Record(Pop(@), Empty(200))]
            /\ UNCHANGED pc
    /\ UNCHANGED <<store, writer, req, txn, calls, age, status, detail, reply,
                   applied>>

\* Mutant: a batch inside a batch opens a transaction of its own, and waits
\* for the lock its thread holds.
EnterBatchAlone(c) ==
    /\ pc[c] = "exec"
    /\ IsBatch(Current(c))
    /\ Current(c).kind = "batchPost" => writer = None
    /\ IF BatchRefused(Current(c))
       THEN Fail(c, 400) /\ UNCHANGED frames
       ELSE /\ frames' = [frames EXCEPT ![c] = Append(@, FrameOf(Current(c)))]
            /\ GoTo(c, "loop")
            /\ UNCHANGED <<status, detail>>
    /\ UNCHANGED <<store, writer, req, txn, calls, age, reply, applied>>

\* execute_operation reaches a batch route: handle_batch_core runs on the
\* shared transaction.
EnterBatch(c) ==
    /\ pc[c] = "exec"
    /\ IsBatch(Current(c))
    /\ IF BatchRefused(Current(c))
       THEN Fail(c, 400) /\ UNCHANGED frames
       ELSE /\ frames' = [frames EXCEPT ![c] = Append(@, FrameOf(Current(c)))]
            /\ GoTo(c, "loop")
            /\ UNCHANGED <<status, detail>>
    /\ UNCHANGED <<store, writer, req, txn, calls, age, reply, applied>>

\* Mutant: a handler commits the transaction it shares.
ExecuteAndCommit(c) ==
    LET out == Handle(txn[c].view, Current(c), Fresh[c][calls[c]])
    IN /\ pc[c] = "exec"
       /\ ~IsBatch(Current(c))
       /\ ~lmjcore_txn_check_timeout(c)
       /\ calls[c] < MaxCalls
       /\ txn' = [txn EXCEPT ![c].view = out.db]
       /\ calls' = [calls EXCEPT ![c] = @ + 1]
       /\ IF out.result.status >= 400
          THEN Fail(c, out.result.status) /\ UNCHANGED frames
          ELSE /\ frames' = [frames EXCEPT ![c] = Record(@, out.result)]
               /\ GoTo(c, IF IsBatch(req[c]) THEN "loop" ELSE "end")
               /\ UNCHANGED <<status, detail>>
       /\ store' = out.db
       /\ UNCHANGED <<writer, req, age, reply, applied>>

\* Mutant: each read of a batch opens a snapshot of its own.
ExecuteOnLatest(c) ==
    LET view == IF txn[c].readonly THEN store ELSE txn[c].view
        out == Handle(view, Current(c), Fresh[c][calls[c]])
    IN /\ pc[c] = "exec"
       /\ ~IsBatch(Current(c))
       /\ ~lmjcore_txn_check_timeout(c)
       /\ calls[c] < MaxCalls
       /\ txn' = [txn EXCEPT ![c].view = out.db]
       /\ calls' = [calls EXCEPT ![c] = @ + 1]
       /\ IF out.result.status >= 400
          THEN Fail(c, out.result.status) /\ UNCHANGED frames
          ELSE /\ frames' = [frames EXCEPT ![c] = Record(@, out.result)]
               /\ GoTo(c, IF IsBatch(req[c]) THEN "loop" ELSE "end")
               /\ UNCHANGED <<status, detail>>
       /\ UNCHANGED <<store, writer, req, age, reply, applied>>

\* A handler from its timeout check to its commit or cleanup.  Inside a batch
\* its TXN_COMMIT does nothing, the transaction not being its own.
Execute(c) ==
    LET out == Handle(txn[c].view, Current(c), Fresh[c][calls[c]])
    IN /\ pc[c] = "exec"
       /\ ~IsBatch(Current(c))
       /\ ~lmjcore_txn_check_timeout(c)
       /\ calls[c] < MaxCalls
       /\ txn' = [txn EXCEPT ![c].view = out.db]
       /\ calls' = [calls EXCEPT ![c] = @ + 1]
       /\ IF out.result.status >= 400
          THEN Fail(c, out.result.status) /\ UNCHANGED frames
          ELSE /\ frames' = [frames EXCEPT ![c] = Record(@, out.result)]
               /\ GoTo(c, IF IsBatch(req[c]) THEN "loop" ELSE "end")
               /\ UNCHANGED <<status, detail>>
       /\ UNCHANGED <<store, writer, req, age, reply, applied>>

\* TXN_CHECK_TIMEOUT of the handler.
HandlerTimeout(c) ==
    /\ pc[c] = "exec"
    /\ ~IsBatch(Current(c))
    /\ lmjcore_txn_check_timeout(c)
    /\ Fail(c, 408)
    /\ UNCHANGED <<store, writer, req, txn, frames, calls, age, reply, applied>>

\* No memory while the transaction is open.  A batch answers 400 when it was
\* one of its operations that found none, 500 when the batch itself did.
AllocationFails(c) ==
    /\ "alloc" \in Faults
    /\ pc[c] \in {"loop", "exec"}
    /\ \E s \in {400, 500} :
          /\ s = 400 => IsBatch(req[c])
          /\ status' = [status EXCEPT ![c] = s]
    /\ detail' = [detail EXCEPT ![c] = 500]
    /\ GoTo(c, "cleanup")
    /\ UNCHANGED <<store, writer, req, txn, frames, calls, age, reply, applied>>

\* The end of a read: TXN_ABORT closes the snapshot, the status is 200.
FinishRead(c) ==
    /\ pc[c] = "end"
    /\ txn[c].readonly
    /\ Release(c)
    /\ status' = [status EXCEPT ![c] = 200]
    /\ GoTo(c, "respond")
    /\ UNCHANGED <<store, req, frames, calls, age, detail, reply, applied>>

\* Mutant: the status is taken from the operation that failed.
CommitWithDetail(c) ==
    /\ pc[c] = "end"
    /\ ~txn[c].readonly
    /\ store' = txn[c].view
    /\ Release(c)
    /\ applied' = applied \cup {c}
    /\ status' = [status EXCEPT ![c] = detail[c]]
    /\ GoTo(c, "respond")
    /\ UNCHANGED <<req, frames, calls, age, detail, reply>>

\* TXN_COMMIT by the owner.
Commit(c) ==
    /\ pc[c] = "end"
    /\ ~txn[c].readonly
    /\ store' = txn[c].view
    /\ Release(c)
    /\ applied' = applied \cup {c}
    /\ status' = [status EXCEPT ![c] = IF IsBatch(req[c]) THEN 200
                                       ELSE frames[c][1].results[1].status]
    /\ GoTo(c, "respond")
    /\ UNCHANGED <<req, frames, calls, age, detail, reply>>

CommitFails(c) ==
    /\ "commit" \in Faults
    /\ pc[c] = "end"
    /\ ~txn[c].readonly
    /\ Release(c)
    /\ status' = [status EXCEPT ![c] = 500]
    /\ GoTo(c, "respond")
    /\ UNCHANGED <<store, req, frames, calls, age, detail, reply, applied>>

\* Mutant: the handler returns without reaching cleanup.
SkipCleanup(c) ==
    /\ pc[c] = "cleanup"
    /\ GoTo(c, "respond")
    /\ UNCHANGED <<store, writer, req, txn, frames, calls, age, status, detail,
                   reply, applied>>

\* Mutant: cleanup commits what the handler has done so far.
CommitInCleanup(c) ==
    /\ pc[c] = "cleanup"
    /\ store' = IF txn[c].readonly THEN store ELSE txn[c].view
    /\ applied' = IF txn[c].readonly THEN applied ELSE applied \cup {c}
    /\ Release(c)
    /\ GoTo(c, "respond")
    /\ UNCHANGED <<req, frames, calls, age, status, detail, reply>>

\* The cleanup label: TXN_ABORT.
Cleanup(c) ==
    /\ pc[c] = "cleanup"
    /\ Release(c)
    /\ GoTo(c, "respond")
    /\ UNCHANGED <<store, req, frames, calls, age, status, detail, reply,
                   applied>>

\* A success that does not fit the send buffer becomes a 413.  So does a
\* response there is no memory to print; one that could not even be composed
\* is a 500.
Sent(c) ==
    {status[c]}
    \cup (IF "alloc" \in Faults THEN {413, 500} ELSE {})
    \cup (IF "oversize" \in Faults /\ status[c] < 400 /\ Bulky(req[c])
          THEN {413} ELSE {})

\* The response is built and sent.
Respond(c) ==
    /\ pc[c] = "respond"
    /\ \E s \in Sent(c) : reply' = [reply EXCEPT ![c] = s]
    /\ GoTo(c, "done")
    /\ UNCHANGED <<store, writer, req, txn, frames, calls, age, status, detail,
                   applied>>

\* A second passes for every request that has started and not been answered.
Tick ==
    LET Running == {c \in Conns : pc[c] \notin {"idle", "done"}
                                  /\ age[c] < Timeout}
    IN /\ Running # {}
       /\ age' = [c \in Conns |-> IF c \in Running THEN age[c] + 1 ELSE age[c]]
       /\ UNCHANGED <<store, writer, pc, req, txn, frames, calls, status,
                      detail, reply, applied>>

\* Every connection has been served: the server waits for another one.
AllServed ==
    /\ \A c \in Conns : pc[c] = "done"
    /\ UNCHANGED vars

Thread(c) ==
    \/ Receive(c) \/ Reject(c) \/ Begin(c) \/ BeginFails(c)
    \/ NextOperation(c) \/ BatchTimeout(c) \/ BatchDone(c) \/ EnterBatch(c)
    \/ Execute(c) \/ HandlerTimeout(c) \/ AllocationFails(c)
    \/ FinishRead(c) \/ Commit(c) \/ CommitFails(c) \/ Cleanup(c)
    \/ Respond(c)

Next == (\E c \in Conns : Thread(c)) \/ Tick \/ AllServed

Spec == Init /\ [][Next]_vars

=============================================================================
