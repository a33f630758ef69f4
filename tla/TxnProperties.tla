--------------------------- MODULE TxnProperties ----------------------------
(***************************************************************************)
(* Properties of TxnServer.                                                *)
(***************************************************************************)
EXTENDS TxnServer

\* A transaction that writes works on the latest committed database: nothing
\* is committed under it, so its own commit overwrites nobody's.  This is
\* what lmjcore_txn_begin gives a handler that reads before it writes
\* (entity_exist, then put), as long as every handler begins, and ends, its
\* transaction through TXN_BEGIN, TXN_COMMIT and TXN_ABORT.
NoLostUpdate ==
    \A c \in Conns :
        txn[c] # None /\ ~txn[c].readonly =>
            txn[c].base = store /\ writer = c

\* A request that is over has left no transaction open and no lock held,
\* whichever path it took: one leaked write transaction would block every
\* later writer, one leaked reader would pin its snapshot.
NothingLeaks ==
    \A c \in Conns :
        pc[c] \in {"respond", "done"} => txn[c] = None /\ writer # c

\* A client that is refused (400, 404, 408, 409) can rely on it: nothing the
\* request did is in the store.  (409 and 404 come from handlers that may
\* have written before, in a batch; 408 from a timeout at any operation.)
RefusedHasNoEffect ==
    \A c \in Conns :
        reply[c] \in {400, 404, 408, 409} => c \notin applied

\* The store changes only when one connection's transaction replaces it, with
\* every operation of the outermost batch executed, on the database it began
\* with: no prefix of a batch is ever visible (handle_batch_core).
AllOrNothing ==
    [][store' # store =>
        \E c \in Conns :
            /\ pc[c] = "end" /\ pc'[c] = "respond"
            /\ txn[c].base = store /\ txn[c].view = store'
            /\ Len(frames[c]) = 1
            /\ Len(frames[c][1].results) = Len(frames[c][1].ops)]_vars

\* Nothing inside a GET /batch writes, not even when the batch is an
\* operation of a POST /batch and so runs in a transaction that may: the
\* check of handle_batch_core (lines 484-502) is the only protection there.
ReadOnlyBatchNeverWrites ==
    [][\A c \in Conns :
        txn[c] # None /\ txn'[c] # None /\ txn[c].view # txn'[c].view =>
            \A i \in 1..Len(frames[c]) : ~frames[c][i].readonly]_vars

\* Operations of the request that have yet to run.  A batch below another one
\* on the stack is at the operation which that one is.
WorkLeft(c) ==
    \/ pc[c] = "exec"
    \/ /\ pc[c] = "loop"
       /\ \E i \in 1..Len(frames[c]) :
             LET f == frames[c][i]
                 due == Len(f.results) + (IF i = Len(frames[c]) THEN 0 ELSE 1)
             IN due < Len(f.ops)

\* The time is used up with operations still to run.
Late(c) == Timeout > 0 /\ age[c] = Timeout /\ WorkLeft(c)

Succeeded(c) ==
    c \in applied \/ (pc[c] \in {"respond", "done"} /\ status[c] < 400)

\* A request that runs out of time before its last operation has begun never
\* takes effect and never reports success, however deep in batches it is: some
\* check that follows (handle_batch_core, TXN_CHECK_TIMEOUT) catches it, and
\* every batch above passes the failure on.
LateNeverSucceeds ==
    \A c \in Conns : [](Late(c) => []~Succeeded(c))

\* What a thread does by itself once it has a request: Receive is the client's,
\* which may never send anything, and nothing ever has to fail.
Proceed(c) ==
    \/ Reject(c) \/ Begin(c)
    \/ NextOperation(c) \/ BatchTimeout(c) \/ BatchDone(c) \/ EnterBatch(c)
    \/ Execute(c) \/ HandlerTimeout(c)
    \/ FinishRead(c) \/ Commit(c) \/ Cleanup(c)
    \/ Respond(c)

\* Each thread keeps running, and so does the wait for the write lock:
\* threads are scheduled by the operating system, and a connection takes the
\* lock once, so weak fairness is enough.
Fairness == \A c \in Conns : WF_vars(Proceed(c))

FairSpec == Spec /\ Fairness

\* Every request that was received is answered: no handler waits for a lock
\* its own connection holds (a batch inside a batch), and every path gives
\* the lock back.
EveryRequestAnswered ==
    \A c \in Conns : pc[c] = "parsed" ~> pc[c] = "done"

-----------------------------------------------------------------------------
(***************************************************************************)
(* What the repository says, and the code does not do.                     *)
(***************************************************************************)
\* lmjcore.conf: a transaction that takes longer than txn_timeout is rolled
\* back.
OverrunIsRolledBack ==
    [][applied' # applied =>
        \A c \in applied' \ applied : Timeout = 0 \/ age[c] < Timeout]_vars

\* API_REFERENCE.md, of POST /batch: on failure the transaction is rolled
\* back and the operations that were executed do not take effect.
FailureHasNoEffect ==
    \A c \in Conns : reply[c] # None /\ reply[c] >= 400 => c \notin applied

\* nested_value.c says of an entity created empty that it can be filled
\* afterwards, and the page tests/api_test.html creates a user that way: POST
\* /obj, then a PUT for each attribute.  Here in one batch, by the pointer that
\* its first operation returned.
CreatedCanBeFilled ==
    \A c \in Conns :
        pc[c] = "cleanup" /\ detail[c] = 404 =>
            ~ /\ Current(c).kind \in {"memberPut", "setAdd"}
              /\ \E i \in 1..Len(Top(c).results) :
                    /\ Top(c).ops[i].kind \in {"objCreate", "setCreate"}
                    /\ Top(c).results[i].ptr = Current(c).ptr
              /\ \A i \in 1..Len(Top(c).results) :
                    Top(c).ops[i].kind \notin {"memberDel", "objDel",
                                               "setRemove", "setDel"}

=============================================================================
