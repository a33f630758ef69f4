---------------------------- MODULE TxnInvariant ----------------------------
(***************************************************************************)
(* An inductive invariant of TxnServer: why the properties of              *)
(* TxnProperties hold.  A thread holds a transaction exactly between its   *)
(* begin and its end; the lock belongs to the one that writes, so its base *)
(* cannot grow old; the stack of batches is a prefix of an execution, in   *)
(* which read-only batches hold only reads and read-only batches.          *)
(***************************************************************************)
EXTENDS TxnProperties

Open == {"loop", "exec", "end", "cleanup"}

\* A handler that has run, or is running, its operations in order: one that
\* failed is not recorded.
WellFormed(f) ==
    /\ Len(f.ops) >= 1
    /\ Len(f.results) <= Len(f.ops)
    /\ \A j \in 1..Len(f.results) : f.results[j].status < 400
    /\ f.readonly => \A j \in 1..Len(f.ops) : ~IsWrite(f.ops[j])

\* A handler below another one waits for it, at an operation that is due.
IsStack(stack) ==
    /\ stack \in Seq(Frame)
    /\ Len(stack) >= 1
    /\ \A i \in 1..Len(stack) : WellFormed(stack[i])
    /\ \A i \in 1..Len(stack) - 1 :
          Len(stack[i].results) < Len(stack[i].ops)
    /\ \A i, j \in 1..Len(stack) :
          i < j /\ stack[i].readonly => stack[j].readonly

\* A thread is within a transaction, or it holds none.
TxnWhileOpen == \A c \in Conns : txn[c] # None <=> pc[c] \in Open

LockHeld ==
    \A c \in Conns : writer = c <=> (txn[c] # None /\ ~txn[c].readonly)

BaseIsLatest ==
    \A c \in Conns : txn[c] # None /\ ~txn[c].readonly => txn[c].base = store

Requested == \A c \in Conns : pc[c] # "idle" => req[c] \in Op

\* While its transaction is open, a thread has a stack of handlers; at "exec"
\* the one on top has an operation that is due, at "end" it is the only one
\* and has run all of its own.  An operation that stands alone is a stack of
\* one handler with that operation.
StackOf(c) ==
    /\ pc[c] \in Open => IsStack(frames[c])
    /\ pc[c] = "loop" => IsBatch(req[c])
    /\ pc[c] \in Open /\ ~IsBatch(req[c]) =>
          Len(frames[c]) = 1 /\ frames[c][1].ops = <<req[c]>>
    /\ pc[c] = "exec" => Len(Top(c).results) < Len(Top(c).ops)
    /\ pc[c] = "end" =>
          Len(frames[c]) = 1 /\ Len(Top(c).results) = Len(Top(c).ops)

Stacks == \A c \in Conns : StackOf(c)

\* A committed transaction is answered with its success, or with a response
\* that could not be built or sent.
CommitIsAnswered ==
    \A c \in Conns :
        /\ c \in applied => pc[c] \in {"respond", "done"} /\ status[c] < 400
        /\ reply[c] # None => pc[c] = "done"
        /\ c \in applied /\ reply[c] # None => reply[c] \in {status[c], 413, 500}

Invariant ==
    /\ TypeOK
    /\ TxnWhileOpen
    /\ LockHeld
    /\ BaseIsLatest
    /\ Requested
    /\ Stacks
    /\ CommitIsAnswered

=============================================================================
