--------------------------- MODULE TxnRefinement ----------------------------
(***************************************************************************)
(* TxnServer implements AtomicStore.  A write request is decided when its  *)
(* transaction is committed or when it has failed; a read request when its *)
(* snapshot is taken, so its decision follows from its request and its     *)
(* snapshot while the transaction is open.                                 *)
(***************************************************************************)
EXTENDS SerialRun

Decided(c) ==
    IF pc[c] \in {"respond", "done"}
    THEN [status |-> status[c],
          results |-> IF status[c] < 400 THEN frames[c][1].results ELSE <<>>]
    ELSE IF pc[c] = "cleanup"
    THEN [status |-> status[c], results |-> <<>>]
    ELSE IF txn[c] # None /\ txn[c].readonly
    THEN LET run == Effect(c, req[c], txn[c].base)
         IN [status |-> run.status, results |-> run.results]
    ELSE None

Atomic == INSTANCE AtomicStore
              WITH asked <- req,
                   decided <- [c \in Conns |-> Decided(c)],
                   answered <- reply

(***************************************************************************)
(* Every request takes effect at one instant, as if alone, entirely or not *)
(* at all, and a read reports a single version of the store: TXN_BEGIN,    *)
(* TXN_COMMIT and TXN_ABORT in handle_utils.h, and their use by the        *)
(* handlers and by handle_batch_core.                                      *)
(***************************************************************************)
Linearizable == Atomic!Spec

=============================================================================
