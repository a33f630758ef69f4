---------------------------- MODULE AtomicStore -----------------------------
(***************************************************************************)
(* What LMJCore-Web promises its clients: a request takes effect at one    *)
(* instant between its arrival and its response, as if it ran alone on the *)
(* database of that instant, and all of it or nothing.                     *)
(*                                                                         *)
(* Decide is that instant.                                                 *)
(***************************************************************************)
EXTENDS Naturals

CONSTANTS
    Conns,          \* connections, one request each
    Requests,       \* the requests clients may send
    InitDb,         \* the first database
    None,           \* no request, no outcome, no response yet
    Effect(_, _, _),\* Effect(c, r, db): status, results and database of r
    IsWrite(_),     \* may the request change the database?
    HasBody(_)      \* does the request carry a body, as a batch does?

VARIABLES
    store,      \* the database
    asked,      \* the request of each connection, or None
    decided,    \* the outcome of the request, or None
    answered    \* the status sent to the client, or None

vars == <<store, asked, decided, answered>>

Outcome(run) == [status |-> run.status, results |-> run.results]

-----------------------------------------------------------------------------
Init ==
    /\ store = InitDb
    /\ asked = [c \in Conns |-> None]
    /\ decided = [c \in Conns |-> None]
    /\ answered = [c \in Conns |-> None]

Ask(c) ==
    /\ asked[c] = None
    /\ \E r \in Requests : asked' = [asked EXCEPT ![c] = r]
    /\ UNCHANGED <<store, decided, answered>>

Decide(c) ==
    /\ asked[c] # None
    /\ decided[c] = None
    /\ LET run == Effect(c, asked[c], store)
       IN /\ decided' = [decided EXCEPT ![c] = Outcome(run)]
          /\ store' = run.db
    /\ UNCHANGED <<asked, answered>>

\* The server gives a request up: out of time, or a resource failed.  That is
\* a 408 or a 500, and a 400 when the body could not be parsed for want of
\* memory or an operation of a batch ran late.  Until it is answered a read
\* may be given up even after its instant has passed.
GiveUp(c) ==
    /\ UNCHANGED <<store, asked, answered>>
    /\ asked[c] # None
    /\ answered[c] = None
    /\ ~IsWrite(asked[c]) \/ decided[c] = None
    /\ LET statuses == {408, 500} \cup (IF HasBody(asked[c]) THEN {400} ELSE {})
       IN decided' \in {[decided EXCEPT ![c] = [status |-> s, results |-> <<>>]] :
                            s \in statuses}

\* A response that cannot be built is a 500, one that cannot be printed or
\* does not fit a 413: the client does not learn the outcome then.
Answer(c) ==
    /\ UNCHANGED <<store, asked>>
    /\ answered[c] = None
    /\ decided[c] # None
    /\ \E s \in {decided[c].status, 413, 500} :
          answered' = [answered EXCEPT ![c] = s]
    /\ UNCHANGED decided

Next == \E c \in Conns : Ask(c) \/ Decide(c) \/ GiveUp(c) \/ Answer(c)

Spec == Init /\ [][Next]_vars

=============================================================================
