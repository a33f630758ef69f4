--------------------------- MODULE ServerLifecycle ---------------------------
(***************************************************************************)
(* From start to exit: the main thread sets the server up, accepts         *)
(* connections in a loop and hands each to a detached thread; SIGINT or    *)
(* SIGTERM runs signal_handler, which stops the server; the main thread    *)
(* then leaves its loop, destroys the router and the LMDB environment and  *)
(* returns, which ends the process and every thread in it.                 *)
(*                                                                         *)
(* The handler runs on the main thread, between any two of its steps or    *)
(* while it waits in accept (the kernel prefers the main thread, and no    *)
(* thread blocks the signals).  A call of accept that a signal interrupts  *)
(* is started again, since signal() sets SA_RESTART, and then finds that   *)
(* its descriptor has been closed.  One handler may interrupt the other:   *)
(* the flag g_server_stopping makes that the same as one after the other,  *)
(* and signal_handler is one step.                                         *)
(***************************************************************************)
EXTENDS Naturals

CONSTANTS
    Conns,          \* clients, one connection each
    None,           \* no connection
    MaxSignals,     \* bound: signals the process receives
    Faults          \* what may fail: "setup", "bind", "accept", "thread"

ASSUME LifecycleAssumption ==
    /\ None \notin Conns
    /\ MaxSignals \in Nat

VARIABLES
    main,               \* where the main thread is
    g_server,           \* is the handler's pointer to the server set?
    g_server_stopping,  \* has a signal been taken?
    running,            \* server->running
    listen_fd,          \* "none" (-1), "open", or "stale": closed, but kept
    router,             \* are the routes there?
    env,                \* is the LMDB environment open?
    accepted,           \* the connection the main thread has just accepted
    conn,               \* where each connection is
    signals,            \* signals received so far
    strays              \* closes of a descriptor that was closed already

lifecycle == <<main, g_server, g_server_stopping, running, listen_fd, router,
               env, accepted, conn, signals, strays>>

MainLabels == {"init", "router", "socket", "bind", "run", "loop", "accept",
               "spawn", "close", "freeRouter", "freeEnv", "return", "exited"}

ConnLabels == {"away", "queued", "accepted", "reading", "routing", "serving",
               "answered", "closed"}

TypeOK ==
    /\ main \in MainLabels
    /\ g_server \in BOOLEAN
    /\ g_server_stopping \in BOOLEAN
    /\ running \in BOOLEAN
    /\ listen_fd \in {"none", "open", "stale"}
    /\ router \in BOOLEAN
    /\ env \in BOOLEAN
    /\ accepted \in Conns \cup {None}
    /\ main = "spawn" => accepted \in Conns
    /\ conn \in [Conns -> ConnLabels]
    /\ signals \in 0..MaxSignals
    /\ strays \in Nat

\* The signal handlers are installed (before that a signal just kills).
Init ==
    /\ main = "init"
    /\ g_server = FALSE
    /\ g_server_stopping = FALSE
    /\ running = FALSE
    /\ listen_fd = "none"
    /\ router = FALSE
    /\ env = FALSE
    /\ accepted = None
    /\ conn = [c \in Conns |-> "away"]
    /\ signals = 0
    /\ strays = 0

MainGoTo(from, to) == main = from /\ main' = to

\* close(): a descriptor that is not open any more may be another file's.
CloseCounts(fd) == strays' = IF fd = "stale" THEN strays + 1 ELSE strays

-----------------------------------------------------------------------------
(***************************************************************************)
(* The main thread.                                                        *)
(***************************************************************************)
http_server_init ==
    /\ MainGoTo("init", "router")
    /\ env' = TRUE
    /\ running' = FALSE
    /\ listen_fd' = "none"
    /\ g_server' = TRUE
    /\ UNCHANGED <<g_server_stopping, router, accepted, conn, signals, strays>>

register_all_routes ==
    /\ MainGoTo("router", "socket")
    /\ router' = TRUE
    /\ UNCHANGED <<g_server, g_server_stopping, running, listen_fd, env,
                   accepted, conn, signals, strays>>

\* A failure before the server listens: LMDB cannot be opened, no router, no
\* routes, no socket.  main undoes what was done and returns.
SetupFails ==
    /\ "setup" \in Faults
    /\ \/ MainGoTo("init", "return")
       \/ MainGoTo("router", "freeEnv")
       \/ MainGoTo("router", "freeRouter")
       \/ MainGoTo("socket", "freeRouter")
    /\ UNCHANGED <<g_server, g_server_stopping, running, listen_fd, router,
                   env, accepted, conn, signals, strays>>

\* http_server_start: the socket...
Socket ==
    /\ MainGoTo("socket", "bind")
    /\ listen_fd' = "open"
    /\ UNCHANGED <<g_server, g_server_stopping, running, router, env, accepted,
                   conn, signals, strays>>

\* ... is bound and listens, ...
Listen ==
    /\ listen_fd = "open"
    /\ MainGoTo("bind", "run")
    /\ UNCHANGED <<g_server, g_server_stopping, running, listen_fd, router,
                   env, accepted, conn, signals, strays>>

\* ... or start gives up.  It closes the descriptor, and does not forget it.
ListenFails ==
    /\ "bind" \in Faults \/ listen_fd # "open"
    /\ MainGoTo("bind", "freeRouter")
    /\ listen_fd' = IF listen_fd = "open" THEN "stale" ELSE listen_fd
    /\ CloseCounts(listen_fd)
    /\ UNCHANGED <<g_server, g_server_stopping, running, router, env, accepted,
                   conn, signals>>

Run ==
    /\ MainGoTo("run", "loop")
    /\ running' = TRUE
    /\ UNCHANGED <<g_server, g_server_stopping, listen_fd, router, env,
                   accepted, conn, signals, strays>>

\* The test of the accept loop.
Test ==
    /\ main = "loop"
    /\ main' = IF running THEN "accept" ELSE "close"
    /\ UNCHANGED <<g_server, g_server_stopping, running, listen_fd, router,
                   env, accepted, conn, signals, strays>>

Accept ==
    /\ listen_fd = "open"
    /\ MainGoTo("accept", "spawn")
    /\ \E c \in Conns :
          /\ conn[c] = "queued"
          /\ conn' = [conn EXCEPT ![c] = "accepted"]
          /\ accepted' = c
    /\ UNCHANGED <<g_server, g_server_stopping, running, listen_fd, router,
                   env, signals, strays>>

\* Mutant: the error branch goes on as if there were a connection.
AcceptFallsThrough ==
    /\ "accept" \in Faults \/ listen_fd # "open"
    /\ MainGoTo("accept", "spawn")
    /\ UNCHANGED <<g_server, g_server_stopping, running, listen_fd, router,
                   env, accepted, conn, signals, strays>>

\* accept returns an error: at once when its descriptor is closed, whether it
\* waited or not.  The loop goes on.
AcceptFails ==
    /\ "accept" \in Faults \/ listen_fd # "open"
    /\ MainGoTo("accept", "loop")
    /\ UNCHANGED <<g_server, g_server_stopping, running, listen_fd, router,
                   env, accepted, conn, signals, strays>>

\* A detached thread for the connection.
Spawn ==
    /\ MainGoTo("spawn", "loop")
    /\ conn' = [conn EXCEPT ![accepted] = "reading"]
    /\ accepted' = None
    /\ UNCHANGED <<g_server, g_server_stopping, running, listen_fd, router,
                   env, signals, strays>>

\* Mutant: no thread, and the connection is left open.
SpawnFailsLeaks ==
    /\ "thread" \in Faults
    /\ MainGoTo("spawn", "loop")
    /\ accepted' = None
    /\ UNCHANGED <<g_server, g_server_stopping, running, listen_fd, router,
                   env, conn, signals, strays>>

\* No memory for its arguments, or no thread: the connection is closed.
SpawnFails ==
    /\ "thread" \in Faults
    /\ MainGoTo("spawn", "loop")
    /\ conn' = [conn EXCEPT ![accepted] = "closed"]
    /\ accepted' = None
    /\ UNCHANGED <<g_server, g_server_stopping, running, listen_fd, router,
                   env, signals, strays>>

\* The loop is over: close the listening socket if that is still to be done.
Close ==
    /\ MainGoTo("close", "freeRouter")
    /\ IF listen_fd = "none" THEN UNCHANGED strays ELSE CloseCounts(listen_fd)
    /\ listen_fd' = "none"
    /\ UNCHANGED <<g_server, g_server_stopping, running, router, env, accepted,
                   conn, signals>>

router_destroy ==
    /\ MainGoTo("freeRouter", "freeEnv")
    /\ router' = FALSE
    /\ UNCHANGED <<g_server, g_server_stopping, running, listen_fd, env,
                   accepted, conn, signals, strays>>

http_server_destroy ==
    /\ MainGoTo("freeEnv", "return")
    /\ env' = FALSE
    /\ UNCHANGED <<g_server, g_server_stopping, running, listen_fd, router,
                   accepted, conn, signals, strays>>

\* main returns: the process ends, and its threads and connections with it.
Return ==
    /\ MainGoTo("return", "exited")
    /\ conn' = [c \in Conns |-> IF conn[c] \in {"away", "answered"}
                                THEN conn[c] ELSE "closed"]
    /\ UNCHANGED <<g_server, g_server_stopping, running, listen_fd, router,
                   env, accepted, signals, strays>>

MainThread ==
    \/ http_server_init \/ register_all_routes \/ SetupFails \/ Socket
    \/ Listen \/ ListenFails \/ Run \/ Test \/ Accept \/ AcceptFails \/ Spawn
    \/ SpawnFails \/ Close \/ router_destroy \/ http_server_destroy \/ Return

-----------------------------------------------------------------------------
(***************************************************************************)
(* Signals, clients, and the threads of connections.                       *)
(***************************************************************************)
\* Mutant: stop forgets that it has closed the socket.
StopKeepsFd ==
    /\ running' = FALSE
    /\ IF listen_fd = "none" THEN UNCHANGED <<listen_fd, strays>>
       ELSE listen_fd' = "stale" /\ CloseCounts(listen_fd)

\* Mutant: stop clears the flag only.
StopClearsFlag == running' = FALSE /\ UNCHANGED <<listen_fd, strays>>

http_server_stop ==
    /\ running' = FALSE
    /\ IF listen_fd = "none" THEN UNCHANGED strays ELSE CloseCounts(listen_fd)
    /\ listen_fd' = "none"

\* A signal arrives.  The first one that finds the server stops it.
signal_handler ==
    /\ main # "exited"
    /\ signals < MaxSignals
    /\ signals' = signals + 1
    /\ IF g_server /\ ~g_server_stopping
       THEN g_server_stopping' = TRUE /\ http_server_stop
       ELSE UNCHANGED <<g_server_stopping, running, listen_fd, strays>>
    /\ UNCHANGED <<main, g_server, router, env, accepted, conn>>

\* A client connects: the kernel queues it while the socket listens.
Connect(c) ==
    /\ conn[c] = "away"
    /\ listen_fd = "open"
    /\ main \in {"run", "loop", "accept", "spawn"}
    /\ conn' = [conn EXCEPT ![c] = "queued"]
    /\ UNCHANGED <<main, g_server, g_server_stopping, running, listen_fd,
                   router, env, accepted, signals, strays>>

\* handle_connection_thread: recv, router_match, the handler, send.
Serve(c) ==
    /\ main # "exited"
    /\ \/ conn[c] = "reading" /\ conn' = [conn EXCEPT ![c] = "routing"]
       \/ conn[c] = "routing" /\ conn' = [conn EXCEPT ![c] = "serving"]
       \/ conn[c] \in {"routing", "serving"}
             /\ conn' = [conn EXCEPT ![c] = "answered"]
    /\ UNCHANGED <<main, g_server, g_server_stopping, running, listen_fd,
                   router, env, accepted, signals, strays>>

Exited == main = "exited" /\ UNCHANGED lifecycle

Next ==
    \/ MainThread
    \/ signal_handler
    \/ \E c \in Conns : Connect(c) \/ Serve(c)
    \/ Exited

Spec == Init /\ [][Next]_lifecycle

\* What main does when nothing fails.  That accept and bind return an error for
\* a descriptor that is closed is no failure: they always do.
MainProceeds ==
    \/ http_server_init \/ register_all_routes \/ Socket \/ Listen \/ Run
    \/ Test \/ Accept \/ Spawn
    \/ listen_fd # "open" /\ (ListenFails \/ AcceptFails)
    \/ Close \/ router_destroy \/ http_server_destroy \/ Return

\* Threads are scheduled, and nothing has to fail.  A client may never connect,
\* and a signal may never come.
FairSpec ==
    /\ Spec
    /\ WF_lifecycle(MainProceeds)
    /\ \A c \in Conns : WF_lifecycle(Serve(c))

-----------------------------------------------------------------------------
(***************************************************************************)
(* What the lifecycle keeps, and what its comments promise.                *)
(***************************************************************************)
\* A descriptor that was closed is never closed again (its number may by then
\* belong to a connection or to LMDB): signal_handler, the end of the accept
\* loop and the failures of http_server_start close it once between them.
\* This needs bind and listen to succeed, see ListenFails.
DescriptorClosedOnce == strays = 0

\* No connection is forgotten: what accept returned is in the hands of the
\* main thread until a thread serves it, or it has been closed.
AcceptedIsOwned == \A c \in Conns : conn[c] = "accepted" <=> accepted = c

\* A signal that finds the accept loop running ends the process, whatever the
\* loop was doing, and however many connections are open.
StopsAfterSignal ==
    /\ main \in {"loop", "accept", "spawn"}
    /\ g_server_stopping
    /\ ~running
    ~> main = "exited"

\* http_server.h says of http_server_stop that it waits for the current
\* connections: a thread that routes or serves a request then finds the
\* router and the environment in place.
WaitsForConnections ==
    \A c \in Conns : conn[c] \in {"routing", "serving"} => router /\ env

\* The server logs "Press Ctrl+C to stop": when a signal has been taken for the
\* stop by the time the message is there, or later, the process ends.
SignalStops ==
    main \in {"run", "loop", "accept", "spawn"} /\ g_server_stopping
    ~> main = "exited"

=============================================================================
