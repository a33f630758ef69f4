--------------------------- MODULE LifecycleProofs ---------------------------
(***************************************************************************)
(* For any number of connections and signals: no connection that accept    *)
(* returned is forgotten, and, when bind and listen succeed, no descriptor *)
(* is closed twice.                                                        *)
(***************************************************************************)
EXTENDS ServerLifecycle, TLAPS

\* The main thread owns a connection exactly while it starts its thread.
Ownership == AcceptedIsOwned /\ (main = "spawn" <=> accepted # None)

OwnershipInv == TypeOK /\ Ownership

\* A closed descriptor is not kept.
FdInv == listen_fd \in {"none", "open"} /\ strays = 0

-----------------------------------------------------------------------------
\* A signal does what it does to the socket, and nothing else.
LEMMA SignalStep ==
    ASSUME TypeOK, signal_handler
    PROVE  /\ running' \in BOOLEAN
           /\ g_server_stopping' \in BOOLEAN
           /\ listen_fd' \in {"none", "open", "stale"}
           /\ strays' \in Nat
           /\ signals' \in 0..MaxSignals
           /\ UNCHANGED <<main, g_server, router, env, accepted, conn>>
<1>1. listen_fd' \in {"none", "open", "stale"} /\ strays' \in Nat
  BY DEF TypeOK, signal_handler, http_server_stop, CloseCounts
<1>2. signals' \in 0..MaxSignals
  BY LifecycleAssumption DEF TypeOK, signal_handler
<1> QED
  BY <1>1, <1>2 DEF TypeOK, signal_handler, http_server_stop

LEMMA OwnershipInit == Init => OwnershipInv
<1> SUFFICES ASSUME Init
             PROVE  OwnershipInv
  OBVIOUS
<1>1. conn \in [Conns -> ConnLabels]
  BY DEF Init, ConnLabels
<1>2. signals \in 0..MaxSignals /\ strays \in Nat
  BY LifecycleAssumption DEF Init
<1>3. TypeOK
  BY <1>1, <1>2 DEF Init, TypeOK, MainLabels
<1>4. Ownership
  BY LifecycleAssumption DEF Init, Ownership, AcceptedIsOwned
<1> QED
  BY <1>3, <1>4 DEF OwnershipInv

\* The steps that hand no connection on.
LEMMA MainKeepsOwnership ==
    ASSUME OwnershipInv,
           \/ http_server_init \/ register_all_routes \/ SetupFails \/ Socket
           \/ Listen \/ ListenFails \/ Run \/ Test \/ AcceptFails \/ Close
           \/ router_destroy \/ http_server_destroy
    PROVE  OwnershipInv'
<1>1. /\ UNCHANGED <<accepted, conn, signals, g_server_stopping>>
      /\ main # "spawn" /\ main' # "spawn"
      /\ main' \in MainLabels
  BY DEF MainLabels, MainGoTo, http_server_init, register_all_routes,
         SetupFails, Socket, Listen, ListenFails, Run, Test, AcceptFails,
         Close, router_destroy, http_server_destroy
<1>2. listen_fd' \in {"none", "open", "stale"} /\ strays' \in Nat
  BY DEF OwnershipInv, TypeOK, CloseCounts, http_server_init,
         register_all_routes, SetupFails, Socket, Listen, ListenFails, Run,
         Test, AcceptFails, Close, router_destroy, http_server_destroy
<1>3. /\ g_server' \in BOOLEAN /\ running' \in BOOLEAN
      /\ router' \in BOOLEAN /\ env' \in BOOLEAN
  BY DEF OwnershipInv, TypeOK, http_server_init, register_all_routes,
         SetupFails, Socket, Listen, ListenFails, Run, Test, AcceptFails,
         Close, router_destroy, http_server_destroy
<1> QED
  BY <1>1, <1>2, <1>3 DEF OwnershipInv, TypeOK, Ownership, AcceptedIsOwned

LEMMA AcceptKeepsOwnership ==
    ASSUME OwnershipInv, Accept
    PROVE  OwnershipInv'
<1>1. PICK c \in Conns : /\ conn[c] = "queued"
                         /\ conn' = [conn EXCEPT ![c] = "accepted"]
                         /\ accepted' = c
  BY DEF Accept
<1>2. accepted = None /\ main' = "spawn"
  BY DEF OwnershipInv, Ownership, Accept, MainGoTo
<1>3. \A d \in Conns : conn[d] # "accepted"
  BY <1>2, LifecycleAssumption DEF OwnershipInv, Ownership, AcceptedIsOwned
<1>4. conn' \in [Conns -> ConnLabels]
  BY <1>1 DEF OwnershipInv, TypeOK, ConnLabels
<1>5. Ownership'
  <2>1. AcceptedIsOwned'
    BY <1>1, <1>3 DEF OwnershipInv, TypeOK, AcceptedIsOwned
  <2> QED
    BY <1>1, <1>2, <2>1, LifecycleAssumption DEF Ownership
<1> QED
  BY <1>1, <1>2, <1>4, <1>5
     DEF OwnershipInv, TypeOK, Accept, MainLabels

LEMMA SpawnKeepsOwnership ==
    ASSUME OwnershipInv, Spawn \/ SpawnFails
    PROVE  OwnershipInv'
<1>1. PICK l \in {"reading", "closed"} : conn' = [conn EXCEPT ![accepted] = l]
  BY DEF Spawn, SpawnFails
<1>2. accepted \in Conns /\ accepted' = None /\ main' = "loop"
  BY DEF OwnershipInv, TypeOK, Spawn, SpawnFails, MainGoTo
<1>3. conn' \in [Conns -> ConnLabels]
  BY <1>1 DEF OwnershipInv, TypeOK, ConnLabels
<1>4. Ownership'
  <2>1. \A d \in Conns : conn'[d] # "accepted"
    BY <1>1, <1>2 DEF OwnershipInv, TypeOK, Ownership, AcceptedIsOwned
  <2> QED
    BY <1>2, <2>1, LifecycleAssumption DEF Ownership, AcceptedIsOwned
<1> QED
  BY <1>2, <1>3, <1>4
     DEF OwnershipInv, TypeOK, Spawn, SpawnFails, MainLabels

\* A connection moves on, and not to or from the main thread.
LEMMA ConnKeepsOwnership ==
    ASSUME OwnershipInv, NEW c \in Conns, Connect(c) \/ Serve(c)
    PROVE  OwnershipInv'
<1>1. PICK l \in {"queued", "routing", "serving", "answered"} :
          conn' = [conn EXCEPT ![c] = l]
  BY DEF Connect, Serve
<1>2. conn[c] # "accepted"
  BY DEF Connect, Serve
<1>3. conn' \in [Conns -> ConnLabels]
  BY <1>1 DEF OwnershipInv, TypeOK, ConnLabels
<1>4. UNCHANGED <<main, g_server, g_server_stopping, running, listen_fd,
                  router, env, accepted, signals, strays>>
  BY DEF Connect, Serve
<1>5. AcceptedIsOwned'
  BY <1>1, <1>2, <1>4
     DEF OwnershipInv, TypeOK, Ownership, AcceptedIsOwned
<1> QED
  BY <1>3, <1>4, <1>5 DEF OwnershipInv, TypeOK, Ownership

LEMMA ReturnKeepsOwnership ==
    ASSUME OwnershipInv, Return
    PROVE  OwnershipInv'
<1>1. main = "return" /\ main' = "exited" /\ accepted = None
  BY DEF Return, MainGoTo, OwnershipInv, Ownership
<1>2. conn' \in [Conns -> ConnLabels]
  BY DEF Return, OwnershipInv, TypeOK, ConnLabels
<1>3. \A d \in Conns : conn'[d] # "accepted"
  BY DEF Return
<1> QED
  BY <1>1, <1>2, <1>3, LifecycleAssumption
     DEF Return, OwnershipInv, TypeOK, Ownership, AcceptedIsOwned, MainLabels

LEMMA OwnershipStep == OwnershipInv /\ [Next]_lifecycle => OwnershipInv'
<1> SUFFICES ASSUME OwnershipInv, [Next]_lifecycle
             PROVE  OwnershipInv'
  OBVIOUS
<1>1. CASE MainThread
  BY <1>1, MainKeepsOwnership, AcceptKeepsOwnership, SpawnKeepsOwnership,
     ReturnKeepsOwnership DEF MainThread
<1>2. CASE signal_handler
  BY <1>2, SignalStep DEF OwnershipInv, TypeOK, Ownership, AcceptedIsOwned
<1>3. ASSUME NEW c \in Conns, Connect(c) \/ Serve(c)
      PROVE  OwnershipInv'
  BY <1>3, ConnKeepsOwnership
<1>4. CASE UNCHANGED lifecycle
  BY <1>4 DEF lifecycle, OwnershipInv, TypeOK, Ownership, AcceptedIsOwned
<1> QED
  BY <1>1, <1>2, <1>3, <1>4 DEF Next, Exited

\* The variables keep their types, and the main thread starts a thread only
\* for a connection that accept returned.
THEOREM LifecycleTypeCorrect == Spec => []TypeOK
<1>1. OwnershipInv => TypeOK
  BY DEF OwnershipInv
<1> QED
  BY <1>1, OwnershipInit, OwnershipStep, PTL DEF Spec

\* Whatever fails, a connection that accept returned is the main thread's, or
\* has its thread, or has been closed.
THEOREM NoConnectionForgotten == Spec => []AcceptedIsOwned
<1>1. OwnershipInv => AcceptedIsOwned
  BY DEF OwnershipInv, Ownership
<1> QED
  BY <1>1, OwnershipInit, OwnershipStep, PTL DEF Spec

-----------------------------------------------------------------------------
LEMMA FdStep ==
    ASSUME "bind" \notin Faults
    PROVE  FdInv /\ [Next]_lifecycle => FdInv'
<1> SUFFICES ASSUME FdInv, [Next]_lifecycle
             PROVE  FdInv'
  OBVIOUS
<1>1. CASE MainThread
  <2>1. CASE \/ http_server_init \/ Socket \/ ListenFails \/ Close
    BY <2>1 DEF FdInv, http_server_init, Socket, ListenFails, Close,
                CloseCounts
  <2>2. CASE \/ register_all_routes \/ SetupFails \/ Listen \/ Run \/ Test
             \/ Accept \/ AcceptFails \/ Spawn \/ SpawnFails
             \/ router_destroy \/ http_server_destroy \/ Return
    BY <2>2 DEF FdInv, register_all_routes, SetupFails, Listen, Run, Test,
                Accept, AcceptFails, Spawn, SpawnFails, router_destroy,
                http_server_destroy, Return
  <2> QED
    BY <1>1, <2>1, <2>2 DEF MainThread
<1>2. CASE signal_handler
  BY <1>2 DEF FdInv, signal_handler, http_server_stop, CloseCounts
<1>3. ASSUME NEW c \in Conns, Connect(c) \/ Serve(c)
      PROVE  FdInv'
  BY <1>3 DEF FdInv, Connect, Serve
<1>4. CASE UNCHANGED lifecycle
  BY <1>4 DEF FdInv, lifecycle
<1> QED
  BY <1>1, <1>2, <1>3, <1>4 DEF Next, Exited

\* When bind and listen succeed, the listening descriptor is closed once,
\* wherever the signals interrupt the main thread.
THEOREM ListeningSocketClosedOnce ==
    ASSUME "bind" \notin Faults
    PROVE  Spec => []DescriptorClosedOnce
<1>1. Init => FdInv
  BY DEF Init, FdInv
<1>2. FdInv => DescriptorClosedOnce
  BY DEF FdInv, DescriptorClosedOnce
<1> QED
  BY <1>1, <1>2, FdStep, PTL DEF Spec

=============================================================================
