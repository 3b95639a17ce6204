---------------------------- MODULE ApiServerProofs ----------------------------
(***************************************************************************)
(* Proofs about ApiServer, for any number of clients and slots.  Slots are *)
(* counted with the library's theorems about finite sets; the clean exit   *)
(* follows from an invariant about the life of the server.                 *)
(***************************************************************************)
EXTENDS ApiServer, FiniteSetTheorems, TLAPS

Open == InState({"new", "active", "idle"})
Token == IF acceptor = "accept" THEN 1 ELSE 0

\* The semaphore is exact, and it is never overfull.
SlotInv == /\ held = Open
           /\ slots = Cardinality(held) + Token
           /\ slots <= MaxConnections

\* Serve has returned and the socket is closed.
Over == acceptor = "returned" /\ ~listening

LifeInv ==
  /\ main = "listen" => acceptor = "none"
  /\ errCh = "nil" \/ cause = "nil" => Over
  /\ ~listening => InState({"backlog"}) = {}
  /\ main \in {"awaitServe", "poll", "receive"} => stopping
  /\ main \in {"poll", "receive"} => acceptor \in {"start", "returned"}
  /\ main = "receive" => Open = {}
  /\ result # "none" => main = "returned"
  /\ result = "ok" => Over /\ Open = {}

IInv == TypeOK /\ SlotInv /\ LifeInv

-----------------------------------------------------------------------------
\* Counting slots.

LEMMA OpenFinite ==
  ASSUME NEW C, C \subseteq Conns
  PROVE  IsFiniteSet(C) /\ Cardinality(C) \in Nat
BY ConnsAssumption, FS_Subset, FS_CardinalityType

\* Closing connections gives back exactly the slots they still hold.
LEMMA ReleaseCount ==
  ASSUME TypeOK, SlotInv, NEW C, Release(C), Token' = Token
  PROVE  /\ held' = held \ C
         /\ slots' = Cardinality(held') + Token'
         /\ slots' <= MaxConnections /\ slots' \in Nat
<1>1. held \subseteq Conns /\ C \cap held = held \cap C
  BY DEF TypeOK
<1>2. /\ IsFiniteSet(held) /\ Cardinality(held) \in Nat
      /\ Cardinality(held \ C) \in Nat /\ Cardinality(held \cap C) \in Nat
  BY <1>1, OpenFinite
<1>3. Cardinality(held \ C) = Cardinality(held) - Cardinality(held \cap C)
  BY <1>2, FS_Difference
<1>4. held' = held \ C /\ slots' = slots - Cardinality(held \cap C)
  BY <1>1 DEF Release
<1>5. slots \in Nat /\ MaxConnections \in Nat /\ Token \in {0, 1}
  BY ConnsAssumption DEF TypeOK, Token
<1>6. slots = Cardinality(held) + Token /\ slots <= MaxConnections
  BY DEF SlotInv
<1>7. QED
  BY <1>2, <1>3, <1>4, <1>5, <1>6

\* The connections that leave a set of states and the rest that stay.
LEMMA OpenAfter ==
  ASSUME TypeOK, NEW C, C \subseteq Conns,
         \A c \in C : conn'[c] \notin {"new", "active", "idle"},
         \A c \in Conns \ C : conn'[c] \in {"new", "active", "idle"} <=>
                              conn[c] \in {"new", "active", "idle"}
  PROVE  Open' = Open \ C
BY DEF Open, InState

LEMMA SlotStep == IInv /\ [Next]_vars => SlotInv' /\ slots' \in Nat
<1> SUFFICES ASSUME IInv, [Next]_vars PROVE SlotInv' /\ slots' \in Nat
  OBVIOUS
<1>i. TypeOK /\ SlotInv /\ LifeInv
  BY DEF IInv
<1>t. slots \in Nat /\ MaxConnections \in Nat
  BY <1>i, ConnsAssumption DEF TypeOK
<1> USE DEF mainVars, acceptVars, connVars, monitorVars
\* The slots and the open connections stay as they are ...
<1>a. ASSUME UNCHANGED <<held, slots>>, Open' = Open, Token' = Token
      PROVE  SlotInv' /\ slots' \in Nat
  BY <1>i, <1>t, <1>a DEF SlotInv
<1>b. ASSUME UNCHANGED <<conn, held, slots>>, Token' = Token PROVE SlotInv' /\ slots' \in Nat
  BY <1>a, <1>b DEF Open, InState
\* ... or connections are closed.
<1>c. ASSUME NEW C, C \subseteq Conns, Release(C), Open' = Open \ C, Token' = Token
      PROVE  SlotInv' /\ slots' \in Nat
  BY <1>i, <1>c, ReleaseCount DEF SlotInv
<1>1. CASE Listen
  BY <1>i, <1>b, <1>1 DEF Listen, Token, LifeInv
<1>2. CASE SelectServeReturned \/ SelectSignal \/ ServeGone \/ ReceiveServeResult
  BY <1>b, <1>2 DEF SelectServeReturned, SelectSignal, ServeGone, ReceiveServeResult, Token
<1>3. CASE BeginShutdown
  <2>1. Open' = Open
    BY <1>i, <1>3 DEF BeginShutdown, CloseListener, Open, InState, TypeOK
  <2>2. QED
    BY <1>a, <1>3, <2>1 DEF BeginShutdown, Token
<1>4. CASE PollIdle
  <2>1. PICK stale \in SUBSET InState({"new"}) :
          LET idle == InState({"idle"}) \cup stale
          IN  /\ conn' = [c \in Conns |-> IF c \in idle THEN "dead" ELSE conn[c]]
              /\ Release(idle)
    BY <1>4 DEF PollIdle
  <2> DEFINE idle == InState({"idle"}) \cup stale
  <2>2. idle \subseteq Conns
    BY DEF InState
  <2>3. Open' = Open \ idle
    BY <1>i, <2>1, <2>2, OpenAfter
  <2>4. Token' = Token
    BY <1>4 DEF PollIdle, Token
  <2>5. QED
    BY <1>c, <2>1, <2>2, <2>3, <2>4
<1>5. CASE ForceClose
  <2>1. Open \subseteq Conns
    BY DEF Open, InState
  <2>2. conn' = [c \in Conns |-> IF c \in Open THEN "dead" ELSE conn[c]] /\ Release(Open)
    BY <1>5 DEF ForceClose, Open
  <2>3. Open' = Open \ Open
    BY <1>i, <2>1, <2>2, OpenAfter
  <2>4. QED
    BY <1>c, <1>5, <2>1, <2>2, <2>3 DEF ForceClose, Token
<1>6. CASE StartServe
  <2>1. Open' = Open
    BY <1>i, <1>6 DEF StartServe, CloseListener, Open, InState, TypeOK
  <2>2. QED
    BY <1>a, <1>6, <2>1 DEF StartServe, Token
<1>7. CASE AcquireSlot
  <2>1. Open' = Open /\ Cardinality(held) \in Nat
    BY <1>i, <1>7, OpenFinite DEF AcquireSlot, Open, InState, TypeOK
  <2>2. QED
    BY <1>i, <1>t, <1>7, <2>1 DEF AcquireSlot, SlotInv, Token
<1>8. ASSUME NEW c \in Conns, Accept(c) PROVE SlotInv' /\ slots' \in Nat
  <2>1. c \notin Open /\ Open' = Open \cup {c}
    BY <1>i, <1>8 DEF Accept, Open, InState, TypeOK
  <2>2. IsFiniteSet(Open) /\ Cardinality(Open) \in Nat
    BY OpenFinite DEF Open, InState
  <2>3. Cardinality(Open') = Cardinality(Open) + 1
    BY <2>1, <2>2, FS_AddElement
  <2>4. held' = Open' /\ slots' = slots /\ Token = 1 /\ Token' = 0
    BY <1>i, <1>8, <2>1 DEF Accept, SlotInv, Token
  <2>5. QED
    BY <1>i, <1>t, <2>2, <2>3, <2>4 DEF SlotInv
<1>9. CASE AcceptFails
  <2>1. Open' = Open
    BY <1>i, <1>9 DEF AcceptFails, CloseListener, Open, InState, TypeOK
  <2>2. Token = 1 /\ Token' = 0 /\ slots' = slots - 1 /\ held' = held
    BY <1>9 DEF AcceptFails, Token
  <2>3. Cardinality(held) \in Nat
    BY <1>i, OpenFinite DEF TypeOK
  <2>4. QED
    BY <1>i, <1>t, <2>1, <2>2, <2>3 DEF SlotInv
<1>10. ASSUME NEW c \in Conns, Connect(c) \/ ReadRequest(c) PROVE SlotInv' /\ slots' \in Nat
  <2>1. Open' = Open
    BY <1>i, <1>10 DEF Connect, ReadRequest, Open, InState, TypeOK
  <2>2. QED
    BY <1>a, <1>10, <2>1 DEF Connect, ReadRequest, ConnUnchanged, Token
<1>11. ASSUME NEW c \in Conns, FinishRequest(c) PROVE SlotInv' /\ slots' \in Nat
  <2>1. Token' = Token
    BY <1>11 DEF FinishRequest, ConnUnchanged, Token
  <2>2. CASE conn' = [conn EXCEPT ![c] = "idle"] /\ UNCHANGED <<held, slots>>
    <3>1. Open' = Open
      BY <1>i, <1>11, <2>2 DEF FinishRequest, Open, InState, TypeOK
    <3>2. QED
      BY <1>a, <2>1, <2>2, <3>1
  <2>3. CASE conn' = [conn EXCEPT ![c] = "gone"] /\ Release({c})
    <3>1. Open' = Open \ {c}
      BY <1>i, <2>3 DEF Open, InState, TypeOK
    <3>2. QED
      BY <1>c, <2>1, <2>3, <3>1
  <2>4. QED
    BY <1>11, <2>2, <2>3 DEF FinishRequest
<1>12. ASSUME NEW c \in Conns, HangUp(c, "new") \/ HangUp(c, "idle") \/ Unwind(c)
       PROVE  SlotInv' /\ slots' \in Nat
  <2>1. conn' = [conn EXCEPT ![c] = "gone"] /\ Release({c}) /\ Token' = Token
    BY <1>12 DEF HangUp, Unwind, ConnUnchanged, Token
  <2>2. Open' = Open \ {c}
    BY <1>i, <2>1 DEF Open, InState, TypeOK
  <2>3. QED
    BY <1>c, <2>1, <2>2
<1>13. CASE Monitor
  BY <1>b, <1>13 DEF Monitor, Ping, CheckContext, Publish, ExitMonitor, MonitorUnchanged, Token
<1>14. CASE Signal \/ DependenciesChange \/ TimerFires
  BY <1>b, <1>14 DEF Signal, DependenciesChange, TimerFires, Token
<1>15. CASE UNCHANGED vars
  BY <1>b, <1>15 DEF vars, Token
<1>16. QED
  BY <1>1, <1>2, <1>3, <1>4, <1>5, <1>6, <1>7, <1>8, <1>9, <1>10, <1>11, <1>12, <1>13, <1>14,
     <1>15 DEF Next, Main, Acceptor

-----------------------------------------------------------------------------
\* The type invariant: only the count of slots needs more than the types.

\* TypeOK in two parts: the flags, and everything else.
Flags == /\ ready \in BOOLEAN /\ signalled \in BOOLEAN /\ depsUp \in BOOLEAN
         /\ stopping \in BOOLEAN /\ listening \in BOOLEAN /\ pinged \in BOOLEAN
Places ==
  /\ main \in {"listen", "select", "shutdown", "awaitServe", "poll", "receive", "returned"}
  /\ cause \in {"none", "signal", "nil", "failed"}
  /\ result \in {"none", "ok", "failed", "timeout"}
  /\ timer \in {"off", "running", "expired"}
  /\ acceptor \in {"none", "start", "acquire", "accept", "returned"}
  /\ errCh \in {"empty", "nil", "failed"}
  /\ conn \in [Conns -> {"gone", "backlog", "new", "active", "idle", "dead"}]
  /\ held \in SUBSET Conns /\ slots \in Nat
  /\ monitor \in {"none", "wait", "pinged", "publish", "exited"}

LEMMA TypeStep == IInv /\ [Next]_vars => TypeOK'
<1> SUFFICES ASSUME IInv, [Next]_vars PROVE TypeOK'
  OBVIOUS
<1>t. TypeOK
  BY DEF IInv
<1>s. slots' \in Nat
  BY SlotStep
<1> USE <1>t, <1>s DEF TypeOK, mainVars, acceptVars, connVars, monitorVars
<1>1. CASE Listen
  <2>1. Flags'
    BY <1>1 DEF Listen, Flags
  <2>2. Places'
    BY <1>1 DEF Listen, Places
  <2>3. QED
    BY <2>1, <2>2 DEF Flags, Places
<1>2. CASE SelectServeReturned
  <2>1. Flags'
    BY <1>2 DEF SelectServeReturned, Flags
  <2>2. Places'
    BY <1>2 DEF SelectServeReturned, Places
  <2>3. QED
    BY <2>1, <2>2 DEF Flags, Places
<1>3. CASE SelectSignal
  <2>1. Flags'
    BY <1>3 DEF SelectSignal, Flags
  <2>2. Places'
    BY <1>3 DEF SelectSignal, Places
  <2>3. QED
    BY <2>1, <2>2 DEF Flags, Places
<1>4. CASE BeginShutdown
  <2>1. Flags'
    BY <1>4 DEF BeginShutdown, CloseListener, Flags
  <2>2. Places'
    BY <1>4 DEF BeginShutdown, CloseListener, Places
  <2>3. QED
    BY <2>1, <2>2 DEF Flags, Places
<1>5. CASE ServeGone
  BY <1>5 DEF ServeGone
<1>6. CASE PollIdle
  BY <1>6 DEF PollIdle, ShutdownOK, Release
<1>7. CASE ForceClose
  BY <1>7 DEF ForceClose, Release
<1>8. CASE ReceiveServeResult
  BY <1>8 DEF ReceiveServeResult
<1>9. CASE StartServe
  <2>1. Flags'
    BY <1>9 DEF StartServe, CloseListener, Flags
  <2>2. Places'
    BY <1>9 DEF StartServe, CloseListener, Places
  <2>3. QED
    BY <2>1, <2>2 DEF Flags, Places
<1>10. CASE AcquireSlot
  BY <1>10 DEF AcquireSlot
<1>11. ASSUME NEW c \in Conns, Accept(c) PROVE TypeOK'
  BY <1>11 DEF Accept
<1>12. CASE AcceptFails
  <2>1. Flags'
    BY <1>12 DEF AcceptFails, CloseListener, Flags
  <2>2. Places'
    BY <1>12 DEF AcceptFails, CloseListener, Places
  <2>3. QED
    BY <2>1, <2>2 DEF Flags, Places
<1>13. ASSUME NEW c \in Conns, Connect(c) \/ ReadRequest(c) PROVE TypeOK'
  BY <1>13 DEF Connect, ReadRequest, ConnUnchanged
<1>14. ASSUME NEW c \in Conns, FinishRequest(c) PROVE TypeOK'
  BY <1>14 DEF FinishRequest, ConnUnchanged, Release
<1>15. ASSUME NEW c \in Conns, HangUp(c, "new") \/ HangUp(c, "idle") \/ Unwind(c)
       PROVE  TypeOK'
  BY <1>15 DEF HangUp, Unwind, ConnUnchanged, Release
<1>16. CASE Monitor
  BY <1>16 DEF Monitor, Ping, CheckContext, Publish, ExitMonitor, MonitorUnchanged
<1>17. CASE Signal
  BY <1>17 DEF Signal
<1>18. CASE DependenciesChange
  BY <1>18 DEF DependenciesChange
<1>19. CASE TimerFires
  BY <1>19 DEF TimerFires
<1>20. CASE UNCHANGED vars
  BY <1>20 DEF vars
<1>21. QED
  BY <1>1, <1>2, <1>3, <1>4, <1>5, <1>6, <1>7, <1>8, <1>9, <1>10, <1>11, <1>12, <1>13, <1>14,
     <1>15, <1>16, <1>17, <1>18, <1>19, <1>20 DEF Next, Main, Acceptor

-----------------------------------------------------------------------------
\* The life of the server, up to its return.

LEMMA LifeStep == IInv /\ [Next]_vars => LifeInv'
<1> SUFFICES ASSUME IInv, [Next]_vars PROVE LifeInv'
  OBVIOUS
<1>i. TypeOK /\ LifeInv
  BY DEF IInv
<1> USE <1>i DEF LifeInv, Over, Open, InState, TypeOK, mainVars, acceptVars, connVars,
                 monitorVars
<1>1. CASE Listen
  BY <1>1 DEF Listen
<1>2. CASE SelectServeReturned
  BY <1>2 DEF SelectServeReturned
<1>3. CASE SelectSignal
  BY <1>3 DEF SelectSignal
<1>4. CASE BeginShutdown
  BY <1>4 DEF BeginShutdown, CloseListener
<1>5. CASE ServeGone
  BY <1>5 DEF ServeGone
<1>6. CASE PollIdle
  BY <1>6 DEF PollIdle, ShutdownOK
<1>7. CASE ForceClose
  BY <1>7 DEF ForceClose
<1>8. CASE ReceiveServeResult
  BY <1>8 DEF ReceiveServeResult
<1>9. CASE StartServe
  BY <1>9 DEF StartServe, CloseListener
<1>10. CASE AcquireSlot
  BY <1>10 DEF AcquireSlot
<1>11. ASSUME NEW c \in Conns, Accept(c) PROVE LifeInv'
  BY <1>11 DEF Accept
<1>12. CASE AcceptFails
  BY <1>12 DEF AcceptFails, CloseListener
<1>13. ASSUME NEW c \in Conns, Connect(c) \/ ReadRequest(c) PROVE LifeInv'
  BY <1>13 DEF Connect, ReadRequest, ConnUnchanged
<1>14. ASSUME NEW c \in Conns, FinishRequest(c) PROVE LifeInv'
  BY <1>14 DEF FinishRequest, ConnUnchanged
<1>15. ASSUME NEW c \in Conns, HangUp(c, "new") \/ HangUp(c, "idle") \/ Unwind(c)
       PROVE  LifeInv'
  BY <1>15 DEF HangUp, Unwind, ConnUnchanged
<1>16. CASE Monitor
  BY <1>16 DEF Monitor, Ping, CheckContext, Publish, ExitMonitor, MonitorUnchanged
<1>17. CASE Signal \/ DependenciesChange
  BY <1>17 DEF Signal, DependenciesChange
<1>18. CASE TimerFires
  BY <1>18 DEF TimerFires
<1>19. CASE UNCHANGED vars
  BY <1>19 DEF vars
<1>20. QED
  BY <1>1, <1>2, <1>3, <1>4, <1>5, <1>6, <1>7, <1>8, <1>9, <1>10, <1>11, <1>12, <1>13, <1>14,
     <1>15, <1>16, <1>17, <1>18, <1>19 DEF Next, Main, Acceptor

LEMMA Invariance == Spec => []IInv
<1>1. Init => IInv
  <2> SUFFICES ASSUME Init PROVE IInv
    OBVIOUS
  <2>1. Open = {} /\ InState({"backlog"}) = {} /\ Cardinality({}) = 0
    BY FS_EmptySet DEF Init, Open, InState
  <2>2. TypeOK
    BY DEF Init, TypeOK
  <2>3. QED
    BY <2>1, <2>2, ConnsAssumption DEF Init, IInv, SlotInv, LifeInv, Token
<1>2. IInv /\ [Next]_vars => IInv'
  BY SlotStep, TypeStep, LifeStep DEF IInv
<1>3. QED
  BY <1>1, <1>2, PTL DEF Spec

-----------------------------------------------------------------------------
\* The server's state keeps its types; slots never go below zero.
THEOREM TypeCorrect == Spec => []TypeOK
<1>1. IInv => TypeOK
  BY DEF IInv
<1>2. QED
  BY <1>1, Invariance, PTL

\* Slots are neither leaked nor given back twice, by whoever closes first.
THEOREM SlotsAreExact == Spec => []SlotsMatchConnections
<1>1. IInv => SlotsMatchConnections
  BY DEF IInv, SlotInv, SlotsMatchConnections, Open, Token
<1>2. QED
  BY <1>1, Invariance, PTL

\* The listener never lets more than maxConnections connections be open.
THEOREM LimitHolds == Spec => []ConnectionLimit
<1>1. IInv => ConnectionLimit
  <2> SUFFICES ASSUME IInv PROVE Cardinality(Open) <= MaxConnections
    BY DEF ConnectionLimit, Open
  <2>1. Cardinality(Open) \in Nat
    BY OpenFinite DEF Open, InState
  <2>2. QED
    BY <2>1, ConnsAssumption DEF IInv, SlotInv, Token
<1>2. QED
  BY <1>1, Invariance, PTL

\* A nil return leaves no connection and no accept loop behind.
THEOREM CleanExitIsClean == Spec => []CleanExitDropsNobody
<1>1. IInv => CleanExitDropsNobody
  <2> SUFFICES ASSUME IInv, result = "ok"
               PROVE  Over /\ InState({"backlog", "new", "active", "idle"}) = {}
    BY DEF CleanExitDropsNobody, Over
  <2>1. Over /\ Open = {} /\ InState({"backlog"}) = {}
    BY DEF IInv, LifeInv, Over
  <2>2. QED
    BY <2>1 DEF Open, InState
<1>2. QED
  BY <1>1, Invariance, PTL

\* No request in progress is cut before the shutdown timer has fired.
THEOREM DrainIsNotCut == Spec => RequestsDrain
<1>1. IInv /\ [Next]_vars =>
        [\A c \in Conns : conn[c] = "active" /\ conn'[c] = "dead" => timer = "expired"]_vars
  <2> SUFFICES ASSUME IInv, Next, NEW c \in Conns, conn[c] = "active", conn'[c] = "dead"
               PROVE  timer = "expired"
    BY DEF vars
  <2>t. TypeOK
    BY DEF IInv
  <2> USE DEF TypeOK, mainVars, acceptVars, connVars, monitorVars
  <2>1. CASE ForceClose
    BY <2>1 DEF ForceClose
  <2>2. CASE PollIdle
    BY <2>t, <2>2 DEF PollIdle, InState
  <2>3. CASE Main /\ ~ForceClose /\ ~PollIdle
    BY <2>t, <2>3 DEF Main, Listen, SelectServeReturned, SelectSignal, BeginShutdown, CloseListener,
                ServeGone, ReceiveServeResult
  <2>4. CASE Acceptor
    BY <2>t, <2>4 DEF Acceptor, StartServe, AcquireSlot, Accept, AcceptFails, CloseListener
  <2>5. CASE Monitor \/ Signal \/ DependenciesChange \/ TimerFires
    BY <2>5 DEF Monitor, Ping, CheckContext, Publish, ExitMonitor, MonitorUnchanged, Signal,
                DependenciesChange, TimerFires
  <2>6. ASSUME NEW d \in Conns,
               \/ Connect(d) \/ ReadRequest(d) \/ FinishRequest(d) \/ Unwind(d)
               \/ HangUp(d, "new") \/ HangUp(d, "idle")
        PROVE  FALSE
    BY <2>t, <2>6 DEF Connect, ReadRequest, FinishRequest, Unwind, HangUp
  <2>7. QED
    BY <2>1, <2>2, <2>3, <2>4, <2>5, <2>6 DEF Next
<1>2. QED
  BY <1>1, Invariance, PTL DEF Spec, RequestsDrain
=============================================================================
