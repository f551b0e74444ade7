------------------------- MODULE EventStreamProofs -------------------------
(***************************************************************************)
(* Theorems about the MQTT stream.  First its connection, EventStream: for *)
(* every set of streams and tasks, every number of backoff delays, and a   *)
(* broker of either kind.  Then what it carries, PacketStream: for every   *)
(* base and width of the varints, every set of events, and sessions of any *)
(* length.                                                                 *)
(***************************************************************************)
EXTENDS EventStream, PacketStream, SequenceTheorems, WellFoundedInduction, TLAPS

\* Type correctness: needs no strengthening.
THEOREM TypeCorrect == Spec => []TypeOK
<1> USE ConstantsAssumption DEF StreamState, PendingPC, FinishedPC, MainPC,
        Builders
<1>1. Init => TypeOK
  <2> SUFFICES ASSUME Init PROVE TypeOK
    OBVIOUS
  <2>1. stream \in [Streams -> StreamState]
    BY DEF Init
  <2>2. /\ pc \in [Builders -> PendingPC \union FinishedPC \union MainPC]
        /\ building \in [Builders -> Streams \union {None}]
    BY DEF Init
  <2>3. attempt \in [Tasks -> 1..Attempts]
    BY DEF Init
  <2> QED
    BY <2>1, <2>2, <2>3 DEF Init, TypeOK
<1>2. TypeOK /\ [Next]_vars => TypeOK'
  <2> SUFFICES ASSUME TypeOK, [Next]_vars
               PROVE  TypeOK'
    OBVIOUS
  <2> USE DEF TypeOK
  <2>1. ASSUME NEW b \in Builders, FindStream(b) PROVE TypeOK'
    BY <2>1 DEF FindStream, MayEnter, Answer, LastAttempt, NextAttempt
  <2>2. ASSUME NEW b \in Builders, CannotBuild(b) PROVE TypeOK'
    BY <2>2 DEF CannotBuild, MayEnter, Answer, LastAttempt, NextAttempt
  <2>3. ASSUME NEW b \in Builders, NEW s \in Streams, Build(b, s)
        PROVE  TypeOK'
    BY <2>3 DEF Build
  <2>4. ASSUME NEW b \in Builders, SocketOpens(b) PROVE TypeOK'
    BY <2>4 DEF SocketOpens
  <2>5. ASSUME NEW b \in Builders, ConnectFails(b) PROVE TypeOK'
    <3>1. stream' \in [Streams -> StreamState]
      BY <2>5 DEF ConnectFails
    <3> QED
      BY <2>5, <3>1 DEF ConnectFails, HandleAfterFailure, Answer, LastAttempt,
                        NextAttempt
  <2>6. ASSUME NEW b \in Builders, NEW g \in BOOLEAN, SubAck(b, g)
        PROVE  TypeOK'
    BY <2>6 DEF SubAck, Answer, LastAttempt, NextAttempt
  <2>7. ASSUME NEW b \in Builders, SseClosed(b) PROVE TypeOK'
    BY <2>7 DEF SseClosed, Answer, LastAttempt, NextAttempt
  <2>8. ASSUME NEW s \in Streams, Listen(s) PROVE TypeOK'
    BY <2>8 DEF Listen, StreamDrops, SupersededEnds, ListenerCrashes,
                StartReconnect
  <2>9. ASSUME NEW t \in Tasks, WakeFindsStream(t) \/ WakeTries(t)
        PROVE  TypeOK'
    BY <2>9 DEF WakeFindsStream, WakeTries
  <2>10. ASSUME NEW t \in Tasks, CancelDelivered(t) PROVE TypeOK'
    BY <2>10 DEF CancelDelivered
  <2>11. CASE TickStarts \/ RefreshEnds
    BY <2>11 DEF TickStarts, RefreshEnds
  <2>12. CASE Unload
    BY <2>12 DEF Unload, ReconnectPending, Disconnect, StopTheRest
  <2>13. CASE Reaped
    BY <2>13 DEF Reaped, Disconnect, StopTheRest
  <2>14. CASE Disconnected
    BY <2>14 DEF Disconnected, StopTheRest
  <2>15. CASE DisconnectRaises \/ SseStopped \/ SessionClosed
    BY <2>15 DEF DisconnectRaises, SseStopped, SessionClosed
  <2>16. CASE UNCHANGED vars
    BY <2>16 DEF vars
  <2> QED
    BY <2>1, <2>2, <2>3, <2>4, <2>5, <2>6, <2>7, <2>8, <2>9, <2>10, <2>11,
       <2>12, <2>13, <2>14, <2>15, <2>16
       DEF Next, Ensure, Connect, Reconnect, Shutdown
<1>3. QED
  BY <1>1, <1>2, PTL DEF Spec

----------------------------------------------------------------------------
(* The inductive invariant.  It speaks of a loaded entry only: once an      *)
(* unload has begun nothing it says is needed, and no step leads back.      *)

\* Who is in connect() holds the lock and owns the handle, a half-built
\* stream; who stops the supplement holds the lock.
ConnectingOwns ==
  \A b \in Builders :
    /\ pc[b] = "connecting" =>
         /\ lock = b
         /\ building[b] \in Streams
         /\ mqtt = building[b]
         /\ stream[mqtt] \in {"opening", "handshake"}
    /\ pc[b] = "syncing" => lock = b /\ ~gap

\* The lock is held across an await only.
LockInUse ==
  lock # None => lock \in Builders /\ pc[lock] \in {"connecting", "syncing"}

\* Only the stream in the handle is alive, in one of four ways; half-built
\* means that the lock's holder is in its connect().
HandleAlive ==
  /\ \A s \in Streams : stream[s] # "down" => mqtt = s
  /\ mqtt # None =>
       stream[mqtt] \in {"opening", "handshake", "listening", "crashed"}
  /\ (mqtt # None /\ stream[mqtt] \in {"opening", "handshake"}) =>
       /\ lock \in Builders
       /\ pc[lock] = "connecting"
       /\ building[lock] = mqtt

\* A pending reconnect loop is the one that was kept.
LoopIsKept == \A t \in Tasks : Pending(t) => reconnect_task = t

\* The supplement agrees with the verdict unless somebody is closing it.
SupplementAgrees ==
  (\A b \in Builders : pc[b] # "syncing") => (sse = "open" <=> gap)

Loaded ==
  shutdown = "none" =>
    /\ cancelling = {}
    /\ session = "open"
    /\ ConnectingOwns
    /\ LockInUse
    /\ HandleAlive
    /\ LoopIsKept
    /\ SupplementAgrees

IInv == TypeOK /\ Loaded

\* What the answer of _ensure_mqtt does to the program counters: the builder
\* leaves it, and only the builder moves.
LEMMA AnswerLeaves ==
  ASSUME TypeOK, NEW b \in Builders, NEW up \in BOOLEAN, Answer(b, up)
  PROVE  /\ lock' = None
         /\ building' = [building EXCEPT ![b] = None]
         /\ \A c \in Builders : c # b => pc'[c] = pc[c]
         /\ pc'[b] \in {"idle", "returned", "sleeping", "gave_up"}
         /\ pc'[b] = "sleeping" => b # Main
  BY ConstantsAssumption DEF TypeOK, Answer, Builders

\* No step of a loaded entry breaks the invariant.
LEMMA LoadedPreserved ==
  ASSUME TypeOK, Loaded, [Next]_vars, shutdown = "none", shutdown' = "none"
  PROVE  Loaded'
<1> USE ConstantsAssumption DEF Loaded
<1>1. ASSUME NEW b \in Builders, FindStream(b) PROVE Loaded'
  <2>1. /\ lock' = None
        /\ \A c \in Builders : c # b => pc'[c] = pc[c]
        /\ pc'[b] \in {"idle", "returned", "sleeping", "gave_up"}
    BY <1>1, AnswerLeaves DEF FindStream
  <2>2. \A c \in Builders : pc[c] \notin {"connecting", "syncing"}
    BY <1>1 DEF FindStream, MayEnter, ConnectingOwns, TypeOK, Builders
  <2>3. ConnectingOwns' /\ LockInUse'
    BY <2>1, <2>2 DEF ConnectingOwns, LockInUse
  <2>4. HandleAlive'
    BY <1>1 DEF FindStream, MayEnter, HandleAlive, Builders
  <2>5. LoopIsKept'
    BY <1>1, <2>1 DEF FindStream, MayEnter, Pending, PendingPC, LoopIsKept,
                      Builders
  <2>6. SupplementAgrees'
    BY <1>1, <2>2 DEF FindStream, SupplementAgrees
  <2> QED
    BY <1>1, <2>3, <2>4, <2>5, <2>6 DEF FindStream
<1>2. ASSUME NEW b \in Builders, CannotBuild(b) PROVE Loaded'
  BY <1>2 DEF CannotBuild
<1>3. ASSUME NEW b \in Builders, NEW s \in Streams, Build(b, s)
      PROVE  Loaded'
  <2> USE <1>3 DEF Build, MayEnter, AlreadyUp
  <2>1. \A c \in Builders : pc[c] \notin {"connecting", "syncing"}
    BY DEF ConnectingOwns, TypeOK, Builders
  <2>2. pc' = [c \in Builders |-> IF c = b THEN "connecting" ELSE pc[c]]
    BY DEF TypeOK
  <2>3. ConnectingOwns'
    BY <2>1, <2>2 DEF ConnectingOwns, TypeOK
  <2>4. LockInUse'
    BY <2>2 DEF LockInUse
  <2>5. HandleAlive'
    BY <2>2 DEF HandleAlive, TypeOK
  <2>6. LoopIsKept'
    BY <2>2 DEF LoopIsKept, Pending, PendingPC, Builders
  <2>7. SupplementAgrees'
    BY <2>1, <2>2 DEF SupplementAgrees
  <2> QED
    BY <2>3, <2>4, <2>5, <2>6, <2>7
<1>4. ASSUME NEW b \in Builders, SocketOpens(b) PROVE Loaded'
  <2> USE <1>4 DEF SocketOpens
  <2>1. building[b] = mqtt /\ mqtt \in Streams /\ lock = b
    BY DEF ConnectingOwns
  <2>2. stream' = [stream EXCEPT ![mqtt] = "handshake"]
    BY <2>1
  <2>3. ConnectingOwns'
    BY <2>1, <2>2 DEF ConnectingOwns, TypeOK
  <2>4. HandleAlive'
    BY <2>1, <2>2 DEF HandleAlive, TypeOK
  <2> QED
    BY <2>3, <2>4 DEF LockInUse, LoopIsKept, Pending, SupplementAgrees
<1>5. ASSUME NEW b \in Builders, ConnectFails(b) PROVE Loaded'
  <2> USE <1>5 DEF ConnectFails, HandleAfterFailure
  <2>1. /\ lock' = None
        /\ \A c \in Builders : c # b => pc'[c] = pc[c]
        /\ pc'[b] \in {"idle", "returned", "sleeping", "gave_up"}
    BY AnswerLeaves
  <2>2. building[b] = mqtt /\ mqtt \in Streams /\ lock = b
    BY DEF ConnectingOwns
  <2>3. \A c \in Builders : c # b => pc[c] \notin {"connecting", "syncing"}
    BY <2>2 DEF ConnectingOwns
  <2>4. ConnectingOwns' /\ LockInUse'
    BY <2>1, <2>3 DEF ConnectingOwns, LockInUse
  <2>5. HandleAlive'
    BY <2>2 DEF HandleAlive, TypeOK
  <2>6. LoopIsKept'
    BY <2>1 DEF LoopIsKept, Pending, PendingPC, Builders
  <2>7. SupplementAgrees'
    BY <2>1, <2>3 DEF SupplementAgrees
  <2> QED
    BY <2>4, <2>5, <2>6, <2>7
<1>6. ASSUME NEW b \in Builders, NEW g \in BOOLEAN, SubAck(b, g)
      PROVE  Loaded'
  <2>1. /\ pc[b] = "connecting" /\ session' = session
        /\ stream' = [stream EXCEPT ![building[b]] = "listening"]
        /\ UNCHANGED <<mqtt, reconnect_task, cancelling>>
    BY <1>6 DEF SubAck
  <2>2. building[b] = mqtt /\ mqtt \in Streams /\ lock = b
    BY <2>1 DEF ConnectingOwns
  <2>3. \A c \in Builders : c # b => pc[c] \notin {"connecting", "syncing"}
    BY <2>2 DEF ConnectingOwns
  <2>4. HandleAlive'
    BY <2>1, <2>2 DEF HandleAlive, TypeOK
  <2>5. ASSUME Answer(b, TRUE), g => sse' = "open", ~g => sse' # "open",
               gap' = g
        PROVE  Loaded'
    <3>1. /\ lock' = None
          /\ \A c \in Builders : c # b => pc'[c] = pc[c]
          /\ pc'[b] \in {"idle", "returned", "sleeping", "gave_up"}
      BY <2>5, AnswerLeaves
    <3>2. ConnectingOwns' /\ LockInUse'
      BY <3>1, <2>3 DEF ConnectingOwns, LockInUse
    <3>3. LoopIsKept'
      BY <2>1, <3>1 DEF LoopIsKept, Pending, PendingPC, Builders
    <3>4. SupplementAgrees'
      BY <2>5 DEF SupplementAgrees
    <3> QED
      BY <2>1, <2>4, <3>2, <3>3, <3>4
  <2>6. ASSUME pc' = [pc EXCEPT ![b] = "syncing"], ~gap',
               UNCHANGED <<lock, building>>
        PROVE  Loaded'
    <3>1. ConnectingOwns'
      BY <2>2, <2>3, <2>6 DEF ConnectingOwns, TypeOK
    <3>2. LockInUse' /\ LoopIsKept' /\ SupplementAgrees'
      BY <2>1, <2>2, <2>6 DEF LockInUse, LoopIsKept, Pending, PendingPC,
                              SupplementAgrees, TypeOK, Builders
    <3> QED
      BY <2>1, <2>4, <3>1, <3>2
  <2>7. mqtt # None
    BY <2>2, ConstantsAssumption
  <2>8. gap' = g
    BY <1>6, <2>7 DEF SubAck
  <2>9. CASE MustStopSse(g)
    <3>1. /\ pc' = [pc EXCEPT ![b] = "syncing"]
          /\ UNCHANGED <<lock, building>>
      BY <1>6, <2>7, <2>9 DEF SubAck
    <3> QED
      BY <2>6, <2>8, <2>9, <3>1 DEF MustStopSse
  <2>10. CASE ~MustStopSse(g)
    <3>1. Answer(b, TRUE) /\ sse' = IF g THEN "open" ELSE sse
      BY <1>6, <2>7, <2>10 DEF SubAck
    <3>2. (g => sse' = "open") /\ (~g => sse' # "open")
      BY <3>1, <2>10 DEF MustStopSse
    <3> QED
      BY <2>5, <2>8, <3>1, <3>2
  <2> QED
    BY <2>9, <2>10
<1>7. ASSUME NEW b \in Builders, SseClosed(b) PROVE Loaded'
  <2> USE <1>7 DEF SseClosed
  <2>1. /\ lock' = None
        /\ \A c \in Builders : c # b => pc'[c] = pc[c]
        /\ pc'[b] \in {"idle", "returned", "sleeping", "gave_up"}
    BY AnswerLeaves
  <2>2. lock = b /\ ~gap
    BY DEF ConnectingOwns
  <2>3. \A c \in Builders : c # b => pc[c] \notin {"connecting", "syncing"}
    BY <2>2 DEF ConnectingOwns
  <2>4. ConnectingOwns' /\ LockInUse'
    BY <2>1, <2>3 DEF ConnectingOwns, LockInUse
  <2>5. HandleAlive'
    BY <2>2 DEF HandleAlive
  <2>6. LoopIsKept'
    BY <2>1 DEF LoopIsKept, Pending, PendingPC, Builders
  <2>7. SupplementAgrees'
    BY <2>2 DEF SupplementAgrees
  <2> QED
    BY <2>4, <2>5, <2>6, <2>7
<1>8. ASSUME NEW s \in Streams, StreamDrops(s) PROVE Loaded'
  <2> USE <1>8 DEF StreamDrops
  <2>1. \A c \in Builders : pc[c] # "connecting"
    BY DEF ConnectingOwns
  <2>2. /\ \A c \in Builders :
             \/ pc'[c] = pc[c]
             \/ pc'[c] = "sleeping" /\ pc[c] \notin PendingPC
        /\ LoopIsKept'
    BY DEF StartReconnect, ReconnectPending, LoopIsKept, Pending, PendingPC,
           TypeOK, Builders
  <2>3. ConnectingOwns' /\ LockInUse' /\ SupplementAgrees'
    BY <2>1, <2>2 DEF ConnectingOwns, LockInUse, SupplementAgrees, PendingPC
  <2>4. HandleAlive'
    BY DEF HandleAlive, TypeOK
  <2> QED
    BY <2>2, <2>3, <2>4
<1>9. ASSUME NEW s \in Streams, SupersededEnds(s) PROVE Loaded'
  BY <1>9 DEF SupersededEnds, HandleAlive
<1>10. ASSUME NEW s \in Streams, ListenerCrashes(s) PROVE Loaded'
  <2> USE <1>10 DEF ListenerCrashes
  <2>1. mqtt = s /\ \A c \in Builders : pc[c] # "connecting"
    BY DEF HandleAlive, ConnectingOwns
  <2>2. HandleAlive' /\ ConnectingOwns'
    BY <2>1 DEF HandleAlive, ConnectingOwns, TypeOK
  <2> QED
    BY <2>2 DEF LockInUse, LoopIsKept, Pending, SupplementAgrees
<1>11. ASSUME NEW t \in Tasks, WakeFindsStream(t) \/ WakeTries(t)
       PROVE  Loaded'
  <2> USE <1>11 DEF WakeFindsStream, WakeTries
  <2>1. /\ \A c \in Builders : c # t => pc'[c] = pc[c]
        /\ pc[t] = "sleeping" /\ pc'[t] \in {"returned", "waiting"}
    BY DEF TypeOK, Builders
  <2>2. ConnectingOwns' /\ LockInUse' /\ SupplementAgrees'
    BY <2>1 DEF ConnectingOwns, LockInUse, SupplementAgrees
  <2>3. HandleAlive'
    BY <2>1 DEF HandleAlive
  <2>4. LoopIsKept'
    BY <2>1 DEF LoopIsKept, Pending, PendingPC, Builders
  <2> QED
    BY <2>2, <2>3, <2>4
<1>12. ASSUME NEW t \in Tasks, CancelDelivered(t) PROVE Loaded'
  BY <1>12 DEF CancelDelivered
<1>13. CASE TickStarts \/ RefreshEnds
  <2> USE <1>13 DEF TickStarts, RefreshEnds
  <2>1. /\ \A c \in Builders : c # Main => pc'[c] = pc[c]
        /\ pc[Main] \in {"idle", "refreshing"}
        /\ pc'[Main] \in {"waiting", "refreshing", "reauth"}
    BY DEF TypeOK, Builders
  <2>2. ConnectingOwns' /\ LockInUse' /\ SupplementAgrees'
    BY <2>1 DEF ConnectingOwns, LockInUse, SupplementAgrees
  <2>3. HandleAlive'
    BY <2>1 DEF HandleAlive
  <2>4. LoopIsKept'
    BY <2>1 DEF LoopIsKept, Pending, Builders
  <2> QED
    BY <2>2, <2>3, <2>4
<1>14. ~Shutdown
  BY DEF Shutdown, Unload, Reaped, Disconnected, DisconnectRaises, SseStopped,
         SessionClosed, Disconnect, StopTheRest
<1>15. CASE UNCHANGED vars
  BY <1>15 DEF vars, ConnectingOwns, LockInUse, HandleAlive, LoopIsKept,
               Pending, SupplementAgrees
<1> QED
  BY <1>1, <1>2, <1>3, <1>4, <1>5, <1>6, <1>7, <1>8, <1>9, <1>10, <1>11,
     <1>12, <1>13, <1>14, <1>15
     DEF Next, Ensure, Connect, Listen, Reconnect

\* The invariant holds in every reachable state.
THEOREM Invariance == Spec => []IInv
<1>1. Init => Loaded
  BY ConstantsAssumption
     DEF Init, Loaded, ConnectingOwns, LockInUse, HandleAlive, LoopIsKept,
         Pending, PendingPC, SupplementAgrees, Builders
<1>2. TypeOK /\ Loaded /\ [Next]_vars => Loaded'
  <2>1. CASE shutdown' = "none"
    <3>1. [Next]_vars /\ shutdown # "none" => shutdown' # "none"
      BY DEF Next, vars, Ensure, Connect, Listen, Reconnect, Shutdown,
             FindStream, CannotBuild, Build, SocketOpens, ConnectFails, SubAck,
             SseClosed, StreamDrops, SupersededEnds, ListenerCrashes,
             WakeFindsStream, WakeTries, CancelDelivered, TickStarts,
             RefreshEnds, Unload, Reaped, Disconnected, DisconnectRaises,
             SseStopped, SessionClosed, Disconnect, StopTheRest
    <3> QED
      BY <2>1, <3>1, LoadedPreserved
  <2>2. CASE shutdown' # "none"
    BY <2>2 DEF Loaded
  <2> QED
    BY <2>1, <2>2
<1>3. QED
  BY <1>1, <1>2, TypeCorrect, PTL DEF Spec, IInv

----------------------------------------------------------------------------
\* However the tick and the reconnect tasks interleave, the only stream that
\* listens is the one in the handle (what _mqtt_lock is for).
THEOREM OrphanFreedom == Spec => []NoOrphanListener
<1>1. IInv => NoOrphanListener
  BY DEF IInv, Loaded, HandleAlive, NoOrphanListener
<1>2. QED
  BY <1>1, Invariance, PTL

\* No later caller can take a half-built stream for one that is up, unless
\* it looks without the lock.
THEOREM HalfBuiltOwnership == Spec => []HalfBuiltIsOwned
<1>1. IInv => HalfBuiltIsOwned
  BY DEF IInv, Loaded, HandleAlive, HalfBuiltIsOwned
<1>2. QED
  BY <1>1, Invariance, PTL

\* Two reconnect loops are never pending together.
THEOREM SingleReconnect == Spec => []NoStackedReconnects
<1>1. IInv => NoStackedReconnects
  BY DEF IInv, Loaded, LoopIsKept, NoStackedReconnects
<1>2. QED
  BY <1>1, Invariance, PTL

\* The supplement is open exactly when MQTT leaves a resource uncovered.
THEOREM SupplementMatches == Spec => []SseFillsTheGap
<1>1. IInv => SseFillsTheGap
  BY ConstantsAssumption
     DEF IInv, TypeOK, Loaded, ConnectingOwns, SupplementAgrees,
         SseFillsTheGap, Builders
<1>2. QED
  BY <1>1, Invariance, PTL

\* The session is already closing when shutdown waits for it to close.
NoSseInv ==
  /\ NoSseOnClosedSession
  /\ shutdown = "closing" => session # "open"

\* No SSE loop is left on, or started on, a session that is being closed,
\* through every step of an unload and whatever tick it overtakes.
THEOREM NoSseLeft == Spec => []NoSseOnClosedSession
<1>1. Init => NoSseInv
  BY DEF Init, NoSseInv, NoSseOnClosedSession
<1>2. NoSseInv /\ [Next]_vars => NoSseInv'
  <2> SUFFICES ASSUME NoSseInv, [Next]_vars
               PROVE  NoSseInv'
    OBVIOUS
  <2> USE DEF NoSseInv, NoSseOnClosedSession
  <2>1. ASSUME NEW b \in Builders, Ensure(b) PROVE NoSseInv'
    BY <2>1 DEF Ensure, FindStream, CannotBuild, Build
  <2>2. ASSUME NEW b \in Builders, Connect(b) PROVE NoSseInv'
    BY <2>2 DEF Connect, SocketOpens, ConnectFails, SubAck, SseClosed
  <2>3. ASSUME NEW s \in Streams, Listen(s) PROVE NoSseInv'
    BY <2>3 DEF Listen, StreamDrops, SupersededEnds, ListenerCrashes
  <2>4. ASSUME NEW t \in Tasks, Reconnect(t) PROVE NoSseInv'
    BY <2>4 DEF Reconnect, WakeFindsStream, WakeTries, CancelDelivered
  <2>5. CASE TickStarts \/ RefreshEnds
    BY <2>5 DEF TickStarts, RefreshEnds
  <2>6. CASE Shutdown
    <3>1. StopTheRest /\ sse' = sse => NoSseInv'
      BY DEF StopTheRest
    <3>2. CASE Unload \/ Reaped
      <4>1. /\ \/ UNCHANGED session /\ shutdown' # "closing"
               \/ StopTheRest
            /\ sse' = sse
        BY <3>2 DEF Unload, Reaped, Disconnect
      <4> QED
        BY <3>1, <4>1
    <3>3. CASE Disconnected
      BY <3>1, <3>3 DEF Disconnected
    <3>4. CASE DisconnectRaises
      BY <3>4 DEF DisconnectRaises
    <3>5. CASE SseStopped
      BY <3>5 DEF SseStopped
    <3>6. CASE SessionClosed
      BY <3>6 DEF SessionClosed
    <3> QED
      BY <2>6, <3>2, <3>3, <3>4, <3>5, <3>6 DEF Shutdown
  <2>7. CASE UNCHANGED vars
    BY <2>7 DEF vars
  <2> QED
    BY <2>1, <2>2, <2>3, <2>4, <2>5, <2>6, <2>7 DEF Next
<1>3. NoSseInv => NoSseOnClosedSession
  BY DEF NoSseInv
<1>4. QED
  BY <1>1, <1>2, <1>3, PTL DEF Spec

----------------------------------------------------------------------------
(* Induction up to a number, and functions defined by recursion on one,    *)
(* from the order of the naturals being well founded.                      *)

\* A set of numbers that is not empty has a least one.
LEMMA LeastNat ==
  ASSUME NEW T \in SUBSET Nat, T # {}
  PROVE  \E x \in T : \A y \in T : x <= y
<1>1. \E x \in T : \A y \in T : ~ (<<y, x>> \in OpToRel(<, Nat))
  BY NatLessThanWellFounded, WFMin, Zenon
<1>2. ASSUME NEW x \in Nat, NEW y \in Nat, ~ (<<y, x>> \in OpToRel(<, Nat))
      PROVE  x <= y
  <2>1. ~(y < x)
    BY <1>2, Zenon DEF OpToRel
  <2> QED BY <2>1
<1> QED BY <1>1, <1>2

\* Induction from 0 to n, on a set of numbers.
LEMMA UpTo ==
  ASSUME NEW n \in Nat, NEW T, 0 \in T, \A i \in 1..n : i - 1 \in T => i \in T
  PROVE  \A i \in 0..n : i \in T
<1> SUFFICES ASSUME NEW j \in 0..n, j \notin T PROVE FALSE
  OBVIOUS
<1> DEFINE missing == {i \in 0..n : i \notin T}
<1>1. missing \in SUBSET Nat /\ missing # {}
  OBVIOUS
<1>2. PICK x \in missing : \A y \in missing : x <= y
  BY <1>1, LeastNat
<1>3. x # 0 /\ x \in 1..n /\ x - 1 \in 0..n
  BY <1>2
<1>4. x - 1 \in T
  BY <1>2, <1>3
<1> QED BY <1>2, <1>3, <1>4

Recursion(n, S, a, F) ==
  \E g \in [0..n -> S] : g[0] = a /\ \A i \in 1..n : g[i] = F[<<i, g[i - 1]>>]

\* A function on 0..n can be defined from its value at i - 1.
LEMMA PrimitiveRecursion ==
  ASSUME NEW n \in Nat, NEW S, NEW a \in S, NEW F \in [(1..n) \X S -> S]
  PROVE  Recursion(n, S, a, F)
<1> DEFINE Good(g, m) ==
             g \in [0..m -> S] /\ g[0] = a /\ \A i \in 1..m : g[i] = F[<<i, g[i - 1]>>]
           T == {m \in 0..n : \E g : Good(g, m)}
<1>1. 0 \in T
  <2>1. Good([i \in 0..0 |-> a], 0)
    OBVIOUS
  <2> HIDE DEF Good
  <2>2. \E g : Good(g, 0)
    BY <2>1, Zenon
  <2> QED BY <2>2
<1>2. ASSUME NEW m \in 1..n, m - 1 \in T PROVE m \in T
  <2>1. PICK g : Good(g, m - 1)
    BY <1>2
  <2> DEFINE v == F[<<m, g[m - 1]>>]
             h == [i \in 0..m |-> IF i = m THEN v ELSE g[i]]
  <2>2. g[m - 1] \in S /\ v \in S
    BY <2>1
  <2>3. \A i \in 0..(m - 1) : g[i] \in S
    BY <2>1
  <2>4. h \in [0..m -> S]
    BY <2>2, <2>3
  <2>5. h[0] = a
    BY <2>1
  <2>6. ASSUME NEW i \in 1..m PROVE h[i] = F[<<i, h[i - 1]>>]
    <3>1. h[i - 1] = g[i - 1]
      OBVIOUS
    <3>2. CASE i = m
      BY <3>1, <3>2
    <3>3. CASE i # m
      <4>1. i \in 1..(m - 1)
        BY <3>3
      <4>2. h[i] = g[i]
        BY <3>3
      <4> QED BY <2>1, <3>1, <4>1, <4>2
    <3> QED BY <3>2, <3>3
  <2> HIDE DEF h
  <2>7. Good(h, m)
    BY <2>4, <2>5, <2>6
  <2> QED BY <2>7
<1> HIDE DEF T
<1>3. n \in T
  BY <1>1, <1>2, UpTo
<1> QED BY <1>3 DEF T, Recursion

----------------------------------------------------------------------------
(* mqtt_codec.py: what _encode_remaining_length writes, take_packet reads. *)

LEMMA Division ==
  ASSUME NEW n \in Nat
  PROVE  /\ n \div Base \in Nat
         /\ n % Base \in Nat /\ n % Base \in 0..(Base - 1)
         /\ n = (Base * (n \div Base)) + (n % Base)
         /\ n = (n % Base) + (Base * (n \div Base))
         /\ n < Base <=> n \div Base = 0
         /\ n < Base => n % Base = n
BY ScaleAssumption

LEMMA ByteModulo ==
  ASSUME NEW r \in 0..(Base - 1)
  PROVE  r % Base = r /\ (Base + r) % Base = r
BY ScaleAssumption

\* What is left of a length after each shift.
LEMMA ShiftedSteps ==
  ASSUME NEW n \in Nat
  PROVE  /\ Shifted(n) \in [0..MaxDigits -> Nat]
         /\ Shifted(n)[0] = n
         /\ \A i \in 1..MaxDigits : Shifted(n)[i] = Shifted(n)[i - 1] \div Base
<1> DEFINE F == [p \in (1..MaxDigits) \X Nat |-> p[2] \div Base]
<1>1. F \in [(1..MaxDigits) \X Nat -> Nat]
  BY Division
<1>2. PICK g \in [0..MaxDigits -> Nat] :
        g[0] = n /\ \A i \in 1..MaxDigits : g[i] = F[<<i, g[i - 1]>>]
  <2> HIDE DEF F
  <2>1. MaxDigits \in Nat
    BY ScaleAssumption
  <2>2. Recursion(MaxDigits, Nat, n, F)
    BY <1>1, <2>1, PrimitiveRecursion
  <2> QED BY <2>2 DEF Recursion
<1>3. \A i \in 1..MaxDigits : g[i] = g[i - 1] \div Base
  <2> SUFFICES ASSUME NEW i \in 1..MaxDigits PROVE g[i] = g[i - 1] \div Base
    OBVIOUS
  <2>1. i - 1 \in 0..MaxDigits
    BY ScaleAssumption
  <2> QED BY <1>2, <2>1
<1>4. g = [i \in 0..MaxDigits |-> IF i = 0 THEN n ELSE g[i - 1] \div Base]
  BY <1>2, <1>3, ScaleAssumption
<1>5. Shifted(n) = [i \in 0..MaxDigits |->
                      IF i = 0 THEN n ELSE Shifted(n)[i - 1] \div Base]
  BY <1>4 DEF Shifted
<1>6. \A i \in 1..MaxDigits : Shifted(n)[i] = Shifted(n)[i - 1] \div Base
  BY <1>5, ScaleAssumption
<1>7. Shifted(n)[0] = n
  BY <1>5, ScaleAssumption
<1>8. \A i \in 0..MaxDigits : Shifted(n)[i] \in Nat
  <2> DEFINE T == {i \in 0..MaxDigits : Shifted(n)[i] \in Nat}
  <2>1. 0 \in T
    BY <1>7, ScaleAssumption
  <2>2. ASSUME NEW i \in 1..MaxDigits, i - 1 \in T PROVE i \in T
    <3>1. i \in 0..MaxDigits /\ Shifted(n)[i - 1] \in Nat
      BY <2>2, ScaleAssumption
    <3>2. Shifted(n)[i] = Shifted(n)[i - 1] \div Base
      BY <1>6
    <3> QED BY <3>1, <3>2, Division
  <2> HIDE DEF T
  <2>3. \A i \in 0..MaxDigits : i \in T
    BY <2>1, <2>2, UpTo, ScaleAssumption
  <2> QED BY <2>3 DEF T
<1> QED BY <1>5, <1>6, <1>7, <1>8

\* As many digits as the length takes: nothing is left after the last one, and
\* something after each other.
LEMMA DigitsOfLength ==
  ASSUME NEW n \in Nat, Fits(n)
  PROVE  /\ Digits(n) \in 1..MaxDigits
         /\ Shifted(n)[Digits(n)] = 0
         /\ \A d \in 1..(Digits(n) - 1) : Shifted(n)[d] # 0
<1> DEFINE ends == {d \in 1..MaxDigits : Shifted(n)[d] = 0}
<1>1. ends \in SUBSET Nat /\ ends # {}
  BY ScaleAssumption DEF Fits
<1>2. \E d \in ends : \A e \in ends : d <= e
  BY <1>1, LeastNat
<1>3. Digits(n) = CHOOSE d \in ends : \A e \in ends : d <= e
  BY DEF Digits, Min
<1>4. Digits(n) \in ends /\ \A e \in ends : Digits(n) <= e
  <2> HIDE DEF ends
  <2> QED BY <1>2, <1>3
<1>5. /\ Digits(n) \in 1..MaxDigits /\ Shifted(n)[Digits(n)] = 0
      /\ \A d \in 1..MaxDigits : Shifted(n)[d] = 0 => Digits(n) <= d
  BY <1>4
<1>6. ASSUME NEW d \in 1..(Digits(n) - 1) PROVE Shifted(n)[d] # 0
  <2>1. d \in 1..MaxDigits /\ ~(Digits(n) <= d)
    BY <1>5, ScaleAssumption
  <2> QED BY <1>5, <2>1
<1> QED BY <1>5, <1>6

\* The digits: all but the last say that another one follows.
LEMMA EncodedDigits ==
  ASSUME NEW n \in Nat, Fits(n)
  PROVE  /\ EncodeLength(n) \in Seq(Byte)
         /\ Len(EncodeLength(n)) = Digits(n)
         /\ \A i \in 1..Digits(n) :
              /\ EncodeLength(n)[i] % Base = Shifted(n)[i - 1] % Base
              /\ EncodeLength(n)[i] < Base <=> i = Digits(n)
<1> DEFINE code == EncodeLength(n)
<1>1. Digits(n) \in Nat /\ Digits(n) \in 1..MaxDigits
  BY DigitsOfLength
<1>2. ASSUME NEW i \in 1..Digits(n)
      PROVE  /\ code[i] \in Byte
             /\ code[i] % Base = Shifted(n)[i - 1] % Base
             /\ code[i] < Base <=> i = Digits(n)
  <2> DEFINE left == Shifted(n)[i - 1]
  <2>1. i \in 1..MaxDigits /\ i - 1 \in 0..MaxDigits
    BY <1>1, ScaleAssumption
  <2>2. left \in Nat /\ Shifted(n)[i] = left \div Base
    BY <2>1, ShiftedSteps
  <2>3. left < Base <=> i = Digits(n)
    <3>1. left < Base <=> Shifted(n)[i] = 0
      BY <2>2, Division
    <3>2. i # Digits(n) => i \in 1..(Digits(n) - 1)
      BY <1>1
    <3> QED BY <3>1, <3>2, DigitsOfLength
  <2>4. code[i] = IF left < Base THEN left ELSE Continued(left)
    BY DEF EncodeLength
  <2> HIDE DEF code, left
  <2>5. CASE left < Base
    <3>1. code[i] = left
      BY <2>4, <2>5
    <3>2. code[i] \in Byte
      BY <2>2, <2>5, <3>1, ScaleAssumption DEF Byte
    <3> QED BY <2>3, <2>5, <3>1, <3>2 DEF left
  <2>6. CASE ~(left < Base)
    <3>1. code[i] = Base + (left % Base) /\ left % Base \in 0..(Base - 1)
      BY <2>2, <2>4, <2>6, Division DEF Continued
    <3>2. code[i] % Base = left % Base
      BY <3>1, ByteModulo
    <3>3. code[i] \in Byte /\ ~(code[i] < Base)
      BY <3>1, ScaleAssumption DEF Byte
    <3> QED BY <2>3, <2>6, <3>2, <3>3 DEF left
  <2> QED BY <2>5, <2>6
<1>3. code \in [1..Digits(n) -> Byte]
  BY <1>2 DEF EncodeLength
<1>4. code \in Seq(Byte) /\ Len(code) = Digits(n)
  <2> HIDE DEF code
  <2> QED BY <1>1, <1>3
<1> QED BY <1>2, <1>4

\* What a varint says, digit by digit from its last.
LEMMA DecodeSteps ==
  ASSUME NEW b \in Seq(Byte), NEW last \in 2..Len(b)
  PROVE  \E value \in [0..(last - 1) -> Nat] :
           /\ value[0] = 0
           /\ \A i \in 1..(last - 1) :
                value[i] = (b[last - i + 1] % Base) + (Base * value[i - 1])
           /\ DecodeLength(b, last) = value[last - 1]
<1> DEFINE m == last - 1
           F == [p \in (1..m) \X Nat |-> (b[last - p[1] + 1] % Base) + (Base * p[2])]
<1>1. m \in Nat
  OBVIOUS
<1>2. \A i \in 1..m : b[last - i + 1] \in Nat /\ b[last - i + 1] % Base \in Nat
  <2> SUFFICES ASSUME NEW i \in 1..m
               PROVE  b[last - i + 1] \in Nat /\ b[last - i + 1] % Base \in Nat
    OBVIOUS
  <2>1. last - i + 1 \in 1..Len(b)
    OBVIOUS
  <2>2. b[last - i + 1] \in Byte
    BY <2>1
  <2> HIDE DEF m
  <2>3. b[last - i + 1] \in Nat
    BY <2>2, ScaleAssumption DEF Byte
  <2> QED BY <2>3, Division
<1>3. \A x \in Nat : Base * x \in Nat
  BY ScaleAssumption
<1>4. F \in [(1..m) \X Nat -> Nat]
  <2> SUFFICES ASSUME NEW i \in 1..m, NEW x \in Nat
               PROVE  (b[last - i + 1] % Base) + (Base * x) \in Nat
    OBVIOUS
  <2> HIDE DEF m
  <2>1. b[last - i + 1] % Base \in Nat /\ Base * x \in Nat
    BY <1>2, <1>3
  <2>2. \A u, w \in Nat : u + w \in Nat
    OBVIOUS
  <2> QED BY <2>1, <2>2
<1>5. PICK g \in [0..m -> Nat] :
        g[0] = 0 /\ \A i \in 1..m : g[i] = F[<<i, g[i - 1]>>]
  <2> HIDE DEF F, m
  <2>1. 0 \in Nat
    OBVIOUS
  <2>2. Recursion(m, Nat, 0, F)
    BY <1>1, <1>4, <2>1, PrimitiveRecursion
  <2> QED BY <2>2 DEF Recursion
<1>6. \A i \in 1..m : g[i] = (b[last - i + 1] % Base) + (Base * g[i - 1])
  <2> SUFFICES ASSUME NEW i \in 1..m
               PROVE  g[i] = (b[last - i + 1] % Base) + (Base * g[i - 1])
    OBVIOUS
  <2>1. i - 1 \in 0..m
    OBVIOUS
  <2> QED BY <1>5, <2>1
<1> DEFINE V(f) == [i \in 0..m |-> IF i = 0 THEN 0
                      ELSE (b[last - i + 1] % Base) + (Base * f[i - 1])]
<1>7. g = V(g)
  BY <1>5, <1>6
<1> DEFINE value == CHOOSE f : f = V(f)
<1>8. value = V(value)
  <2> HIDE DEF V
  <2> QED BY <1>7
<1>9. DecodeLength(b, last) = value[m]
  BY DEF DecodeLength
<1>10. value[0] = 0 /\ \A i \in 1..m : value[i] = (b[last - i + 1] % Base) + (Base * value[i - 1])
  <2> HIDE DEF value
  <2> QED BY <1>8, <1>1
<1> HIDE DEF value
<1>11. \A i \in 0..m : value[i] \in Nat
  <2> DEFINE T == {i \in 0..m : value[i] \in Nat}
  <2>1. 0 \in T
    BY <1>10, <1>1
  <2>2. ASSUME NEW i \in 1..m, i - 1 \in T PROVE i \in T
    <3>1. i \in 0..m /\ value[i - 1] \in Nat
      BY <2>2
    <3>2. value[i] = (b[last - i + 1] % Base) + (Base * value[i - 1])
      BY <1>10
    <3>3. b[last - i + 1] % Base \in Nat /\ Base * value[i - 1] \in Nat
      BY <1>2, <1>3, <3>1
    <3>4. value[i] \in Nat
      BY <3>2, <3>3
    <3> QED BY <3>1, <3>4
  <2> HIDE DEF T
  <2>3. \A i \in 0..m : i \in T
    BY <1>1, <2>1, <2>2, UpTo
  <2> QED BY <2>3 DEF T
<1>12. value \in [0..m -> Nat]
  BY <1>8, <1>11
<1> QED BY <1>9, <1>10, <1>12

\* A concatenation, position by position.
LEMMA Joined ==
  ASSUME NEW S, NEW s \in Seq(S), NEW t \in Seq(S)
  PROVE  /\ s \o t \in Seq(S)
         /\ Len(s \o t) = Len(s) + Len(t)
         /\ \A i \in 1..Len(s) : (s \o t)[i] = s[i]
         /\ \A i \in 1..Len(t) : (s \o t)[Len(s) + i] = t[i]
OBVIOUS

LEMMA DecodedIsNat ==
  ASSUME NEW b \in Seq(Byte), NEW last \in 2..Len(b)
  PROVE  DecodeLength(b, last) \in Nat
<1>1. PICK value \in [0..(last - 1) -> Nat] : DecodeLength(b, last) = value[last - 1]
  BY DecodeSteps
<1>2. last - 1 \in 0..(last - 1)
  OBVIOUS
<1> QED BY <1>1, <1>2

\* The header ends where the first varint digit without a continuation bit is.
LEMMA HeaderEnds ==
  ASSUME NEW b \in Seq(Byte), VarintEnds(b) # {}
  PROVE  /\ LastOfHeader(b) \in VarintEnds(b)
         /\ LastOfHeader(b) \in 2..Len(b)
         /\ \A e \in VarintEnds(b) : LastOfHeader(b) <= e
<1> DEFINE ends == VarintEnds(b)
<1>1. ends \in SUBSET Nat /\ ends # {} /\ ends \subseteq 2..Len(b)
  BY DEF VarintEnds
<1> HIDE DEF ends
<1>2. \E d \in ends : \A e \in ends : d <= e
  BY <1>1, LeastNat
<1>3. LastOfHeader(b) = CHOOSE d \in ends : \A e \in ends : d <= e
  BY DEF LastOfHeader, Min, ends
<1>4. LastOfHeader(b) \in ends /\ \A e \in ends : LastOfHeader(b) <= e
  BY <1>2, <1>3
<1> QED BY <1>1, <1>4 DEF ends

\* take_packet never reaches beyond the buffer.
LEMMA PacketEndInBuffer ==
  ASSUME NEW b \in Seq(Byte)
  PROVE  PacketEnd(b) \in 0..Len(b)
<1>1. CASE VarintEnds(b) = {}
  BY <1>1 DEF PacketEnd
<1>2. CASE VarintEnds(b) # {}
  <2>1. LastOfHeader(b) \in 2..Len(b)
    BY <1>2, HeaderEnds
  <2>2. DecodeLength(b, LastOfHeader(b)) \in Nat
    BY <2>1, DecodedIsNat
  <2>3. PacketEnd(b) = IF LastOfHeader(b) + DecodeLength(b, LastOfHeader(b)) > Len(b)
                       THEN 0 ELSE LastOfHeader(b) + DecodeLength(b, LastOfHeader(b))
    BY <1>2 DEF PacketEnd
  <2> QED BY <2>1, <2>2, <2>3
<1> QED BY <1>1, <1>2

\* take_packet reads the length that _encode_remaining_length wrote, and knows
\* where its digits end; it waits when one of them is not there yet.
LEMMA DecodesWhatWasEncoded ==
  ASSUME NEW n \in Nat, Fits(n), NEW b \in Seq(Byte),
         \A i \in 1..Digits(n) : i + 1 <= Len(b) => b[i + 1] = EncodeLength(n)[i]
  PROVE  /\ Len(b) < Digits(n) + 1 => VarintEnds(b) = {}
         /\ Digits(n) + 1 <= Len(b) =>
              /\ VarintEnds(b) # {}
              /\ LastOfHeader(b) = Digits(n) + 1
              /\ DecodeLength(b, Digits(n) + 1) = n
<1> DEFINE D == Digits(n)
<1>1. D \in Nat /\ D \in 1..MaxDigits /\ MaxDigits \in Nat
  BY DigitsOfLength, ScaleAssumption
<1>2. ASSUME NEW i \in 1..D, i + 1 <= Len(b)
      PROVE  b[i + 1] = EncodeLength(n)[i] /\ (b[i + 1] < Base <=> i = D)
  BY <1>2, EncodedDigits
<1> HIDE DEF D
<1>3. ASSUME NEW e \in VarintEnds(b) PROVE D + 1 <= e
  <2> SUFFICES ASSUME ~(D + 1 <= e) PROVE FALSE
    OBVIOUS
  <2>1. e \in 2..Len(b) /\ (b[e] < Base \/ e = MaxDigits + 1)
    BY <1>3 DEF VarintEnds
  <2>2. e - 1 \in 1..D /\ (e - 1) + 1 = e /\ e - 1 # D /\ e # MaxDigits + 1
    BY <1>1, <2>1
  <2>3. ~(b[e] < Base)
    BY <1>2, <2>1, <2>2
  <2> QED BY <2>1, <2>2, <2>3
<1>4. Len(b) < D + 1 => VarintEnds(b) = {}
  <2> SUFFICES ASSUME Len(b) < D + 1, NEW e \in VarintEnds(b) PROVE FALSE
    OBVIOUS
  <2>1. e \in 2..Len(b)
    BY DEF VarintEnds
  <2> QED BY <1>1, <1>3, <2>1
<1>5. ASSUME D + 1 <= Len(b)
      PROVE  /\ VarintEnds(b) # {}
             /\ LastOfHeader(b) = D + 1
             /\ DecodeLength(b, D + 1) = n
  <2>1. D + 1 \in VarintEnds(b)
    <3>1. D \in 1..D
      BY <1>1
    <3>2. b[D + 1] < Base
      BY <1>2, <1>5, <3>1
    <3> QED BY <1>1, <1>5, <3>2 DEF VarintEnds
  <2>2. LastOfHeader(b) = D + 1
    <3>1. LastOfHeader(b) \in Nat /\ D + 1 <= LastOfHeader(b) /\ LastOfHeader(b) <= D + 1
      BY <1>3, <2>1, HeaderEnds
    <3> QED BY <1>1, <3>1
  <2>3. D + 1 \in 2..Len(b) /\ (D + 1) - 1 = D
    BY <1>1, <1>5
  <2>4. PICK value \in [0..D -> Nat] :
          /\ value[0] = 0
          /\ \A i \in 1..D :
               value[i] = (b[(D + 1) - i + 1] % Base) + (Base * value[i - 1])
          /\ DecodeLength(b, D + 1) = value[D]
    <3>1. \E value \in [0..((D + 1) - 1) -> Nat] :
             /\ value[0] = 0
             /\ \A i \in 1..((D + 1) - 1) :
                  value[i] = (b[(D + 1) - i + 1] % Base) + (Base * value[i - 1])
             /\ DecodeLength(b, D + 1) = value[(D + 1) - 1]
      BY <2>3, DecodeSteps
    <3> QED BY <2>3, <3>1
  <2> DEFINE T == {i \in 0..D : value[i] = Shifted(n)[D - i]}
  <2>5. 0 \in T
    <3>1. D - 0 = D /\ Shifted(n)[D] = 0
      BY <1>1, DigitsOfLength DEF D
    <3> QED BY <1>1, <2>4, <3>1
  <2>6. ASSUME NEW i \in 1..D, i - 1 \in T PROVE i \in T
    <3> DEFINE left == Shifted(n)[D - i]
               digit == b[(D + 1) - i + 1]
    <3>1. /\ i \in Nat /\ i \in 0..D
          /\ D - (i - 1) = (D - i) + 1 /\ ((D - i) + 1) - 1 = D - i
          /\ (D + 1) - i + 1 = ((D - i) + 1) + 1
          /\ (D - i) + 1 \in 1..D /\ (D - i) + 1 \in 1..MaxDigits
          /\ D - i \in 0..MaxDigits
          /\ ((D - i) + 1) + 1 <= Len(b)
      BY <1>1, <1>5
    <3>2. left \in Nat /\ Shifted(n)[(D - i) + 1] = left \div Base
      <4>1. PICK j \in 1..MaxDigits : j = (D - i) + 1 /\ j - 1 = D - i
        BY <3>1
      <4>2. Shifted(n)[j] = Shifted(n)[j - 1] \div Base
        BY ShiftedSteps
      <4>3. left \in Nat
        BY <3>1, ShiftedSteps
      <4> QED BY <4>1, <4>2, <4>3
    <3>3. value[i - 1] = left \div Base
      BY <2>6, <3>1, <3>2
    <3>4. digit = EncodeLength(n)[(D - i) + 1]
      BY <1>2, <3>1
    <3>5. EncodeLength(n)[(D - i) + 1] % Base = left % Base
      BY <3>1, EncodedDigits DEF D
    <3>6. value[i] = (left % Base) + (Base * (left \div Base))
      BY <2>4, <3>3, <3>4, <3>5
    <3> HIDE DEF left
    <3>7. value[i] = left
      BY <3>2, <3>6, Division
    <3> QED BY <3>1, <3>7 DEF left
  <2> HIDE DEF T
  <2>7. \A i \in 0..D : i \in T
    BY <1>1, <2>5, <2>6, UpTo
  <2>8. value[D] = Shifted(n)[D - D]
    BY <1>1, <2>7 DEF T
  <2>9. value[D] = n
    BY <1>1, <2>8, ShiftedSteps
  <2> QED BY <2>1, <2>2, <2>4, <2>9
<1> QED BY <1>4, <1>5 DEF D

\* A packet at the front of the buffer, or the part of it that is there, is
\* taken exactly when all of it is there.
THEOREM TakesThePacket ==
  ASSUME NEW type \in Byte, NEW body \in Seq(Byte), Fits(Len(body)),
         NEW b \in Seq(Byte),
         \A i \in 1..Len(Packet(type, body)) : i <= Len(b) => b[i] = Packet(type, body)[i]
  PROVE  /\ Packet(type, body) \in Seq(Byte)
         /\ Len(Packet(type, body)) \in Nat /\ Len(Packet(type, body)) >= 2
         /\ Packet(type, body)[1] = type
         /\ PacketEnd(b) = IF Len(Packet(type, body)) <= Len(b)
                           THEN Len(Packet(type, body)) ELSE 0
<1> DEFINE n == Len(body)
           D == Digits(n)
           code == EncodeLength(n)
           x == Packet(type, body)
<1>1. n \in Nat /\ D \in Nat /\ D \in 1..MaxDigits /\ code \in Seq(Byte) /\ Len(code) = D
  <2>1. n \in Nat
    OBVIOUS
  <2> QED BY <2>1, DigitsOfLength, EncodedDigits
<1>2. x = (<<type>> \o code) \o body
  BY DEF Packet
<1> HIDE DEF n, D, code
<1>3. /\ x \in Seq(Byte) /\ Len(x) = D + 1 + n /\ x[1] = type
      /\ \A i \in 1..D : x[i + 1] = code[i]
  <2> DEFINE h == <<type>> \o code
  <2>1. <<type>> \in Seq(Byte) /\ Len(<<type>>) = 1
    OBVIOUS
  <2>2. h \in Seq(Byte) /\ Len(h) = D + 1 /\ h[1] = type /\ \A i \in 1..D : h[i + 1] = code[i]
    BY <1>1, <2>1
  <2>3. x = h \o body
    BY <1>2
  <2> HIDE DEF h, x
  <2>4. x \in Seq(Byte) /\ Len(x) = D + 1 + n /\ \A i \in 1..(D + 1) : x[i] = h[i]
    <3>1. h \in Seq(Byte) /\ body \in Seq(Byte) /\ Len(h) = D + 1 /\ Len(body) = n
      BY <2>2 DEF n
    <3>2. /\ x \in Seq(Byte)
          /\ Len(x) = Len(h) + Len(body)
          /\ \A i \in 1..Len(h) : x[i] = h[i]
      BY <2>3, <3>1, Joined, Zenon
    <3> QED BY <3>1, <3>2
  <2> QED BY <1>1, <2>2, <2>4
<1>4. \A i \in 1..D : i + 1 <= Len(b) => b[i + 1] = code[i]
  <2> SUFFICES ASSUME NEW i \in 1..D, i + 1 <= Len(b) PROVE b[i + 1] = code[i]
    OBVIOUS
  <2>1. i + 1 \in 1..Len(x)
    BY <1>1, <1>3
  <2>2. b[i + 1] = x[i + 1]
    BY <2>1
  <2> QED BY <1>3, <2>2
<1>5. /\ Len(b) < D + 1 => VarintEnds(b) = {}
      /\ D + 1 <= Len(b) => /\ VarintEnds(b) # {}
                            /\ LastOfHeader(b) = D + 1
                            /\ DecodeLength(b, D + 1) = n
  BY <1>1, <1>4, DecodesWhatWasEncoded DEF n, D, code
<1> HIDE DEF x
<1>6. PacketEnd(b) = IF Len(x) <= Len(b) THEN Len(x) ELSE 0
  <2>1. CASE Len(b) < D + 1
    BY <1>1, <1>3, <1>5, <2>1 DEF PacketEnd
  <2>2. CASE D + 1 <= Len(b)
    <3>1. PacketEnd(b) = IF (D + 1) + n > Len(b) THEN 0 ELSE (D + 1) + n
      BY <1>5, <2>2 DEF PacketEnd
    <3> QED BY <1>1, <1>3, <3>1
  <2> QED BY <1>1, <2>1, <2>2
<1> QED BY <1>1, <1>3, <1>6 DEF x

----------------------------------------------------------------------------
(* Packets laid end to end.                                                *)

LEMMA BytesAssociate ==
  ASSUME NEW a \in Seq(Byte), NEW b \in Seq(Byte), NEW c \in Seq(Byte)
  PROVE  (a \o b) \o c = a \o (b \o c)
BY ConcatAssociative

LEMMA BytesCancel ==
  ASSUME NEW a \in Seq(Byte), NEW b \in Seq(Byte), NEW c \in Seq(Byte), a \o b = a \o c
  PROVE  b = c
<1>1. Len(b) = Len(c)
  <2>1. Len(a \o b) = Len(a) + Len(b) /\ Len(a \o c) = Len(a) + Len(c)
    BY Joined
  <2> QED BY <2>1
<1>2. ASSUME NEW i \in 1..Len(b) PROVE b[i] = c[i]
  <2>1. (a \o b)[Len(a) + i] = b[i]
    BY Joined
  <2>2. (a \o c)[Len(a) + i] = c[i]
    BY <1>1, Joined
  <2> QED BY <2>1, <2>2
<1> QED BY <1>1, <1>2, SeqEqual

\* What receive() returned and what it will return make up what was on the wire.
LEMMA CutInTwo ==
  ASSUME NEW b \in Seq(Byte), NEW n \in 0..Len(b)
  PROVE  /\ SubSeq(b, 1, n) \in Seq(Byte)
         /\ SubSeq(b, n + 1, Len(b)) \in Seq(Byte)
         /\ Len(SubSeq(b, n + 1, Len(b))) = Len(b) - n
         /\ b = SubSeq(b, 1, n) \o SubSeq(b, n + 1, Len(b))
<1>1. /\ SubSeq(b, 1, n) \in Seq(Byte) /\ Len(SubSeq(b, 1, n)) = n
      /\ \A i \in 1..n : SubSeq(b, 1, n)[i] = b[i]
  OBVIOUS
<1>2. /\ SubSeq(b, n + 1, Len(b)) \in Seq(Byte)
      /\ Len(SubSeq(b, n + 1, Len(b))) = Len(b) - n
      /\ \A i \in 1..(Len(b) - n) : SubSeq(b, n + 1, Len(b))[i] = b[n + i]
  OBVIOUS
<1>3. b = SubSeq(b, 1, n) \o SubSeq(b, n + 1, Len(b))
  <2>1. 1 \in 1..(Len(b) + 1) /\ n \in (1 - 1)..Len(b) /\ Len(b) \in n..Len(b)
    OBVIOUS
  <2>2. SubSeq(b, 1, n) \o SubSeq(b, n + 1, Len(b)) = SubSeq(b, 1, Len(b))
    BY <2>1, ConcatAdjacentSubSeq
  <2> QED BY <2>2, SubSeqFull
<1> QED BY <1>1, <1>2, <1>3

LEMMA AppendedBytes ==
  ASSUME NEW s \in Seq(Seq(Byte)), NEW x \in Seq(Byte)
  PROVE  /\ Append(s, x) \in Seq(Seq(Byte))
         /\ Len(Append(s, x)) = Len(s) + 1
         /\ Append(s, x)[Len(s) + 1] = x
         /\ \A i \in 1..Len(s) : Append(s, x)[i] = s[i]
OBVIOUS

LEMMA AppendJoined ==
  ASSUME NEW s \in Seq(Seq(Byte)), NEW t \in Seq(Seq(Byte)), NEW x \in Seq(Byte)
  PROVE  Append(s \o t, x) = s \o Append(t, x)
<1> DEFINE left == Append(s \o t, x)
           right == s \o Append(t, x)
<1>1. /\ s \o t \in Seq(Seq(Byte)) /\ Len(s \o t) = Len(s) + Len(t)
      /\ \A i \in 1..Len(s) : (s \o t)[i] = s[i]
      /\ \A i \in 1..Len(t) : (s \o t)[Len(s) + i] = t[i]
  BY Joined
<1>2. /\ Append(t, x) \in Seq(Seq(Byte)) /\ Len(Append(t, x)) = Len(t) + 1
      /\ Append(t, x)[Len(t) + 1] = x
      /\ \A i \in 1..Len(t) : Append(t, x)[i] = t[i]
  BY AppendedBytes
<1>3. /\ left \in Seq(Seq(Byte)) /\ Len(left) = Len(s \o t) + 1
      /\ left[Len(s \o t) + 1] = x
      /\ \A i \in 1..Len(s \o t) : left[i] = (s \o t)[i]
  BY <1>1, AppendedBytes
<1>4. /\ right \in Seq(Seq(Byte)) /\ Len(right) = Len(s) + Len(Append(t, x))
      /\ \A i \in 1..Len(s) : right[i] = s[i]
      /\ \A i \in 1..Len(Append(t, x)) : right[Len(s) + i] = Append(t, x)[i]
  BY <1>2, Joined
<1> HIDE DEF left, right
<1>5. Len(left) = Len(right) /\ Len(left) = Len(s) + (Len(t) + 1)
  BY <1>1, <1>2, <1>3, <1>4
<1>6. ASSUME NEW i \in 1..Len(left) PROVE left[i] = right[i]
  <2>1. CASE i <= Len(s)
    <3>1. i \in 1..Len(s) /\ i \in 1..Len(s \o t)
      BY <1>1, <2>1
    <3> QED BY <1>1, <1>3, <1>4, <3>1
  <2>2. CASE i > Len(s)
    <3>1. PICK j \in 1..(Len(t) + 1) : i = Len(s) + j
      <4>1. i - Len(s) \in 1..(Len(t) + 1) /\ i = Len(s) + (i - Len(s))
        BY <1>5, <2>2
      <4> QED BY <4>1
    <3>2. right[i] = Append(t, x)[j]
      BY <1>2, <1>4, <3>1
    <3>3. CASE j = Len(t) + 1
      BY <1>1, <1>2, <1>3, <3>1, <3>2, <3>3
    <3>4. CASE j # Len(t) + 1
      <4>1. j \in 1..Len(t) /\ i \in 1..Len(s \o t)
        BY <1>1, <3>1, <3>4
      <4> QED BY <1>1, <1>2, <1>3, <3>1, <3>2, <4>1
    <3> QED BY <3>3, <3>4
  <2> QED BY <2>1, <2>2
<1>7. left = right
  BY <1>3, <1>4, <1>5, <1>6, SeqEqual
<1> QED BY <1>7 DEF left, right

\* A packet goes from the front of the batch to the end of those taken.
LEMMA HandedOver ==
  ASSUME NEW s \in Seq(Seq(Byte)), NEW t \in Seq(Seq(Byte)), t # <<>>
  PROVE  Append(s, Head(t)) \o Tail(t) = s \o t
<1> DEFINE x == Head(t)
           u == Tail(t)
           sx == Append(s, x)
           left == sx \o u
           right == s \o t
<1>1. /\ x \in Seq(Byte) /\ u \in Seq(Seq(Byte)) /\ Len(u) = Len(t) - 1
      /\ x = t[1] /\ \A i \in 1..Len(u) : u[i] = t[i + 1]
      /\ Len(t) \in Nat \ {0}
  BY HeadTailProperties
<1> HIDE DEF x, u
<1>2. /\ sx \in Seq(Seq(Byte)) /\ Len(sx) = Len(s) + 1
      /\ sx[Len(s) + 1] = x
      /\ \A i \in 1..Len(s) : sx[i] = s[i]
  BY <1>1, AppendedBytes
<1> HIDE DEF sx
<1>3. /\ left \in Seq(Seq(Byte)) /\ Len(left) = Len(sx) + Len(u)
      /\ \A i \in 1..Len(sx) : left[i] = sx[i]
      /\ \A i \in 1..Len(u) : left[Len(sx) + i] = u[i]
  <2>1. sx \in Seq(Seq(Byte)) /\ u \in Seq(Seq(Byte))
    BY <1>1, <1>2
  <2> QED BY <2>1, Joined
<1>4. /\ right \in Seq(Seq(Byte)) /\ Len(right) = Len(s) + Len(t)
      /\ \A i \in 1..Len(s) : right[i] = s[i]
      /\ \A i \in 1..Len(t) : right[Len(s) + i] = t[i]
  BY Joined
<1> HIDE DEF left, right
<1>5. Len(left) = Len(right) /\ Len(left) = Len(s) + Len(t)
  BY <1>1, <1>2, <1>3, <1>4
<1>6. ASSUME NEW i \in 1..Len(left) PROVE left[i] = right[i]
  <2>1. CASE i <= Len(s)
    <3>1. i \in 1..Len(s) /\ i \in 1..Len(sx)
      BY <1>2, <2>1
    <3> QED BY <1>2, <1>3, <1>4, <3>1
  <2>2. CASE i = Len(s) + 1
    <3>1. i \in 1..Len(sx) /\ 1 \in 1..Len(t)
      BY <1>1, <1>2, <2>2
    <3> QED BY <1>1, <1>2, <1>3, <1>4, <2>2, <3>1
  <2>3. CASE i > Len(s) + 1
    <3>1. PICK j \in 1..Len(u) : i = (Len(s) + 1) + j /\ i = Len(s) + (j + 1)
      <4>1. /\ i - (Len(s) + 1) \in 1..Len(u)
            /\ i = (Len(s) + 1) + (i - (Len(s) + 1))
            /\ i = Len(s) + ((i - (Len(s) + 1)) + 1)
        BY <1>1, <1>5, <2>3
      <4> QED BY <4>1
    <3>2. j + 1 \in 1..Len(t)
      BY <1>1, <3>1
    <3>3. left[i] = u[j] /\ right[i] = t[j + 1]
      BY <1>2, <1>3, <1>4, <3>1, <3>2
    <3> QED BY <1>1, <3>3
  <2> QED BY <2>1, <2>2, <2>3
<1>7. left = right
  BY <1>3, <1>4, <1>5, <1>6, SeqEqual
<1> QED BY <1>7 DEF left, right, sx, x, u

\* FlattenSeq is the last of its partial concatenations, which start from none.
Laid(f, s) ==
  /\ f \in [0..Len(s) -> Seq(Byte)]
  /\ f[0] = <<>>
  /\ \A i \in 1..Len(s) : f[i] = f[i - 1] \o s[i]

\* FlattenSeq, unrolled.
LEMMA FlattenSteps ==
  ASSUME NEW s \in Seq(Seq(Byte))
  PROVE  \E f : Laid(f, s) /\ FlattenSeq(s) = f[Len(s)]
<1> DEFINE n == Len(s)
<1>1. n \in Nat /\ \A i \in 1..n : s[i] \in Seq(Byte)
  OBVIOUS
<1>2. \A x, y \in Seq(Byte) : x \o y \in Seq(Byte)
  OBVIOUS
<1> HIDE DEF n
<1>3. CASE n = 0
  <2> DEFINE f == [i \in 0..n |-> <<>>]
  <2>1. FlattenSeq(s) = <<>>
    BY <1>3 DEF FlattenSeq, n
  <2>2. f \in [0..n -> Seq(Byte)] /\ f[0] = <<>> /\ f[n] = <<>>
    BY <1>3
  <2> HIDE DEF f
  <2>3. Laid(f, s)
    BY <1>3, <2>2 DEF Laid, n
  <2>4. FlattenSeq(s) = f[Len(s)]
    BY <2>1, <2>2 DEF n
  <2> QED BY <2>3, <2>4, Zenon
<1>4. CASE n # 0
  <2> DEFINE F == [p \in (1..n) \X Seq(Byte) |-> p[2] \o s[p[1]]]
             V(h) == [i \in 1..n |-> IF i = 1 THEN s[i] ELSE h[i - 1] \o s[i]]
  <2>1. F \in [(1..n) \X Seq(Byte) -> Seq(Byte)]
    BY <1>1, <1>2
  <2>2. Recursion(n, Seq(Byte), <<>>, F)
    <3> HIDE DEF F
    <3>1. <<>> \in Seq(Byte)
      OBVIOUS
    <3> QED BY <1>1, <2>1, <3>1, PrimitiveRecursion
  <2>3. PICK g \in [0..n -> Seq(Byte)] :
          g[0] = <<>> /\ \A i \in 1..n : g[i] = F[<<i, g[i - 1]>>]
    BY <2>2 DEF Recursion
  <2>4. ASSUME NEW i \in 1..n PROVE g[i] = g[i - 1] \o s[i]
    <3>1. i - 1 \in 0..n
      BY <1>1
    <3> QED BY <2>3, <3>1
  <2>5. g[1] = s[1]
    <3>1. 1 \in 1..n /\ 1 - 1 = 0
      BY <1>1, <1>4
    <3>2. g[1] = g[0] \o s[1]
      BY <2>4, <3>1
    <3> QED BY <1>1, <2>3, <3>1, <3>2
  <2> DEFINE v == [i \in 1..n |-> g[i]]
  <2>6. v = V(v)
    <3> SUFFICES ASSUME NEW i \in 1..n
                 PROVE  v[i] = IF i = 1 THEN s[i] ELSE v[i - 1] \o s[i]
      OBVIOUS
    <3>1. i # 1 => i - 1 \in 1..n
      BY <1>1
    <3> QED BY <2>4, <2>5, <3>1
  <2> DEFINE whole == CHOOSE h : h = V(h)
  <2>7. whole = V(whole)
    <3> HIDE DEF V, v
    <3> QED BY <2>6
  <2>8. FlattenSeq(s) = whole[n]
    BY <1>4 DEF FlattenSeq, n
  <2> HIDE DEF whole
  <2> DEFINE f == [i \in 0..n |-> IF i = 0 THEN <<>> ELSE whole[i]]
  <2>9. ASSUME NEW i \in 1..n PROVE whole[i] = f[i - 1] \o s[i]
    <3>1. CASE i = 1
      BY <1>1, <2>7, <3>1
    <3>2. CASE i # 1
      <4>1. i - 1 \in 0..n /\ i - 1 # 0
        BY <1>1, <3>2
      <4> QED BY <2>7, <3>2, <4>1
    <3> QED BY <3>1, <3>2
  <2>10. f[0] = <<>> /\ f[n] = whole[n] /\ \A i \in 1..n : f[i] = f[i - 1] \o s[i]
    <3>1. 0 \in 0..n /\ n \in 0..n /\ \A i \in 1..n : i \in 0..n /\ i # 0
      BY <1>1
    <3>2. f[0] = <<>>
      BY <3>1
    <3>3. f[n] = whole[n]
      BY <1>4, <3>1
    <3>4. ASSUME NEW i \in 1..n PROVE f[i] = f[i - 1] \o s[i]
      <4>1. f[i] = whole[i]
        BY <3>1
      <4> HIDE DEF f
      <4> QED BY <2>9, <4>1
    <3> HIDE DEF f
    <3> QED BY <3>2, <3>3, <3>4
  <2>11. f = [i \in 0..n |-> f[i]]
    OBVIOUS
  <2> HIDE DEF f, V
  <2>12. \A i \in 0..n : f[i] \in Seq(Byte)
    <3> DEFINE T == {i \in 0..n : f[i] \in Seq(Byte)}
    <3>1. 0 \in T
      <4>1. 0 \in 0..n /\ <<>> \in Seq(Byte)
        BY <1>1
      <4> QED BY <2>10, <4>1
    <3>2. ASSUME NEW i \in 1..n, i - 1 \in T PROVE i \in T
      <4>1. i \in 0..n /\ f[i - 1] \in Seq(Byte) /\ s[i] \in Seq(Byte)
        BY <1>1, <3>2
      <4>2. f[i] \in Seq(Byte)
        BY <1>2, <2>10, <4>1
      <4> QED BY <4>1, <4>2
    <3> HIDE DEF T
    <3>3. \A i \in 0..n : i \in T
      BY <1>1, <3>1, <3>2, UpTo
    <3> QED BY <3>3 DEF T
  <2>13. f \in [0..n -> Seq(Byte)]
    BY <2>11, <2>12
  <2>14. Laid(f, s)
    BY <2>10, <2>13 DEF Laid, n
  <2>15. FlattenSeq(s) = f[Len(s)]
    BY <2>8, <2>10 DEF n
  <2> QED BY <2>14, <2>15, Zenon
<1> QED BY <1>3, <1>4

\* The partial concatenations of a prefix are those of the whole.
LEMMA LaidAlike ==
  ASSUME NEW s \in Seq(Seq(Byte)), NEW t \in Seq(Seq(Byte)), NEW f, NEW g,
         Laid(f, s), Laid(g, t), Len(s) <= Len(t), \A i \in 1..Len(s) : s[i] = t[i]
  PROVE  f[Len(s)] = g[Len(s)]
<1> DEFINE n == Len(s)
           T == {i \in 0..n : f[i] = g[i]}
<1>1. n \in Nat /\ n <= Len(t) /\ Len(t) \in Nat
  OBVIOUS
<1> HIDE DEF n
<1>2. 0 \in T
  BY <1>1 DEF Laid
<1>3. ASSUME NEW i \in 1..n, i - 1 \in T PROVE i \in T
  <2>1. i \in 0..n /\ i \in 1..Len(t) /\ f[i - 1] = g[i - 1]
    BY <1>1, <1>3
  <2>2. f[i] = f[i - 1] \o s[i] /\ g[i] = g[i - 1] \o t[i] /\ s[i] = t[i]
    BY <2>1 DEF Laid, n
  <2> QED BY <2>1, <2>2
<1> HIDE DEF T
<1>4. \A i \in 0..n : i \in T
  BY <1>1, <1>2, <1>3, UpTo
<1> QED BY <1>1, <1>4 DEF n, T

LEMMA FlattenType ==
  ASSUME NEW s \in Seq(Seq(Byte))
  PROVE  FlattenSeq(s) \in Seq(Byte)
<1>1. Len(s) \in 0..Len(s)
  OBVIOUS
<1> QED BY <1>1, FlattenSteps DEF Laid

LEMMA FlattenNone == FlattenSeq(<<>>) = <<>>
BY DEF FlattenSeq

LEMMA FlattenAppend ==
  ASSUME NEW s \in Seq(Seq(Byte)), NEW x \in Seq(Byte)
  PROVE  FlattenSeq(Append(s, x)) = FlattenSeq(s) \o x
<1> DEFINE t == Append(s, x)
<1>1. /\ t \in Seq(Seq(Byte)) /\ Len(t) = Len(s) + 1 /\ t[Len(s) + 1] = x
      /\ \A i \in 1..Len(s) : t[i] = s[i]
  BY AppendedBytes
<1> HIDE DEF t
<1>2. PICK f : Laid(f, s) /\ FlattenSeq(s) = f[Len(s)]
  BY FlattenSteps
<1>3. PICK g : Laid(g, t) /\ FlattenSeq(t) = g[Len(t)]
  BY <1>1, FlattenSteps
<1>4. f[Len(s)] = g[Len(s)]
  <2>1. Len(s) <= Len(t) /\ \A i \in 1..Len(s) : s[i] = t[i]
    BY <1>1
  <2> QED BY <1>1, <1>2, <1>3, <2>1, LaidAlike, Zenon
<1>5. g[Len(s) + 1] = g[Len(s)] \o x
  <2>1. Len(s) + 1 \in 1..Len(t) /\ (Len(s) + 1) - 1 = Len(s)
    BY <1>1
  <2> QED BY <1>1, <1>3, <2>1 DEF Laid
<1> QED BY <1>1, <1>2, <1>3, <1>4, <1>5 DEF t

\* A prefix laid end to end is a prefix, the next packet comes next.
LEMMA FlattenPrefix ==
  ASSUME NEW s \in Seq(Seq(Byte)), NEW t \in Seq(Seq(Byte)),
         Len(s) < Len(t), \A i \in 1..Len(s) : s[i] = t[i]
  PROVE  \E tail \in Seq(Byte) :
           FlattenSeq(t) = FlattenSeq(s) \o (t[Len(s) + 1] \o tail)
<1> DEFINE k == Len(s)
           x == t[k + 1]
<1>1. k \in Nat /\ Len(t) \in Nat /\ k + 1 \in 1..Len(t) /\ x \in Seq(Byte)
  OBVIOUS
<1>2. PICK f : Laid(f, s) /\ FlattenSeq(s) = f[k]
  BY FlattenSteps
<1>3. PICK g : Laid(g, t) /\ FlattenSeq(t) = g[Len(t)]
  BY FlattenSteps
<1>4. f[k] = g[k]
  <2>1. Len(s) <= Len(t) /\ \A i \in 1..Len(s) : s[i] = t[i]
    BY <1>1
  <2> QED BY <1>2, <1>3, <2>1, LaidAlike, Zenon
<1> HIDE DEF k
<1>5. g[k + 1] = g[k] \o x /\ g[k] \in Seq(Byte)
  <2>1. (k + 1) - 1 = k /\ k \in 0..Len(t)
    BY <1>1
  <2> QED BY <1>1, <1>3, <2>1 DEF Laid
<1> HIDE DEF x
<1> DEFINE m == Len(t) - (k + 1)
           Extends(i) == \E tail \in Seq(Byte) : g[(k + 1) + i] = g[k] \o (x \o tail)
           T == {i \in 0..m : Extends(i)}
<1>6. m \in Nat
  BY <1>1
<1>7. 0 \in T
  <2>1. x \o <<>> = x /\ <<>> \in Seq(Byte)
    BY <1>1
  <2>2. (k + 1) + 0 = k + 1 /\ 0 \in 0..m
    BY <1>1, <1>6
  <2>3. g[(k + 1) + 0] = g[k] \o (x \o <<>>)
    BY <1>5, <2>1, <2>2
  <2>4. Extends(0)
    BY <2>1, <2>3
  <2> HIDE DEF Extends
  <2> QED BY <2>2, <2>4
<1>8. ASSUME NEW i \in 1..m, i - 1 \in T PROVE i \in T
  <2>1. PICK tail \in Seq(Byte) : g[(k + 1) + (i - 1)] = g[k] \o (x \o tail)
    BY <1>8
  <2>2. /\ (k + 1) + i \in 1..Len(t)
        /\ ((k + 1) + i) - 1 = (k + 1) + (i - 1)
    BY <1>1
  <2>3. PICK y \in Seq(Byte) : y = t[(k + 1) + i]
    BY <2>2
  <2>4. g[(k + 1) + i] = (g[k] \o (x \o tail)) \o y
    BY <1>3, <2>1, <2>2, <2>3 DEF Laid
  <2>5. (g[k] \o (x \o tail)) \o y = g[k] \o (x \o (tail \o y)) /\ tail \o y \in Seq(Byte)
    <3>1. x \o tail \in Seq(Byte) /\ tail \o y \in Seq(Byte)
      BY <1>1
    <3>2. (g[k] \o (x \o tail)) \o y = g[k] \o ((x \o tail) \o y)
      BY <1>5, <3>1, BytesAssociate
    <3>3. (x \o tail) \o y = x \o (tail \o y)
      BY <1>1, BytesAssociate
    <3> QED BY <3>1, <3>2, <3>3
  <2>6. Extends(i)
    BY <2>4, <2>5
  <2> HIDE DEF Extends
  <2> QED BY <2>6
<1> HIDE DEF T
<1>9. \A i \in 0..m : i \in T
  BY <1>6, <1>7, <1>8, UpTo
<1>10. PICK tail \in Seq(Byte) : g[(k + 1) + m] = g[k] \o (x \o tail)
  <2>1. m \in 0..m
    BY <1>6
  <2>2. Extends(m)
    <3> HIDE DEF Extends, m
    <3> QED BY <1>9, <2>1 DEF T
  <2> QED BY <2>2
<1>11. (k + 1) + m = Len(t)
  BY <1>1
<1> QED BY <1>2, <1>3, <1>4, <1>10, <1>11 DEF k, x

----------------------------------------------------------------------------
(* The packets of a session, and the buffer they are cut from.             *)

LEMMA SmallLengthFits ==
  ASSUME NEW n \in {1, 2}
  PROVE  n \in Nat /\ Fits(n)
<1>1. n \in Nat /\ 1 \in 1..MaxDigits /\ 1 - 1 = 0 /\ n < Base
  BY ScaleAssumption
<1>2. Shifted(n)[1] = n \div Base
  BY <1>1, ShiftedSteps
<1>3. Shifted(n)[1] = 0
  BY <1>1, <1>2, Division
<1> QED BY <1>1, <1>3 DEF Fits

\* Every packet a broker may send has a length its varint can carry.
LEMMA PacketForms ==
  ASSUME NEW p \in Packets
  PROVE  \E type \in Byte, body \in Seq(Byte) :
           p = Packet(type, body) /\ Fits(Len(body))
<1>1. CONNACK \in Byte /\ SUBACK \in Byte /\ PUBLISH \in Byte /\ 0 \in Byte /\ 1 \in Byte
  BY ScaleAssumption DEF Byte, CONNACK, SUBACK, PUBLISH
<1>2. Fits(1) /\ Fits(2)
  BY SmallLengthFits
<1>3. ASSUME NEW rc \in {0, 1}, p = Packet(CONNACK, <<0, rc>>)
      PROVE  \E type \in Byte, body \in Seq(Byte) :
               p = Packet(type, body) /\ Fits(Len(body))
  <2>1. <<0, rc>> \in Seq(Byte) /\ Len(<<0, rc>>) = 2
    BY <1>1
  <2> QED BY <1>1, <1>2, <1>3, <2>1
<1>4. ASSUME p = Packet(SUBACK, << 0 >>)
      PROVE  \E type \in Byte, body \in Seq(Byte) :
               p = Packet(type, body) /\ Fits(Len(body))
  <2>1. << 0 >> \in Seq(Byte) /\ Len(<< 0 >>) = 1
    BY <1>1
  <2> QED BY <1>1, <1>2, <1>4, <2>1
<1>5. ASSUME NEW b \in EventBodies, p = Packet(PUBLISH, b)
      PROVE  \E type \in Byte, body \in Seq(Byte) :
               p = Packet(type, body) /\ Fits(Len(body))
  BY <1>1, <1>5, ScaleAssumption
<1> QED BY <1>3, <1>4, <1>5 DEF Packets

LEMMA PacketsAreBytes == Packets \subseteq Seq(Byte)
<1> SUFFICES ASSUME NEW p \in Packets PROVE p \in Seq(Byte)
  OBVIOUS
<1>1. PICK type \in Byte, body \in Seq(Byte) : p = Packet(type, body) /\ Fits(Len(body))
  BY PacketForms
<1>2. Packet(type, body) \in Seq(Byte)
  <2>1. <<>> \in Seq(Byte) /\ Len(<<>>) = 0
    OBVIOUS
  <2>2. \A i \in 1..Len(Packet(type, body)) :
           i <= Len(<<>>) => <<>>[i] = Packet(type, body)[i]
    BY <2>1
  <2> HIDE <2>2
  <2> QED BY <1>1, <2>1, <2>2, TakesThePacket
<1> QED BY <1>1, <1>2

\* A packet that was sent is at the front of the buffer, or the part of it that
\* has come: it is what take_packet takes, as soon as all of it is there.
LEMMA TakesWhatWasSent ==
  ASSUME NEW p \in Packets, NEW b \in Seq(Byte), NEW coming \in Seq(Byte),
         NEW tail \in Seq(Byte), b \o coming = p \o tail, Complete(b)
  PROVE  First(b) = p /\ b = p \o Rest(b) /\ Rest(b) \in Seq(Byte)
<1>1. PICK type \in Byte, body \in Seq(Byte) : p = Packet(type, body) /\ Fits(Len(body))
  BY PacketForms
<1>2. p \in Seq(Byte)
  BY PacketsAreBytes
<1>3. ASSUME NEW i \in 1..Len(p), i <= Len(b) PROVE b[i] = p[i]
  <2>1. i \in 1..Len(b)
    BY <1>3
  <2>2. (b \o coming)[i] = b[i]
    BY <2>1, Joined
  <2>3. (p \o tail)[i] = p[i]
    BY <1>2, Joined
  <2> QED BY <2>2, <2>3
<1>4. /\ Len(p) \in Nat /\ Len(p) >= 2
      /\ PacketEnd(b) = IF Len(p) <= Len(b) THEN Len(p) ELSE 0
  <2>1. \A i \in 1..Len(Packet(type, body)) : i <= Len(b) => b[i] = Packet(type, body)[i]
    BY <1>1, <1>3
  <2> QED BY <1>1, <2>1, TakesThePacket
<1>5. Len(p) <= Len(b) /\ PacketEnd(b) = Len(p)
  BY <1>4 DEF Complete
<1>6. First(b) = SubSeq(b, 1, Len(p)) /\ Rest(b) = SubSeq(b, Len(p) + 1, Len(b))
  BY <1>5 DEF First, Rest
<1>7. SubSeq(b, 1, Len(p)) = p
  <2>1. /\ SubSeq(b, 1, Len(p)) \in Seq(Byte)
        /\ Len(SubSeq(b, 1, Len(p))) = Len(p)
        /\ \A i \in 1..Len(p) : SubSeq(b, 1, Len(p))[i] = b[i]
    BY <1>4, <1>5
  <2>2. \A i \in 1..Len(p) : SubSeq(b, 1, Len(p))[i] = p[i]
    BY <1>3, <1>5, <2>1
  <2> QED BY <1>2, <2>1, <2>2, SeqEqual
<1>8. b = SubSeq(b, 1, Len(p)) \o SubSeq(b, Len(p) + 1, Len(b))
  <2>1. Len(p) \in 0..Len(b)
    BY <1>4, <1>5
  <2> QED BY <2>1, CutInTwo, Zenon
<1>9. SubSeq(b, Len(p) + 1, Len(b)) \in Seq(Byte)
  BY <1>4, <1>5, CutInTwo
<1> QED BY <1>6, <1>7, <1>8, <1>9

\* The buffer is what follows our packets among the packets sent.
Framed(ours, b, coming, sent) ==
  /\ ours \in Seq(Seq(Byte)) /\ b \in Seq(Byte) /\ coming \in Seq(Byte)
  /\ sent \in Seq(Packets)
  /\ FlattenSeq(ours) \o b \o coming = FlattenSeq(sent)
  /\ IsPrefix(ours, sent)

\* IsPrefix, position by position.
LEMMA PrefixIs ==
  ASSUME NEW S, NEW s \in Seq(S), NEW t \in Seq(S)
  PROVE  IsPrefix(s, t) <=> Len(s) <= Len(t) /\ \A i \in 1..Len(s) : s[i] = t[i]
<1>1. ASSUME Len(s) <= Len(t)
      PROVE  SubSeq(s, 1, Len(s)) = SubSeq(t, 1, Len(s)) <=> \A i \in 1..Len(s) : s[i] = t[i]
  <2>1. /\ SubSeq(s, 1, Len(s)) \in Seq(S) /\ Len(SubSeq(s, 1, Len(s))) = Len(s)
        /\ \A i \in 1..Len(s) : SubSeq(s, 1, Len(s))[i] = s[i]
    OBVIOUS
  <2>2. /\ SubSeq(t, 1, Len(s)) \in Seq(S) /\ Len(SubSeq(t, 1, Len(s))) = Len(s)
        /\ \A i \in 1..Len(s) : SubSeq(t, 1, Len(s))[i] = t[i]
    BY <1>1
  <2>3. (\A i \in 1..Len(s) : s[i] = t[i]) => SubSeq(s, 1, Len(s)) = SubSeq(t, 1, Len(s))
    BY <2>1, <2>2, SeqEqual
  <2> QED BY <2>1, <2>2, <2>3
<1> QED BY <1>1 DEF IsPrefix

LEMMA PrefixOfPrefix ==
  ASSUME NEW s \in Seq(Seq(Byte)), NEW u \in Seq(Seq(Byte)), NEW t \in Seq(Seq(Byte)),
         IsPrefix(s \o u, t)
  PROVE  IsPrefix(s, t)
<1>1. /\ s \o u \in Seq(Seq(Byte)) /\ Len(s \o u) = Len(s) + Len(u)
      /\ \A i \in 1..Len(s) : (s \o u)[i] = s[i]
  BY Joined
<1>2. Len(s \o u) <= Len(t) /\ \A i \in 1..Len(s \o u) : (s \o u)[i] = t[i]
  BY <1>1, PrefixIs
<1>3. Len(s) <= Len(t)
  BY <1>1, <1>2
<1>4. ASSUME NEW i \in 1..Len(s) PROVE s[i] = t[i]
  <2>1. i \in 1..Len(s \o u)
    BY <1>1
  <2> QED BY <1>1, <1>2, <2>1
<1> QED BY <1>3, <1>4, PrefixIs

LEMMA PacketsSentAreBytes ==
  ASSUME NEW sent \in Seq(Packets)
  PROVE  sent \in Seq(Seq(Byte))
BY PacketsAreBytes, SeqMonotonic

\* Taking the packet at the front of the buffer keeps it framed.
LEMMA TakenIsFramed ==
  ASSUME NEW ours, NEW b, NEW coming, NEW sent,
         Framed(ours, b, coming, sent), Complete(b)
  PROVE  /\ Framed(Append(ours, First(b)), Rest(b), coming, sent)
         /\ Len(ours) < Len(sent)
         /\ First(b) = sent[Len(ours) + 1]
<1>1. /\ ours \in Seq(Seq(Byte)) /\ b \in Seq(Byte) /\ coming \in Seq(Byte)
      /\ sent \in Seq(Packets) /\ sent \in Seq(Seq(Byte))
      /\ FlattenSeq(ours) \o b \o coming = FlattenSeq(sent)
  BY PacketsSentAreBytes DEF Framed
<1>2. Len(ours) <= Len(sent) /\ \A i \in 1..Len(ours) : ours[i] = sent[i]
  BY <1>1, PrefixIs DEF Framed
<1>3. FlattenSeq(ours) \in Seq(Byte) /\ b \o coming \in Seq(Byte)
  BY <1>1, FlattenType
<1>4. FlattenSeq(ours) \o (b \o coming) = FlattenSeq(sent)
  BY <1>1, <1>3, BytesAssociate
<1>5. Len(ours) < Len(sent)
  <2> SUFFICES ASSUME ~(Len(ours) < Len(sent)) PROVE FALSE
    OBVIOUS
  <2>1. Len(ours) = Len(sent)
    BY <1>1, <1>2
  <2>2. ours = sent
    BY <1>1, <1>2, <2>1, SeqEqual
  <2>3. b \o coming = <<>>
    BY <1>3, <1>4, <2>2, ConcatEqualIffEmpty
  <2>4. b = <<>>
    BY <1>1, <2>3, ConcatEqualIffEmpty
  <2>5. Len(b) = 0
    BY <2>4
  <2>6. PacketEnd(b) = 0
    <3>1. PacketEnd(b) \in 0..0
      BY <1>1, <2>5, PacketEndInBuffer
    <3> QED BY <3>1
  <2> QED BY <2>6 DEF Complete
<1> DEFINE p == sent[Len(ours) + 1]
<1>6. p \in Packets /\ p \in Seq(Byte) /\ Len(ours) + 1 \in 1..Len(sent)
  BY <1>1, <1>5, PacketsAreBytes
<1>7. PICK tail \in Seq(Byte) : FlattenSeq(sent) = FlattenSeq(ours) \o (p \o tail)
  BY <1>1, <1>2, <1>5, FlattenPrefix
<1> HIDE DEF p
<1>8. b \o coming = p \o tail
  <2>1. p \o tail \in Seq(Byte)
    BY <1>6
  <2>2. FlattenSeq(ours) \o (b \o coming) = FlattenSeq(ours) \o (p \o tail)
    BY <1>4, <1>7, Zenon
  <2> QED BY <1>3, <2>1, <2>2, BytesCancel, Zenon
<1>9. First(b) = p /\ b = p \o Rest(b) /\ Rest(b) \in Seq(Byte)
  BY <1>1, <1>6, <1>8, TakesWhatWasSent
<1>10. FlattenSeq(Append(ours, p)) \o Rest(b) \o coming = FlattenSeq(sent)
  <2>1. FlattenSeq(Append(ours, p)) = FlattenSeq(ours) \o p
    BY <1>1, <1>6, FlattenAppend
  <2>2. (FlattenSeq(ours) \o p) \o Rest(b) = FlattenSeq(ours) \o (p \o Rest(b))
    BY <1>3, <1>6, <1>9, BytesAssociate
  <2> QED BY <1>1, <1>9, <2>1, <2>2, Zenon
<1>11. Append(ours, p) \in Seq(Seq(Byte)) /\ IsPrefix(Append(ours, p), sent)
  <2> DEFINE q == Append(ours, p)
  <2>1. /\ q \in Seq(Seq(Byte)) /\ Len(q) = Len(ours) + 1 /\ q[Len(ours) + 1] = p
        /\ \A i \in 1..Len(ours) : q[i] = ours[i]
    BY <1>1, <1>6, AppendedBytes
  <2> HIDE DEF q
  <2>2. Len(q) <= Len(sent)
    BY <1>1, <1>5, <2>1
  <2>3. ASSUME NEW i \in 1..Len(q) PROVE q[i] = sent[i]
    <3>1. i \in 1..Len(ours) \/ i = Len(ours) + 1
      BY <1>1, <2>1
    <3> QED BY <1>2, <2>1, <3>1 DEF p
  <2>4. IsPrefix(q, sent)
    BY <1>1, <2>1, <2>2, <2>3, PrefixIs
  <2> QED BY <2>1, <2>4 DEF q
<1> QED BY <1>1, <1>5, <1>9, <1>10, <1>11 DEF Framed, p

----------------------------------------------------------------------------
(* split_packets.                                                          *)

SplitStates == [packets : Seq(Seq(Byte)), rest : Seq(Byte)]

LEMMA EmptyIsIncomplete ==
  ASSUME NEW b \in Seq(Byte), Len(b) <= 0
  PROVE  ~Complete(b)
<1>1. Len(b) = 0
  OBVIOUS
<1>2. PacketEnd(b) \in 0..0
  BY <1>1, PacketEndInBuffer
<1> QED BY <1>2 DEF Complete

\* Taking a packet leaves a shorter buffer.
LEMMA TakenApart ==
  ASSUME NEW b \in Seq(Byte)
  PROVE  /\ First(b) \in Seq(Byte) /\ Rest(b) \in Seq(Byte)
         /\ Complete(b) => Len(Rest(b)) <= Len(b) - 1
<1>1. PacketEnd(b) \in 0..Len(b)
  BY PacketEndInBuffer
<1>2. /\ SubSeq(b, 1, PacketEnd(b)) \in Seq(Byte)
      /\ SubSeq(b, PacketEnd(b) + 1, Len(b)) \in Seq(Byte)
      /\ Len(SubSeq(b, PacketEnd(b) + 1, Len(b))) = Len(b) - PacketEnd(b)
  BY <1>1, CutInTwo, Zenon
<1>3. Complete(b) => Len(b) - PacketEnd(b) <= Len(b) - 1
  BY <1>1 DEF Complete
<1> QED BY <1>2, <1>3 DEF First, Rest

\* A turn of the loop takes a packet, or changes nothing.
LEMMA TakesOne ==
  ASSUME NEW st \in SplitStates
  PROVE  /\ TakeOne[st] \in SplitStates
         /\ Complete(st.rest) => /\ TakeOne[st].packets = Append(st.packets, First(st.rest))
                                 /\ TakeOne[st].rest = Rest(st.rest)
         /\ ~Complete(st.rest) => TakeOne[st] = st
<1>1. st.packets \in Seq(Seq(Byte)) /\ st.rest \in Seq(Byte)
  BY DEF SplitStates
<1>2. First(st.rest) \in Seq(Byte) /\ Rest(st.rest) \in Seq(Byte)
  BY <1>1, TakenApart
<1>3. Append(st.packets, First(st.rest)) \in Seq(Seq(Byte))
  BY <1>1, <1>2, AppendedBytes
<1>4. TakeOne[st] = IF Complete(st.rest)
                    THEN [packets |-> Append(st.packets, First(st.rest)),
                          rest    |-> Rest(st.rest)]
                    ELSE st
  BY DEF TakeOne, SplitStates
<1> QED BY <1>2, <1>3, <1>4 DEF SplitStates

\* The loop of split_packets, unrolled.
LEMMA SplitSteps ==
  ASSUME NEW b \in Seq(Byte)
  PROVE  \E f \in [0..Len(b) -> SplitStates] :
           /\ f[0] = [packets |-> <<>>, rest |-> b]
           /\ \A i \in 1..Len(b) : f[i] = TakeOne[f[i - 1]]
           /\ SplitPackets(b) = f[Len(b)]
<1> DEFINE n == Len(b)
           a == [packets |-> <<>>, rest |-> b]
           F == [p \in (1..n) \X SplitStates |-> TakeOne[p[2]]]
           V(h) == [i \in 0..n |-> IF i = 0 THEN a ELSE TakeOne[h[i - 1]]]
<1>1. n \in Nat /\ a \in SplitStates
  BY DEF SplitStates
<1>2. F \in [(1..n) \X SplitStates -> SplitStates]
  BY TakesOne
<1>3. Recursion(n, SplitStates, a, F)
  <2> HIDE DEF n, a, F
  <2> QED BY <1>1, <1>2, PrimitiveRecursion
<1>4. PICK g \in [0..n -> SplitStates] : g[0] = a /\ \A i \in 1..n : g[i] = F[<<i, g[i - 1]>>]
  BY <1>3 DEF Recursion
<1> HIDE DEF a, n
<1>5. ASSUME NEW i \in 1..n PROVE g[i] = TakeOne[g[i - 1]]
  <2>1. i - 1 \in 0..n
    BY <1>1
  <2> QED BY <1>4, <2>1
<1>6. g = V(g)
  BY <1>1, <1>4, <1>5
<1> DEFINE f == CHOOSE h : h = V(h)
<1>7. f = V(f)
  <2> HIDE DEF V
  <2> QED BY <1>6
<1>8. SplitPackets(b) = f[n]
  BY DEF SplitPackets, n, a
<1> HIDE DEF f
<1>9. f[0] = a /\ \A i \in 1..n : f[i] = TakeOne[f[i - 1]]
  <2>1. 0 \in 0..n /\ \A i \in 1..n : i \in 0..n /\ i # 0
    BY <1>1
  <2> QED BY <1>7, <2>1
<1>10. \A i \in 0..n : f[i] \in SplitStates
  <2> DEFINE T == {i \in 0..n : f[i] \in SplitStates}
  <2>1. 0 \in T
    BY <1>1, <1>9
  <2>2. ASSUME NEW i \in 1..n, i - 1 \in T PROVE i \in T
    <3>1. i \in 0..n /\ f[i - 1] \in SplitStates
      BY <1>1, <2>2
    <3>2. f[i] \in SplitStates
      BY <1>9, <3>1, TakesOne
    <3> QED BY <3>1, <3>2
  <2> HIDE DEF T
  <2>3. \A i \in 0..n : i \in T
    BY <1>1, <2>1, <2>2, UpTo
  <2> QED BY <2>3 DEF T
<1>11. f \in [0..n -> SplitStates]
  BY <1>7, <1>10
<1> QED BY <1>8, <1>9, <1>11 DEF n, a

\* The loop ends with no complete packet left: each turn cuts a byte at least.
THEOREM SplitEnds ==
  ASSUME NEW b \in Seq(Byte)
  PROVE  /\ SplitPackets(b).packets \in Seq(Seq(Byte))
         /\ SplitPackets(b).rest \in Seq(Byte)
         /\ ~Complete(SplitPackets(b).rest)
<1> DEFINE n == Len(b)
<1>1. n \in Nat
  OBVIOUS
<1>2. PICK f \in [0..n -> SplitStates] :
        /\ f[0] = [packets |-> <<>>, rest |-> b]
        /\ \A i \in 1..n : f[i] = TakeOne[f[i - 1]]
        /\ SplitPackets(b) = f[n]
  BY SplitSteps
<1>3. ASSUME NEW i \in 0..n
      PROVE  f[i] \in SplitStates /\ f[i].rest \in Seq(Byte) /\ f[i].packets \in Seq(Seq(Byte))
  BY <1>2 DEF SplitStates
<1> HIDE DEF n
<1> DEFINE T == {i \in 0..n : ~Complete(f[i].rest) \/ Len(f[i].rest) <= n - i}
<1>4. 0 \in T
  BY <1>1, <1>2 DEF n
<1>5. ASSUME NEW i \in 1..n, i - 1 \in T PROVE i \in T
  <2>1. /\ i \in 0..n /\ i - 1 \in 0..n
        /\ ~Complete(f[i - 1].rest) \/ Len(f[i - 1].rest) <= n - (i - 1)
    BY <1>1, <1>5
  <2> DEFINE st == f[i - 1]
  <2>2. st \in SplitStates /\ st.rest \in Seq(Byte) /\ f[i] = TakeOne[st]
    BY <1>2, <1>3, <2>1
  <2> HIDE DEF st
  <2>3. CASE Complete(st.rest)
    <3>1. f[i].rest = Rest(st.rest)
      BY <2>2, <2>3, TakesOne
    <3>2. /\ Rest(st.rest) \in Seq(Byte)
          /\ Len(Rest(st.rest)) <= Len(st.rest) - 1
      BY <2>2, <2>3, TakenApart
    <3>3. Len(st.rest) <= n - (i - 1)
      BY <2>1, <2>3 DEF st
    <3>4. Len(f[i].rest) <= n - i
      BY <1>1, <2>2, <3>1, <3>2, <3>3
    <3> QED BY <2>1, <3>4
  <2>4. CASE ~Complete(st.rest)
    <3>1. f[i] = st
      BY <2>2, <2>4, TakesOne
    <3> QED BY <2>1, <2>4, <3>1
  <2> QED BY <2>3, <2>4
<1> HIDE DEF T
<1>6. \A i \in 0..n : i \in T
  BY <1>1, <1>4, <1>5, UpTo
<1>7. n \in 0..n /\ n - n = 0
  BY <1>1
<1>8. ~Complete(f[n].rest) \/ Len(f[n].rest) <= 0
  BY <1>6, <1>7 DEF T
<1>9. ~Complete(f[n].rest)
  BY <1>3, <1>7, <1>8, EmptyIsIncomplete
<1> QED BY <1>2, <1>3, <1>7, <1>9

\* What is split off follows our packets, and the buffer follows it.
LEMMA SplitIsFramed ==
  ASSUME NEW ours, NEW b, NEW coming, NEW sent, Framed(ours, b, coming, sent)
  PROVE  Framed(ours \o SplitPackets(b).packets, SplitPackets(b).rest, coming, sent)
<1> DEFINE n == Len(b)
<1>1. b \in Seq(Byte) /\ n \in Nat /\ ours \in Seq(Seq(Byte))
  BY DEF Framed
<1>2. PICK f \in [0..n -> SplitStates] :
        /\ f[0] = [packets |-> <<>>, rest |-> b]
        /\ \A i \in 1..n : f[i] = TakeOne[f[i - 1]]
        /\ SplitPackets(b) = f[n]
  BY <1>1, SplitSteps
<1>3. ASSUME NEW i \in 0..n
      PROVE  f[i] \in SplitStates /\ f[i].rest \in Seq(Byte) /\ f[i].packets \in Seq(Seq(Byte))
  BY <1>2 DEF SplitStates
<1> HIDE DEF n
<1> DEFINE Holds(i) == Framed(ours \o f[i].packets, f[i].rest, coming, sent)
           T == {i \in 0..n : Holds(i)}
<1>4. 0 \in T
  <2>1. f[0].packets = <<>> /\ f[0].rest = b
    BY <1>2
  <2>2. ours \o <<>> = ours
    BY <1>1
  <2>3. Holds(0)
    BY <2>1, <2>2
  <2> HIDE DEF Holds
  <2> QED BY <1>1, <2>3
<1>5. ASSUME NEW i \in 1..n, i - 1 \in T PROVE i \in T
  <2>1. i \in 0..n /\ i - 1 \in 0..n /\ Holds(i - 1)
    <3> HIDE DEF Holds
    <3> QED BY <1>1, <1>5
  <2> DEFINE st == f[i - 1]
  <2>2. /\ st \in SplitStates /\ st.rest \in Seq(Byte) /\ st.packets \in Seq(Seq(Byte))
        /\ f[i] = TakeOne[st]
    BY <1>2, <1>3, <2>1
  <2>3. Framed(ours \o st.packets, st.rest, coming, sent)
    BY <2>1
  <2> HIDE DEF st
  <2>4. CASE Complete(st.rest)
    <3>1. /\ f[i].packets = Append(st.packets, First(st.rest))
          /\ f[i].rest = Rest(st.rest)
      BY <2>2, <2>4, TakesOne
    <3>2. First(st.rest) \in Seq(Byte)
      BY <2>2, TakenApart
    <3>3. Append(ours \o st.packets, First(st.rest)) = ours \o Append(st.packets, First(st.rest))
      <4>1. ours \in Seq(Seq(Byte)) /\ st.packets \in Seq(Seq(Byte))
        BY <1>1, <2>2
      <4> QED BY <3>2, <4>1, AppendJoined
    <3>4. Framed(Append(ours \o st.packets, First(st.rest)), Rest(st.rest), coming, sent)
      BY <2>3, <2>4, TakenIsFramed
    <3>5. Holds(i)
      BY <3>1, <3>3, <3>4
    <3> HIDE DEF Holds
    <3> QED BY <2>1, <3>5
  <2>5. CASE ~Complete(st.rest)
    <3>1. f[i] = st
      BY <2>2, <2>5, TakesOne
    <3>2. Holds(i)
      BY <2>3, <3>1
    <3> HIDE DEF Holds
    <3> QED BY <2>1, <3>2
  <2> QED BY <2>4, <2>5
<1> HIDE DEF T
<1>6. \A i \in 0..n : i \in T
  BY <1>1, <1>4, <1>5, UpTo
<1>7. Holds(n)
  <2>1. n \in T
    BY <1>1, <1>6
  <2> HIDE DEF Holds
  <2> QED BY <2>1 DEF T
<1> QED BY <1>2, <1>7

----------------------------------------------------------------------------
(* The inductive invariant of the framing.                                 *)

\* The handshake splits nothing off; the listen loop never leaves a complete
\* packet in the buffer, not even while the handlers run.
HandshakeHasNoBatch == phase \in {"connack", "suback", "flush"} => batch = <<>>
NoCompletePacketWaits == phase = "listening" => ~Complete(rx)

FramingInv ==
  FramingTypeOK /\ FramingHolds /\ HandshakeHasNoBatch /\ NoCompletePacketWaits

\* FramingHolds, in the words of the lemmas.
BytesInPlace == phase # "down" => Framed(taken \o batch, rx, wire, written)

LEMMA FramingIsFramed ==
  ASSUME FramingTypeOK
  PROVE  FramingHolds <=> BytesInPlace
<1>1. taken \o batch \in Seq(Seq(Byte)) /\ rx \in Seq(Byte) /\ wire \in Seq(Byte)
      /\ written \in Seq(Packets)
  BY Joined DEF FramingTypeOK
<1>2. Framed(taken \o batch, rx, wire, written)
        <=> /\ FlattenSeq(taken \o batch) \o rx \o wire = FlattenSeq(written)
            /\ IsPrefix(taken \o batch, written)
  BY <1>1, Zenon DEF Framed
<1> QED BY <1>2, Zenon DEF FramingHolds, BytesInPlace

LEMMA FramingTypeNext ==
  ASSUME FramingTypeOK, [FramingNext]_framing
  PROVE  FramingTypeOK'
<1> USE DEF FramingTypeOK
<1>1. /\ First(rx) \in Seq(Byte) /\ Rest(rx) \in Seq(Byte)
  BY TakenApart
<1>2. ASSUME NEW p \in Packets, BrokerSends(p) PROVE FramingTypeOK'
  <2>1. p \in Seq(Byte)
    BY PacketsAreBytes
  <2>2. wire \o p \in Seq(Byte)
    BY <2>1, Joined
  <2>3. Append(written, p) \in Seq(Packets)
    OBVIOUS
  <2> QED BY <1>2, <2>2, <2>3 DEF BrokerSends
<1>3. CASE StartSession
  BY <1>3 DEF StartSession, BufferAtConnect
<1>4. ASSUME NEW n \in 1..Len(wire), ReceiveInHandshake(n) \/ Receive(n)
      PROVE  FramingTypeOK'
  <2>1. /\ SubSeq(wire, 1, n) \in Seq(Byte)
        /\ SubSeq(wire, n + 1, Len(wire)) \in Seq(Byte)
    BY CutInTwo
  <2>2. rx \o SubSeq(wire, 1, n) \in Seq(Byte)
    BY <2>1, Joined
  <2>3. CASE ReceiveInHandshake(n)
    BY <2>1, <2>2, <2>3 DEF ReceiveInHandshake
  <2>4. CASE Receive(n)
    <3> DEFINE b == rx \o SubSeq(wire, 1, n)
    <3>1. /\ SplitPackets(b).packets \in Seq(Seq(Byte))
          /\ SplitPackets(b).rest \in Seq(Byte)
      BY <2>2, SplitEnds
    <3>2. /\ batch' = SplitPackets(b).packets /\ rx' = SplitPackets(b).rest
          /\ wire' = SubSeq(wire, n + 1, Len(wire))
          /\ UNCHANGED <<phase, written, taken>>
      BY <2>4 DEF Receive
    <3> HIDE DEF b
    <3> QED BY <2>1, <3>1, <3>2
  <2> QED BY <1>4, <2>3, <2>4
<1>5. CASE ReadConnack
  <2>1. Append(taken, First(rx)) \in Seq(Seq(Byte))
    BY <1>1, AppendedBytes
  <2> QED BY <1>1, <1>5, <2>1 DEF ReadConnack
<1>6. CASE ReadSuback
  <2>1. Append(taken, First(rx)) \in Seq(Seq(Byte))
    BY <1>1, AppendedBytes
  <2> QED BY <1>1, <1>6, <2>1 DEF ReadSuback
<1>7. CASE Flush
  <2>1. /\ SplitPackets(rx).packets \in Seq(Seq(Byte))
        /\ SplitPackets(rx).rest \in Seq(Byte)
    BY SplitEnds
  <2> QED BY <1>7, <2>1 DEF Flush, Leftover
<1>8. CASE Dispatch
  <2>1. Head(batch) \in Seq(Byte) /\ Tail(batch) \in Seq(Seq(Byte))
    BY <1>8, HeadTailProperties DEF Dispatch
  <2>2. Append(taken, Head(batch)) \in Seq(Seq(Byte))
    BY <2>1, AppendedBytes
  <2> QED BY <1>8, <2>1, <2>2 DEF Dispatch, BatchAfterDispatch
<1>9. CASE Drop
  BY <1>9 DEF Drop
<1>10. CASE UNCHANGED framing
  BY <1>10 DEF framing
<1> QED BY <1>2, <1>3, <1>4, <1>5, <1>6, <1>7, <1>8, <1>9, <1>10 DEF FramingNext, Frame

\* What the broker writes goes to the end, on both sides of the equation.
LEMMA WrittenOn ==
  ASSUME NEW ours, NEW b, NEW coming, NEW sent, NEW p \in Packets,
         Framed(ours, b, coming, sent)
  PROVE  Framed(ours, b, coming \o p, Append(sent, p))
<1>1. /\ ours \in Seq(Seq(Byte)) /\ b \in Seq(Byte) /\ coming \in Seq(Byte)
      /\ sent \in Seq(Packets) /\ sent \in Seq(Seq(Byte)) /\ p \in Seq(Byte)
      /\ FlattenSeq(ours) \o b \o coming = FlattenSeq(sent)
  BY PacketsSentAreBytes, PacketsAreBytes DEF Framed
<1>2. FlattenSeq(Append(sent, p)) = FlattenSeq(sent) \o p
  BY <1>1, FlattenAppend
<1>3. (FlattenSeq(ours) \o b \o coming) \o p = FlattenSeq(ours) \o b \o (coming \o p)
  <2>1. FlattenSeq(ours) \in Seq(Byte)
    BY <1>1, FlattenType
  <2>2. FlattenSeq(ours) \o b \in Seq(Byte)
    BY <1>1, <2>1
  <2> QED BY <1>1, <2>2, BytesAssociate
<1>4. FlattenSeq(ours) \o b \o (coming \o p) = FlattenSeq(Append(sent, p))
  BY <1>1, <1>2, <1>3, Zenon
<1>5. coming \o p \in Seq(Byte) /\ Append(sent, p) \in Seq(Packets)
  <2>1. coming \o p \in Seq(Byte)
    BY <1>1
  <2>2. Append(sent, p) \in Seq(Packets)
    BY <1>1
  <2> QED BY <2>1, <2>2
<1>6. IsPrefix(ours, Append(sent, p))
  <2>1. Len(ours) <= Len(sent) /\ \A i \in 1..Len(ours) : ours[i] = sent[i]
    BY <1>1, PrefixIs DEF Framed
  <2> DEFINE more == Append(sent, p)
  <2>2. /\ more \in Seq(Seq(Byte)) /\ Len(more) = Len(sent) + 1
        /\ \A i \in 1..Len(sent) : more[i] = sent[i]
    BY <1>1, AppendedBytes
  <2> HIDE DEF more
  <2>3. Len(ours) <= Len(more)
    BY <1>1, <2>1, <2>2
  <2>4. ASSUME NEW i \in 1..Len(ours) PROVE ours[i] = more[i]
    <3>1. i \in 1..Len(sent)
      BY <1>1, <2>1
    <3> QED BY <2>1, <2>2, <3>1
  <2>5. IsPrefix(ours, more)
    BY <1>1, <2>2, <2>3, <2>4, PrefixIs
  <2> QED BY <2>5 DEF more
<1> QED BY <1>1, <1>4, <1>5, <1>6 DEF Framed

\* receive() moves bytes from the wire to the buffer.
LEMMA ReceivedIsFramed ==
  ASSUME NEW ours, NEW b, NEW coming, NEW sent, NEW n \in 1..Len(coming),
         Framed(ours, b, coming, sent)
  PROVE  Framed(ours, b \o SubSeq(coming, 1, n), SubSeq(coming, n + 1, Len(coming)), sent)
<1> DEFINE head == SubSeq(coming, 1, n)
           rest == SubSeq(coming, n + 1, Len(coming))
<1>1. /\ ours \in Seq(Seq(Byte)) /\ b \in Seq(Byte) /\ coming \in Seq(Byte)
      /\ sent \in Seq(Packets) /\ FlattenSeq(ours) \in Seq(Byte)
      /\ FlattenSeq(ours) \o b \o coming = FlattenSeq(sent)
  BY FlattenType DEF Framed
<1>2. head \in Seq(Byte) /\ rest \in Seq(Byte) /\ coming = head \o rest
  <2>1. n \in 0..Len(coming)
    BY <1>1
  <2> QED BY <1>1, <2>1, CutInTwo, Zenon
<1> HIDE DEF head, rest
<1> DEFINE front == FlattenSeq(ours)
<1>3. /\ front \in Seq(Byte) /\ b \in Seq(Byte)
      /\ front \o b \in Seq(Byte) /\ b \o head \in Seq(Byte)
  BY <1>1, <1>2
<1> HIDE DEF front
<1>4. (front \o b) \o (head \o rest) = ((front \o b) \o head) \o rest
  BY <1>2, <1>3, BytesAssociate
<1>5. (front \o b) \o head = front \o (b \o head)
  <2>1. head \in Seq(Byte)
    BY <1>2
  <2> QED BY <1>3, <2>1, BytesAssociate
<1>6. front \o (b \o head) \o rest = FlattenSeq(sent)
  <2>1. (front \o b) \o (head \o rest) = FlattenSeq(sent)
    BY <1>1, <1>2, Zenon DEF front
  <2> QED BY <1>4, <1>5, <2>1, Zenon
<1> QED BY <1>1, <1>2, <1>3, <1>6 DEF Framed, head, rest, front

LEMMA NothingYet == Framed(<<>>, <<>>, <<>>, <<>>)
<1>1. <<>> \in Seq(Seq(Byte)) /\ <<>> \in Seq(Byte) /\ <<>> \in Seq(Packets)
  OBVIOUS
<1>2. FlattenSeq(<<>>) \o <<>> \o <<>> = FlattenSeq(<<>>)
  BY FlattenNone
<1>3. IsPrefix(<<>>, <<>>)
  BY DEF IsPrefix
<1> QED BY <1>1, <1>2, <1>3 DEF Framed

\* Each action keeps the bytes in place, and the two conditions the proof needs.
LEMMA FramingKept ==
  ASSUME FramingInv, [FramingNext]_framing
  PROVE  BytesInPlace' /\ HandshakeHasNoBatch' /\ NoCompletePacketWaits'
<1>1. FramingTypeOK /\ FramingTypeOK'
  BY FramingTypeNext DEF FramingInv
<1>2. BytesInPlace /\ HandshakeHasNoBatch /\ NoCompletePacketWaits
  BY <1>1, FramingIsFramed DEF FramingInv
<1> DEFINE Goal == BytesInPlace' /\ HandshakeHasNoBatch' /\ NoCompletePacketWaits'
<1>3. ASSUME NEW p \in Packets, BrokerSends(p) PROVE Goal
  <2>1. Framed(taken \o batch, rx, wire \o p, Append(written, p))
    BY <1>2, <1>3, WrittenOn DEF BrokerSends, BytesInPlace
  <2> QED BY <1>2, <1>3, <2>1
          DEF BrokerSends, BytesInPlace, HandshakeHasNoBatch, NoCompletePacketWaits
<1>4. CASE StartSession
  <2>1. <<>> \o <<>> = <<>>
    OBVIOUS
  <2>2. /\ phase' = "connack" /\ taken' = <<>> /\ batch' = <<>> /\ rx' = <<>>
        /\ wire' = <<>> /\ written' = <<>>
    BY <1>4 DEF StartSession, BufferAtConnect
  <2>3. Framed(taken' \o batch', rx', wire', written')
    BY <2>1, <2>2, NothingYet
  <2> QED BY <2>2, <2>3 DEF BytesInPlace, HandshakeHasNoBatch, NoCompletePacketWaits
<1>5. ASSUME NEW n \in 1..Len(wire), ReceiveInHandshake(n) PROVE Goal
  <2>1. Framed(taken \o batch, rx \o SubSeq(wire, 1, n),
               SubSeq(wire, n + 1, Len(wire)), written)
    BY <1>2, <1>5, ReceivedIsFramed DEF ReceiveInHandshake, BytesInPlace
  <2> QED BY <1>2, <1>5, <2>1
          DEF ReceiveInHandshake, BytesInPlace, HandshakeHasNoBatch, NoCompletePacketWaits
<1>6. ASSUME NEW n \in 1..Len(wire), Receive(n) PROVE Goal
  <2> DEFINE b == rx \o SubSeq(wire, 1, n)
  <2>1. Framed(taken \o batch, b, SubSeq(wire, n + 1, Len(wire)), written)
    BY <1>2, <1>6, ReceivedIsFramed DEF Receive, BytesInPlace
  <2>2. /\ phase = "listening" /\ batch = <<>>
        /\ batch' = SplitPackets(b).packets /\ rx' = SplitPackets(b).rest
        /\ wire' = SubSeq(wire, n + 1, Len(wire))
        /\ UNCHANGED <<phase, written, taken>>
    BY <1>6 DEF Receive
  <2> HIDE DEF b
  <2>3. taken \o batch = taken
    BY <1>1, <2>2 DEF FramingTypeOK
  <2>4. Framed(taken \o SplitPackets(b).packets, SplitPackets(b).rest, wire', written)
    BY <2>1, <2>2, <2>3, SplitIsFramed
  <2>5. b \in Seq(Byte)
    BY <2>1 DEF Framed
  <2>6. ~Complete(SplitPackets(b).rest)
    BY <2>5, SplitEnds
  <2> QED BY <2>2, <2>4, <2>6 DEF BytesInPlace, HandshakeHasNoBatch, NoCompletePacketWaits
<1>7. ASSUME ReadConnack \/ ReadSuback PROVE Goal
  <2>1. /\ phase \in {"connack", "suback"} /\ Complete(rx)
        /\ phase' \in {"suback", "down", "flush"}
        /\ taken' = Append(taken, First(rx)) /\ rx' = Rest(rx)
        /\ UNCHANGED <<written, wire, batch>>
    BY <1>7 DEF ReadConnack, ReadSuback
  <2>2. batch = <<>>
    BY <1>2, <2>1 DEF HandshakeHasNoBatch
  <2>3. taken \o batch = taken /\ taken' \o batch' = taken'
    BY <1>1, <2>1, <2>2 DEF FramingTypeOK
  <2>4. Framed(taken, rx, wire, written)
    BY <1>2, <2>1, <2>3 DEF BytesInPlace
  <2>5. Framed(taken', rx', wire', written')
    BY <2>1, <2>4, TakenIsFramed
  <2> QED BY <2>1, <2>2, <2>3, <2>5
          DEF BytesInPlace, HandshakeHasNoBatch, NoCompletePacketWaits
<1>8. CASE Flush
  <2>1. /\ phase = "flush" /\ phase' = "listening"
        /\ batch' = SplitPackets(rx).packets /\ rx' = SplitPackets(rx).rest
        /\ UNCHANGED <<written, wire, taken>>
    BY <1>8 DEF Flush, Leftover
  <2>2. taken \o batch = taken
    BY <1>1, <1>2, <2>1 DEF FramingTypeOK, HandshakeHasNoBatch
  <2>3. Framed(taken, rx, wire, written)
    BY <1>2, <2>1, <2>2 DEF BytesInPlace
  <2>4. Framed(taken \o SplitPackets(rx).packets, SplitPackets(rx).rest, wire, written)
    BY <2>3, SplitIsFramed
  <2>5. ~Complete(SplitPackets(rx).rest)
    BY <1>1, SplitEnds DEF FramingTypeOK
  <2> QED BY <2>1, <2>4, <2>5 DEF BytesInPlace, HandshakeHasNoBatch, NoCompletePacketWaits
<1>9. CASE Dispatch
  <2>1. /\ phase = "listening" /\ batch # <<>>
        /\ taken' = Append(taken, Head(batch)) /\ batch' = Tail(batch)
        /\ UNCHANGED <<phase, written, wire, rx>>
    BY <1>9 DEF Dispatch, BatchAfterDispatch
  <2>2. taken' \o batch' = taken \o batch
    BY <1>1, <2>1, HandedOver DEF FramingTypeOK
  <2> QED BY <1>2, <2>1, <2>2 DEF BytesInPlace, HandshakeHasNoBatch, NoCompletePacketWaits
<1>10. CASE Drop
  BY <1>10 DEF Drop, BytesInPlace, HandshakeHasNoBatch, NoCompletePacketWaits
<1>11. CASE UNCHANGED framing
  BY <1>2, <1>11 DEF framing, BytesInPlace, HandshakeHasNoBatch, NoCompletePacketWaits
<1> QED BY <1>3, <1>4, <1>5, <1>6, <1>7, <1>8, <1>9, <1>10, <1>11 DEF FramingNext, Frame

LEMMA FramingInvNext ==
  ASSUME FramingInv, [FramingNext]_framing
  PROVE  FramingInv'
<1>1. FramingTypeOK'
  BY FramingTypeNext DEF FramingInv
<1>2. BytesInPlace' /\ HandshakeHasNoBatch' /\ NoCompletePacketWaits'
  BY FramingKept
<1>3. FramingHolds'
  BY <1>2 DEF BytesInPlace, Framed, FramingHolds
<1> QED BY <1>1, <1>2, <1>3 DEF FramingInv

LEMMA FramingInvInit == FramingInit => FramingInv
<1> SUFFICES ASSUME FramingInit PROVE FramingInv
  OBVIOUS
<1>1. FramingTypeOK
  BY DEF FramingInit, FramingTypeOK
<1> QED BY <1>1 DEF FramingInit, FramingInv, FramingHolds, HandshakeHasNoBatch,
                    NoCompletePacketWaits

\* The invariant holds in every session, whatever the constants.
LEMMA FramingInvariance == FramingSpec => []FramingInv
<1>1. FramingInv /\ [FramingNext]_framing => FramingInv'
  BY FramingInvNext
<1> QED BY <1>1, FramingInvInit, PTL DEF FramingSpec

\* Type correctness of the framing (mqtt_codec.py, and the buffer and the packets
\* of mqtt.py).
THEOREM FramingTypeCorrect == FramingSpec => []FramingTypeOK
<1>1. FramingInv => FramingTypeOK
  BY DEF FramingInv
<1> QED BY <1>1, FramingInvariance, PTL

\* Wherever the WebSocket frames cut, every byte sent is in its place and every
\* packet taken was sent, in order (split_packets, _read_packet, issue #13), for
\* every base, varint width, set of events and length of session.
THEOREM FramingNeverSlips == FramingSpec => []FramingHolds
<1>1. FramingInv => FramingHolds
  BY DEF FramingInv
<1> QED BY <1>1, FramingInvariance, PTL

\* The listen loop never blocks in receive() over a complete packet
\* (_drain_buffer before the first receive, _listen_loop).
THEOREM NoPacketHeldBack == FramingSpec => []NothingHeldBack
<1>1. FramingInv => NothingHeldBack
  BY DEF FramingInv, NoCompletePacketWaits, NothingHeldBack
<1> QED BY <1>1, FramingInvariance, PTL

----------------------------------------------------------------------------
(* The stream refines EventChannel.                                        *)

\* The events among the first i packets, for each i.
Picked(e, s) ==
  /\ e \in [0..Len(s) -> Seq(Seq(Byte))]
  /\ e[0] = <<>>
  /\ \A i \in 1..Len(s) : e[i] = IF IsEvent(s[i]) THEN Append(e[i - 1], s[i]) ELSE e[i - 1]

\* EventsOf, unrolled.
LEMMA EventsSteps ==
  ASSUME NEW s \in Seq(Seq(Byte))
  PROVE  \E e : Picked(e, s) /\ EventsOf(s) = e[Len(s)]
<1> DEFINE n == Len(s)
           S == Seq(Seq(Byte))
           Step(i, x) == IF IsEvent(s[i]) THEN Append(x, s[i]) ELSE x
           F == [p \in (1..n) \X S |-> Step(p[1], p[2])]
           V(h) == [i \in 0..n |-> IF i = 0 THEN <<>> ELSE
                      IF IsEvent(s[i]) THEN Append(h[i - 1], s[i]) ELSE h[i - 1]]
<1>1. n \in Nat /\ <<>> \in S /\ \A i \in 1..n : s[i] \in Seq(Byte)
  OBVIOUS
<1>2. ASSUME NEW i \in 1..n, NEW x \in S PROVE Step(i, x) \in S
  <2>1. Append(x, s[i]) \in S
    BY <1>1, AppendedBytes
  <2> QED BY <2>1
<1> HIDE DEF n, S, Step
<1>3. F \in [(1..n) \X S -> S]
  BY <1>2
<1>4. Recursion(n, S, <<>>, F)
  <2> HIDE DEF F
  <2> QED BY <1>1, <1>3, PrimitiveRecursion
<1>5. PICK g \in [0..n -> S] : g[0] = <<>> /\ \A i \in 1..n : g[i] = F[<<i, g[i - 1]>>]
  BY <1>4 DEF Recursion
<1>6. ASSUME NEW i \in 1..n PROVE g[i] = Step(i, g[i - 1])
  <2>1. i - 1 \in 0..n
    BY <1>1
  <2> QED BY <1>5, <2>1
<1>7. g = V(g)
  <2> SUFFICES ASSUME NEW i \in 0..n
               PROVE  g[i] = IF i = 0 THEN <<>> ELSE
                        IF IsEvent(s[i]) THEN Append(g[i - 1], s[i]) ELSE g[i - 1]
    OBVIOUS
  <2>1. CASE i = 0
    BY <1>5, <2>1
  <2>2. CASE i # 0
    <3>1. i \in 1..n
      BY <1>1, <2>2
    <3> QED BY <1>6, <2>2, <3>1 DEF Step
  <2> QED BY <2>1, <2>2
<1> DEFINE e == CHOOSE h : h = V(h)
<1>8. e = V(e)
  <2> HIDE DEF V
  <2> QED BY <1>7
<1>9. EventsOf(s) = e[n]
  BY DEF EventsOf, n
<1> HIDE DEF e
<1>10. e[0] = <<>> /\ \A i \in 1..n : e[i] = Step(i, e[i - 1])
  <2>1. 0 \in 0..n /\ \A i \in 1..n : i \in 0..n /\ i # 0
    BY <1>1
  <2> QED BY <1>8, <2>1 DEF Step
<1>11. \A i \in 0..n : e[i] \in S
  <2> DEFINE T == {i \in 0..n : e[i] \in S}
  <2>1. 0 \in T
    BY <1>1, <1>10
  <2>2. ASSUME NEW i \in 1..n, i - 1 \in T PROVE i \in T
    <3>1. i \in 0..n /\ e[i - 1] \in S
      BY <1>1, <2>2
    <3>2. e[i] \in S
      BY <1>2, <1>10, <3>1
    <3> QED BY <3>1, <3>2
  <2> HIDE DEF T
  <2>3. \A i \in 0..n : i \in T
    BY <1>1, <2>1, <2>2, UpTo
  <2> QED BY <2>3 DEF T
<1>12. e \in [0..n -> S]
  BY <1>8, <1>11
<1>13. Picked(e, s)
  BY <1>10, <1>12 DEF Picked, n, S, Step
<1> QED BY <1>9, <1>13 DEF n

LEMMA PickedAlike ==
  ASSUME NEW s \in Seq(Seq(Byte)), NEW t \in Seq(Seq(Byte)), NEW f, NEW g,
         Picked(f, s), Picked(g, t), Len(s) <= Len(t), \A i \in 1..Len(s) : s[i] = t[i]
  PROVE  f[Len(s)] = g[Len(s)]
<1> DEFINE n == Len(s)
           T == {i \in 0..n : f[i] = g[i]}
<1>1. n \in Nat /\ n <= Len(t) /\ Len(t) \in Nat
  OBVIOUS
<1> HIDE DEF n
<1>2. 0 \in T
  BY <1>1 DEF Picked
<1>3. ASSUME NEW i \in 1..n, i - 1 \in T PROVE i \in T
  <2>1. i \in 0..n /\ i \in 1..Len(t) /\ f[i - 1] = g[i - 1]
    BY <1>1, <1>3
  <2>2. /\ f[i] = IF IsEvent(s[i]) THEN Append(f[i - 1], s[i]) ELSE f[i - 1]
        /\ g[i] = IF IsEvent(t[i]) THEN Append(g[i - 1], t[i]) ELSE g[i - 1]
        /\ s[i] = t[i]
    BY <2>1 DEF Picked, n
  <2> QED BY <2>1, <2>2
<1> HIDE DEF T
<1>4. \A i \in 0..n : i \in T
  BY <1>1, <1>2, <1>3, UpTo
<1> QED BY <1>1, <1>4 DEF n, T

LEMMA EventsType ==
  ASSUME NEW s \in Seq(Seq(Byte))
  PROVE  EventsOf(s) \in Seq(Seq(Byte))
<1>1. Len(s) \in 0..Len(s)
  OBVIOUS
<1> QED BY <1>1, EventsSteps DEF Picked

LEMMA EventsNone == EventsOf(<<>>) = <<>>
<1>1. <<>> \in Seq(Seq(Byte)) /\ Len(<<>>) = 0
  OBVIOUS
<1>2. PICK e : Picked(e, <<>>) /\ EventsOf(<<>>) = e[Len(<<>>)]
  BY <1>1, EventsSteps
<1> QED BY <1>1, <1>2 DEF Picked

LEMMA EventsAppend ==
  ASSUME NEW s \in Seq(Seq(Byte)), NEW x \in Seq(Byte)
  PROVE  EventsOf(Append(s, x)) = IF IsEvent(x) THEN Append(EventsOf(s), x) ELSE EventsOf(s)
<1> DEFINE t == Append(s, x)
<1>1. /\ t \in Seq(Seq(Byte)) /\ Len(t) = Len(s) + 1 /\ t[Len(s) + 1] = x
      /\ \A i \in 1..Len(s) : t[i] = s[i]
  BY AppendedBytes
<1> HIDE DEF t
<1>2. PICK f : Picked(f, s) /\ EventsOf(s) = f[Len(s)]
  BY EventsSteps
<1>3. PICK g : Picked(g, t) /\ EventsOf(t) = g[Len(t)]
  BY <1>1, EventsSteps
<1>4. f[Len(s)] = g[Len(s)]
  <2>1. Len(s) <= Len(t) /\ \A i \in 1..Len(s) : s[i] = t[i]
    BY <1>1
  <2> QED BY <1>1, <1>2, <1>3, <2>1, PickedAlike, Zenon
<1>5. g[Len(s) + 1] = IF IsEvent(x) THEN Append(g[Len(s)], x) ELSE g[Len(s)]
  <2>1. Len(s) + 1 \in 1..Len(t) /\ (Len(s) + 1) - 1 = Len(s)
    BY <1>1
  <2>2. g[Len(s) + 1] = IF IsEvent(t[Len(s) + 1])
                        THEN Append(g[(Len(s) + 1) - 1], t[Len(s) + 1])
                        ELSE g[(Len(s) + 1) - 1]
    BY <1>3, <2>1 DEF Picked
  <2> QED BY <1>1, <2>1, <2>2
<1> QED BY <1>1, <1>2, <1>3, <1>4, <1>5 DEF t

\* The events of a prefix are a prefix of the events.
LEMMA EventsPrefix ==
  ASSUME NEW s \in Seq(Seq(Byte)), NEW t \in Seq(Seq(Byte)),
         Len(s) <= Len(t), \A i \in 1..Len(s) : s[i] = t[i]
  PROVE  /\ Len(EventsOf(s)) <= Len(EventsOf(t))
         /\ \A j \in 1..Len(EventsOf(s)) : EventsOf(t)[j] = EventsOf(s)[j]
<1> DEFINE k == Len(s)
           m == Len(t) - k
<1>1. k \in Nat /\ Len(t) \in Nat /\ m \in Nat /\ k + m = Len(t)
  OBVIOUS
<1>2. PICK f : Picked(f, s) /\ EventsOf(s) = f[k]
  BY EventsSteps
<1>3. PICK g : Picked(g, t) /\ EventsOf(t) = g[Len(t)]
  BY EventsSteps
<1>4. f[k] = g[k]
  BY <1>2, <1>3, PickedAlike, Zenon
<1> HIDE DEF k, m
<1>5. \A i \in 0..m : g[k + i] \in Seq(Seq(Byte))
  <2> SUFFICES ASSUME NEW i \in 0..m PROVE g[k + i] \in Seq(Seq(Byte))
    OBVIOUS
  <2>1. k + i \in 0..Len(t)
    BY <1>1
  <2> QED BY <1>3, <2>1 DEF Picked
<1> DEFINE Extends(i) == /\ Len(g[k]) <= Len(g[k + i])
                         /\ \A j \in 1..Len(g[k]) : g[k + i][j] = g[k][j]
           T == {i \in 0..m : Extends(i)}
<1>6. 0 \in T
  <2>1. k + 0 = k /\ 0 \in 0..m
    BY <1>1
  <2>2. g[k] \in Seq(Seq(Byte))
    BY <1>5, <2>1
  <2> QED BY <2>1, <2>2
<1>7. ASSUME NEW i \in 1..m, i - 1 \in T PROVE i \in T
  <2>1. /\ i \in 0..m /\ i - 1 \in 0..m /\ Extends(i - 1)
        /\ k + i \in 1..Len(t) /\ (k + i) - 1 = k + (i - 1)
    <3> HIDE DEF Extends
    <3> QED BY <1>1, <1>7
  <2> DEFINE old == g[k + (i - 1)]
             new == g[k + i]
  <2>2. PICK y \in Seq(Byte) : y = t[k + i]
    BY <2>1
  <2>3. new = IF IsEvent(y) THEN Append(old, y) ELSE old
    BY <1>3, <2>1, <2>2 DEF Picked
  <2>4. old \in Seq(Seq(Byte)) /\ new \in Seq(Seq(Byte)) /\ g[k] \in Seq(Seq(Byte))
    <3>1. 0 \in 0..m /\ k + 0 = k
      BY <1>1
    <3> QED BY <1>5, <2>1, <3>1
  <2>5. Len(g[k]) <= Len(old) /\ \A j \in 1..Len(g[k]) : old[j] = g[k][j]
    BY <2>1
  <2> HIDE DEF old, new
  <2>6. Len(old) <= Len(new) /\ \A j \in 1..Len(old) : new[j] = old[j]
    <3>1. CASE IsEvent(y)
      <4>1. new = Append(old, y)
        BY <2>3, <3>1
      <4>2. Len(new) = Len(old) + 1 /\ \A j \in 1..Len(old) : new[j] = old[j]
        BY <2>4, <4>1, AppendedBytes
      <4> QED BY <2>4, <4>2
    <3>2. CASE ~IsEvent(y)
      BY <2>3, <2>4, <3>2
    <3> QED BY <3>1, <3>2
  <2>7. Len(g[k]) <= Len(new) /\ \A j \in 1..Len(g[k]) : new[j] = g[k][j]
    BY <2>4, <2>5, <2>6
  <2>8. Extends(i)
    BY <2>7 DEF new
  <2> HIDE DEF Extends
  <2> QED BY <2>1, <2>8
<1> HIDE DEF T
<1>8. \A i \in 0..m : i \in T
  BY <1>1, <1>6, <1>7, UpTo
<1>9. Extends(m)
  <2>1. m \in T
    BY <1>1, <1>8
  <2> HIDE DEF Extends
  <2> QED BY <2>1 DEF T
<1> QED BY <1>1, <1>2, <1>3, <1>4, <1>9

\* Taking the next packet sent delivers the next event sent, if it is one.
LEMMA TakingDelivers ==
  ASSUME NEW ours \in Seq(Seq(Byte)), NEW sent \in Seq(Seq(Byte)), NEW x \in Seq(Byte),
         IsPrefix(Append(ours, x), sent)
  PROVE  \/ EventsOf(Append(ours, x)) = EventsOf(ours)
         \/ /\ Len(EventsOf(ours)) < Len(EventsOf(sent))
            /\ EventsOf(Append(ours, x))
                 = Append(EventsOf(ours), EventsOf(sent)[Len(EventsOf(ours)) + 1])
<1> DEFINE more == Append(ours, x)
           before == EventsOf(ours)
           after == EventsOf(more)
<1>1. more \in Seq(Seq(Byte)) /\ IsPrefix(more, sent)
  BY AppendedBytes
<1>2. after = IF IsEvent(x) THEN Append(before, x) ELSE before
  BY EventsAppend
<1>3. before \in Seq(Seq(Byte)) /\ EventsOf(sent) \in Seq(Seq(Byte))
  BY EventsType
<1> HIDE DEF more
<1>4. Len(more) <= Len(sent) /\ \A i \in 1..Len(more) : more[i] = sent[i]
  BY <1>1, PrefixIs
<1>5. /\ Len(after) <= Len(EventsOf(sent))
      /\ \A j \in 1..Len(after) : EventsOf(sent)[j] = after[j]
  BY <1>1, <1>4, EventsPrefix
<1> HIDE DEF before, after
<1>6. CASE IsEvent(x)
  <2>1. after = Append(before, x)
    BY <1>2, <1>6
  <2>2. Len(after) = Len(before) + 1 /\ after[Len(before) + 1] = x
    BY <1>3, <2>1, AppendedBytes
  <2>3. Len(before) + 1 \in 1..Len(after) /\ Len(before) < Len(EventsOf(sent))
    BY <1>3, <1>5, <2>2
  <2>4. EventsOf(sent)[Len(before) + 1] = x
    BY <1>5, <2>2, <2>3
  <2> QED BY <2>1, <2>3, <2>4 DEF before, after, more
<1>7. CASE ~IsEvent(x)
  BY <1>2, <1>7 DEF before, after, more
<1> QED BY <1>6, <1>7

\* Of the packets a broker may send, the events are the PUBLISH packets.
LEMMA EventsArePublished ==
  ASSUME NEW p \in Packets, IsEvent(p)
  PROVE  p \in {Packet(PUBLISH, b) : b \in EventBodies}
<1>1. ASSUME NEW type \in Byte, NEW body \in Seq(Byte), Len(body) \in {1, 2}
      PROVE  Packet(type, body)[1] = type
  <2>1. Packet(type, body) = (<<type>> \o EncodeLength(Len(body))) \o body
    BY DEF Packet
  <2>2. /\ EncodeLength(Len(body)) \in Seq(Byte)
        /\ <<type>> \in Seq(Byte) /\ Len(<<type>>) = 1 /\ <<type>>[1] = type
    <3>1. Len(body) \in Nat /\ Fits(Len(body))
      BY <1>1, SmallLengthFits
    <3>2. EncodeLength(Len(body)) \in Seq(Byte)
      BY <3>1, EncodedDigits
    <3> QED BY <3>2
  <2> DEFINE h == <<type>> \o EncodeLength(Len(body))
  <2>3. h \in Seq(Byte) /\ h[1] = type /\ Len(h) >= 1
    BY <2>2
  <2> HIDE DEF h
  <2>4. (h \o body)[1] = h[1]
    BY <2>3
  <2> QED BY <2>1, <2>3, <2>4 DEF h
<1>2. CONNACK \in Byte /\ SUBACK \in Byte /\ 0 \in Byte /\ 1 \in Byte
  BY ScaleAssumption DEF Byte, CONNACK, SUBACK
<1>3. ASSUME NEW rc \in {0, 1}, p = Packet(CONNACK, <<0, rc>>) PROVE FALSE
  <2>1. <<0, rc>> \in Seq(Byte) /\ Len(<<0, rc>>) \in {1, 2}
    BY <1>2
  <2>2. p[1] = CONNACK
    BY <1>1, <1>2, <1>3, <2>1
  <2> QED BY <2>2 DEF IsEvent, CONNACK, PUBLISH
<1>4. ASSUME p = Packet(SUBACK, << 0 >>) PROVE FALSE
  <2>1. << 0 >> \in Seq(Byte) /\ Len(<< 0 >>) \in {1, 2}
    BY <1>2
  <2>2. p[1] = SUBACK
    BY <1>1, <1>2, <1>4, <2>1
  <2> QED BY <2>2 DEF IsEvent, SUBACK, PUBLISH
<1> QED BY <1>3, <1>4 DEF Packets

\* Each step of the stream is a step of EventChannel, or a stutter.
LEMMA ChannelStep ==
  ASSUME FramingInv, FramingInv', [FramingNext]_framing
  PROVE  [Channel!Next]_(Channel!vars)
<1>1. /\ written \in Seq(Packets) /\ written \in Seq(Seq(Byte))
      /\ taken \in Seq(Seq(Byte)) /\ batch \in Seq(Seq(Byte)) /\ rx \in Seq(Byte)
  BY PacketsSentAreBytes DEF FramingInv, FramingTypeOK
<1>2. IsPrefix(taken' \o batch', written') \/ phase' = "down"
  BY DEF FramingInv, FramingHolds
<1>3. ASSUME UNCHANGED <<written, taken>> PROVE UNCHANGED Channel!vars
  BY <1>3 DEF Channel!vars, Sent, Handled
<1>4. ASSUME NEW p \in Packets, BrokerSends(p) PROVE [Channel!Next]_(Channel!vars)
  <2>1. written' = Append(written, p) /\ taken' = taken
    BY <1>4 DEF BrokerSends
  <2>2. Handled' = Handled
    BY <2>1 DEF Handled
  <2>3. Sent' = IF IsEvent(p) THEN Append(Sent, p) ELSE Sent
    <3>1. p \in Seq(Byte)
      BY PacketsAreBytes
    <3> QED BY <1>1, <2>1, <3>1, EventsAppend DEF Sent
  <2>4. CASE IsEvent(p)
    <3>1. p \in {Packet(PUBLISH, b) : b \in EventBodies}
      BY <2>4, EventsArePublished
    <3>2. Channel!Send(p)
      BY <2>2, <2>3, <2>4 DEF Channel!Send
    <3> QED BY <3>1, <3>2 DEF Channel!Next
  <2>5. CASE ~IsEvent(p)
    BY <2>2, <2>3, <2>5 DEF Channel!vars
  <2> QED BY <2>4, <2>5
<1>5. CASE StartSession
  <2>1. written' = <<>> /\ taken' = <<>>
    BY <1>5 DEF StartSession
  <2>2. Sent' = <<>> /\ Handled' = <<>>
    BY <2>1, EventsNone DEF Sent, Handled
  <2> QED BY <2>2 DEF Channel!NewSession, Channel!Next
<1>6. ASSUME NEW x \in Seq(Byte), taken' = Append(taken, x), written' = written,
             IsPrefix(Append(taken, x), written)
      PROVE  [Channel!Next]_(Channel!vars)
  <2>1. /\ Sent' = Sent
        /\ Handled' = EventsOf(Append(taken, x))
    BY <1>6 DEF Sent, Handled
  <2>2. \/ Handled' = Handled
        \/ /\ Len(Handled) < Len(Sent)
           /\ Handled' = Append(Handled, Sent[Len(Handled) + 1])
    BY <1>1, <1>6, <2>1, TakingDelivers DEF Sent, Handled
  <2> QED BY <2>1, <2>2 DEF Channel!Deliver, Channel!Next, Channel!vars
<1>7. ASSUME ReadConnack \/ ReadSuback PROVE [Channel!Next]_(Channel!vars)
  <2>1. /\ phase \in {"connack", "suback"} /\ Complete(rx)
        /\ taken' = Append(taken, First(rx)) /\ written' = written
    BY <1>7 DEF ReadConnack, ReadSuback
  <2>2. batch = <<>> /\ taken \o batch = taken
    BY <1>1, <2>1 DEF FramingInv, HandshakeHasNoBatch
  <2>3. Framed(taken, rx, wire, written)
    BY <2>1, <2>2, FramingIsFramed DEF FramingInv, BytesInPlace
  <2>4. IsPrefix(Append(taken, First(rx)), written)
    BY <2>1, <2>3, TakenIsFramed DEF Framed
  <2>5. First(rx) \in Seq(Byte)
    BY <1>1, TakenApart
  <2> QED BY <1>6, <2>1, <2>4, <2>5
<1>8. CASE Dispatch
  <2>1. /\ phase = "listening" /\ batch # <<>>
        /\ taken' = Append(taken, Head(batch)) /\ batch' = Tail(batch)
        /\ written' = written
    BY <1>8 DEF Dispatch, BatchAfterDispatch
  <2>2. Head(batch) \in Seq(Byte) /\ Tail(batch) \in Seq(Seq(Byte))
    BY <1>1, <2>1, HeadTailProperties
  <2>3. IsPrefix(Append(taken, Head(batch)) \o Tail(batch), written)
    BY <1>1, <2>1, HandedOver DEF FramingInv, FramingHolds
  <2>4. IsPrefix(Append(taken, Head(batch)), written)
    <3>1. Append(taken, Head(batch)) \in Seq(Seq(Byte))
      BY <1>1, <2>2, AppendedBytes
    <3> QED BY <1>1, <2>2, <2>3, <3>1, PrefixOfPrefix
  <2> QED BY <1>6, <2>1, <2>2, <2>4
<1>9. ASSUME NEW n \in 1..Len(wire), ReceiveInHandshake(n) \/ Receive(n)
      PROVE  UNCHANGED <<written, taken>>
  BY <1>9 DEF ReceiveInHandshake, Receive
<1>10. Flush \/ Drop => UNCHANGED <<written, taken>>
  BY DEF Flush, Drop
<1>11. UNCHANGED framing => UNCHANGED <<written, taken>>
  BY DEF framing
<1> QED BY <1>3, <1>4, <1>5, <1>7, <1>8, <1>9, <1>10, <1>11 DEF FramingNext, Frame

\* The stream, its handshake included, delivers the events of a session once and
\* in order (EventChannel): those before the SUBACK too (connect, _listen_loop).
THEOREM FramingDelivers == FramingSpec => DeliversInOrder
<1>1. FramingInit => Channel!Init
  BY EventsNone DEF FramingInit, Channel!Init, Sent, Handled
<1>2. FramingInv /\ FramingInv' /\ [FramingNext]_framing => [Channel!Next]_(Channel!vars)
  BY ChannelStep
<1> QED BY <1>1, <1>2, FramingInvariance, PTL DEF FramingSpec, DeliversInOrder, Channel!Spec
=============================================================================
