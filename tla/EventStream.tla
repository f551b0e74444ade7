---------------------------- MODULE EventStream ----------------------------
(***************************************************************************)
(* The life of the MQTT event stream of one config entry: who builds it,   *)
(* who notices that it dropped, who rebuilds it, and how an unload takes it *)
(* down (coordinator.py _ensure_mqtt and its callers, mqtt.py connect,      *)
(* _listen_loop and disconnect, sse.py start and stop).                     *)
(*                                                                         *)
(* Everything runs on one asyncio loop: an action is the code between two   *)
(* awaits.  A builder is a coroutine that may be inside _ensure_mqtt: Main, *)
(* which is async_setup and then every health tick, one at a time, or one  *)
(* of the reconnect tasks.  Streams and tasks are identities of Python     *)
(* objects; one that nothing refers to any more may be used again, so the  *)
(* behaviours are unbounded although the sets are small.                   *)
(***************************************************************************)
EXTENDS Integers

CONSTANTS
  Streams,           \* identities of MQTTEventStream objects
  Tasks,             \* identities of _reconnect_mqtt_with_backoff tasks
  Main,              \* async_setup and the health ticks
  None,              \* Python's None
  Attempts,          \* len(MQTT_RECONNECT_BACKOFF)
  MalformedPackets   \* may the broker send a packet parse_publish rejects?

ASSUME ConstantsAssumption ==
  /\ Main \notin Tasks
  /\ None \notin Streams
  /\ None \notin Tasks
  /\ None # Main
  /\ Attempts \in Nat \ {0}
  /\ MalformedPackets \in BOOLEAN

Builders == Tasks \union {Main}

VARIABLES
  mqtt,           \* coordinator._mqtt
  stream,         \* what has become of each stream object
  lock,           \* the builder that holds _mqtt_lock, or None
  pc,             \* where each builder is
  building,       \* the stream a builder's connect() was called on
  attempt,        \* index of the delay a reconnect task is at
  reconnect_task, \* coordinator._reconnect_task
  cancelling,     \* tasks cancel() was called on and that have not run since
  sse,            \* coordinator._sse: "none" or "open"
  gap,            \* is _sse_resources, computed at the last SUBACK, non-empty?
  session,        \* coordinator._http_session: "open", "closing", "none"
  entry,          \* the config entry: "setup", "running", "not_ready"
  shutdown        \* where async_shutdown is

vars == <<mqtt, stream, lock, pc, building, attempt, reconnect_task,
          cancelling, sse, gap, session, entry, shutdown>>

\* "severed": disconnect() closed the socket under a handshake in progress.
\* "abandoned": the task in the handshake was cancelled, the socket is open.
\* "crashed": the listen loop died of an exception, the socket is open.
StreamState == {"down", "opening", "handshake", "severed", "abandoned",
                "listening", "crashed"}
HasSocket == {"handshake", "abandoned", "listening", "crashed"}

PendingPC  == {"sleeping", "waiting", "connecting", "syncing"}
FinishedPC == {"none", "returned", "gave_up", "cancelled"}
MainPC     == {"idle", "refreshing", "reauth"}

Pending(t) == pc[t] \in PendingPC

TypeOK ==
  /\ mqtt \in Streams \union {None}
  /\ stream \in [Streams -> StreamState]
  /\ lock \in Builders \union {None}
  /\ pc \in [Builders -> PendingPC \union FinishedPC \union MainPC]
  /\ building \in [Builders -> Streams \union {None}]
  /\ attempt \in [Tasks -> 1..Attempts]
  /\ reconnect_task \in Tasks \union {None}
  /\ cancelling \in SUBSET Tasks
  /\ sse \in {"none", "open"}
  /\ gap \in BOOLEAN
  /\ session \in {"open", "closing", "none"}
  /\ entry \in {"setup", "running", "not_ready"}
  /\ shutdown \in {"none", "reaping", "disconnecting", "stopping_sse",
                   "closing", "done", "aborted"}

\* async_setup has logged in, discovered the devices and calls _ensure_mqtt.
Init ==
  /\ mqtt = None
  /\ stream = [s \in Streams |-> "down"]
  /\ lock = None
  /\ pc = [b \in Builders |-> IF b = Main THEN "waiting" ELSE "none"]
  /\ building = [b \in Builders |-> None]
  /\ attempt = [t \in Tasks |-> 1]
  /\ reconnect_task = None
  /\ cancelling = {}
  /\ sse = "none"
  /\ gap = FALSE
  /\ session = "open"
  /\ entry = "setup"
  /\ shutdown = "none"

----------------------------------------------------------------------------
(* _ensure_mqtt, from the acquired lock to the answer its caller gets.     *)

\* The loop has no delay left to sleep for.
LastAttempt(t) == attempt[t] = Attempts

\* Mutant: the loop never comes to its last delay.
SameAttempt(t) == attempt[t]

NextAttempt(t) == attempt[t] + 1

\* What the caller does with the answer, in the same step: async_setup turns
\* False into ConfigEntryNotReady, a tick goes on to its housekeeping, the
\* reconnect loop returns, sleeps for the next delay or gives up.
Answer(b, up) ==
  /\ lock' = None
  /\ building' = [building EXCEPT ![b] = None]
  /\ \/ /\ b = Main
        /\ pc' = [pc EXCEPT ![b] = "idle"]
        /\ entry' = IF entry # "setup" THEN entry
                    ELSE IF up THEN "running" ELSE "not_ready"
        /\ UNCHANGED attempt
     \/ /\ b # Main
        /\ UNCHANGED entry
        /\ \/ /\ up
              /\ pc' = [pc EXCEPT ![b] = "returned"]
              /\ UNCHANGED attempt
           \/ /\ ~up
              /\ ~LastAttempt(b)
              /\ pc' = [pc EXCEPT ![b] = "sleeping"]
              /\ attempt' = [attempt EXCEPT ![b] = NextAttempt(b)]
           \/ /\ ~up
              /\ LastAttempt(b)
              /\ pc' = [pc EXCEPT ![b] = "gave_up"]
              /\ UNCHANGED attempt

\* A cancelled task runs nothing but the CancelledError thrown into it.
Running(b) == b \notin cancelling

MayEnter(b) == pc[b] = "waiting" /\ Running(b) /\ lock = None

\* Mutant: _mqtt is not looked at again under the lock.
NeverUp == FALSE

\* Looked at again under the lock: another builder may have been here.
AlreadyUp == mqtt # None

FindStream(b) ==
  /\ MayEnter(b)
  /\ AlreadyUp
  /\ Answer(b, TRUE)
  /\ UNCHANGED <<mqtt, stream, reconnect_task, cancelling, sse, gap, session,
                 shutdown>>

\* The other conditions of the guard (mqtt_url, user_id, token, x_cloud_ids)
\* hold ever after a setup that called _ensure_mqtt at all.
CannotBuild(b) ==
  /\ MayEnter(b)
  /\ ~AlreadyUp
  /\ session = "none"
  /\ Answer(b, FALSE)
  /\ UNCHANGED <<mqtt, stream, reconnect_task, cancelling, sse, gap, session,
                 shutdown>>

\* The handle is set before connect() is awaited: until the SUBACK, or the
\* failure, _mqtt is a half-built stream.
Build(b, s) ==
  /\ MayEnter(b)
  /\ ~AlreadyUp
  /\ session # "none"
  /\ stream[s] = "down"
  /\ \A c \in Builders : building[c] # s
  /\ mqtt' = s
  /\ stream' = [stream EXCEPT ![s] = "opening"]
  /\ lock' = b
  /\ building' = [building EXCEPT ![b] = s]
  /\ pc' = [pc EXCEPT ![b] = "connecting"]
  /\ UNCHANGED <<attempt, reconnect_task, cancelling, sse, gap, session,
                 entry, shutdown>>

\* ws_connect returns; the CONNECT and SUBSCRIBE exchanges follow.
SocketOpens(b) ==
  /\ pc[b] = "connecting"
  /\ Running(b)
  /\ session = "open"
  /\ stream[building[b]] = "opening"
  /\ stream' = [stream EXCEPT ![building[b]] = "handshake"]
  /\ UNCHANGED <<mqtt, lock, pc, building, attempt, reconnect_task,
                 cancelling, sse, gap, session, entry, shutdown>>

\* Mutant: a failed connect leaves its stream in the handle.
HandleStays == mqtt

\* A failed connect clears the handle again.
HandleAfterFailure == None

\* Refused, broken or timed out anywhere in connect().
ConnectFails(b) ==
  /\ pc[b] = "connecting"
  /\ Running(b)
  /\ stream' = [stream EXCEPT ![building[b]] = "down"]
  /\ mqtt' = HandleAfterFailure
  /\ Answer(b, FALSE)
  /\ UNCHANGED <<reconnect_task, cancelling, sse, gap, session, shutdown>>

\* Mutant: an empty gap does not stop the supplement.
NeverStopSse(g) == FALSE

\* MQTT now delivers everything and the supplement is still open.
MustStopSse(g) == ~g /\ sse = "open"

\* The SUBACK is read: the listen loop starts and _sync_sse compares what the
\* broker granted with what the devices publish.  There is no await between
\* the SUBACK and the answer, unless the supplement has to be stopped.
\* A closing session has already closed its transports; stopping the SSE task
\* takes a pass of the loop, less than the two round trips of a handshake.
SubAck(b, g) ==
  /\ pc[b] = "connecting"
  /\ Running(b)
  /\ session = "open"
  /\ shutdown # "stopping_sse"
  /\ stream[building[b]] = "handshake"
  /\ stream' = [stream EXCEPT ![building[b]] = "listening"]
  /\ UNCHANGED <<mqtt, reconnect_task, cancelling, session, shutdown>>
  /\ \/ /\ mqtt = None
        /\ UNCHANGED <<sse, gap>>
        /\ Answer(b, TRUE)
     \/ /\ mqtt # None
        /\ gap' = g
        /\ ~MustStopSse(g)
        /\ sse' = IF g THEN "open" ELSE sse
        /\ Answer(b, TRUE)
     \/ /\ mqtt # None
        /\ gap' = g
        /\ MustStopSse(g)
        /\ pc' = [pc EXCEPT ![b] = "syncing"]
        /\ UNCHANGED <<sse, lock, building, attempt, entry>>

\* The SSE task has unwound.  stop() suppresses a CancelledError, also one
\* meant for the caller, so a cancelled task takes this step too.
SseClosed(b) ==
  /\ pc[b] = "syncing"
  /\ sse' = "none"
  /\ cancelling' = cancelling \ {b}
  /\ Answer(b, TRUE)
  /\ UNCHANGED <<mqtt, stream, reconnect_task, gap, session, shutdown>>

----------------------------------------------------------------------------
(* The listen loop and the disconnect callback at its tail.                *)

\* Mutant: every drop starts a loop of its own.
NeverPending == FALSE

\* `self._reconnect_task is not None and not self._reconnect_task.done()`
ReconnectPending == reconnect_task # None /\ Pending(reconnect_task)

\* A task object to run the loop in: none that is pending.
StartReconnect(t) ==
  /\ ~Pending(t)
  /\ reconnect_task' = t
  /\ pc' = [pc EXCEPT ![t] = "sleeping"]
  /\ attempt' = [attempt EXCEPT ![t] = 1]

\* The socket of the current stream closed, failed, or was silent for 90 s.
StreamDrops(s) ==
  /\ stream[s] = "listening"
  /\ mqtt = s
  /\ stream' = [stream EXCEPT ![s] = "down"]
  /\ mqtt' = None
  /\ \/ /\ ReconnectPending
        /\ UNCHANGED <<reconnect_task, pc, attempt>>
     \/ /\ ~ReconnectPending
        /\ \E t \in Tasks : StartReconnect(t)
  /\ UNCHANGED <<lock, building, cancelling, sse, gap, session, entry,
                 shutdown>>

\* A stream that has already been replaced, unwinding late: ignored.
SupersededEnds(s) ==
  /\ stream[s] = "listening"
  /\ mqtt # s
  /\ stream' = [stream EXCEPT ![s] = "down"]
  /\ UNCHANGED <<mqtt, lock, pc, building, attempt, reconnect_task,
                 cancelling, sse, gap, session, entry, shutdown>>

\* parse_publish raises out of the loop: no callback, _running stays True.
ListenerCrashes(s) ==
  /\ MalformedPackets
  /\ stream[s] = "listening"
  /\ stream' = [stream EXCEPT ![s] = "crashed"]
  /\ UNCHANGED <<mqtt, lock, pc, building, attempt, reconnect_task,
                 cancelling, sse, gap, session, entry, shutdown>>

----------------------------------------------------------------------------
(* _reconnect_mqtt_with_backoff.                                           *)

\* The check of _mqtt takes no lock.
WakeFindsStream(t) ==
  /\ pc[t] = "sleeping"
  /\ Running(t)
  /\ mqtt # None
  /\ pc' = [pc EXCEPT ![t] = "returned"]
  /\ UNCHANGED <<mqtt, stream, lock, building, attempt, reconnect_task,
                 cancelling, sse, gap, session, entry, shutdown>>

WakeTries(t) ==
  /\ pc[t] = "sleeping"
  /\ Running(t)
  /\ mqtt = None
  /\ pc' = [pc EXCEPT ![t] = "waiting"]
  /\ UNCHANGED <<mqtt, stream, lock, building, attempt, reconnect_task,
                 cancelling, sse, gap, session, entry, shutdown>>

\* CancelledError is not an Exception: a connect() it is thrown into leaves
\* _mqtt as it is, and only the lock is given back.
CancelDelivered(t) ==
  /\ t \in cancelling
  /\ pc[t] \in {"sleeping", "waiting", "connecting"}
  /\ pc' = [pc EXCEPT ![t] = "cancelled"]
  /\ cancelling' = cancelling \ {t}
  /\ \/ /\ pc[t] = "connecting"
        /\ lock' = None
        /\ building' = [building EXCEPT ![t] = None]
        /\ stream' = [stream EXCEPT ![building[t]] =
                        IF @ = "handshake" THEN "abandoned" ELSE "down"]
     \/ /\ pc[t] # "connecting"
        /\ UNCHANGED <<lock, building, stream>>
  /\ UNCHANGED <<mqtt, attempt, reconnect_task, sse, gap, session, entry,
                 shutdown>>

----------------------------------------------------------------------------
(* The health tick, one at a time, as long as entities listen.             *)

\* Home Assistant fires the timer.  With a young token the tick goes straight
\* to _ensure_mqtt, otherwise it awaits a silent login first.
TickStarts ==
  /\ entry = "running"
  /\ pc[Main] = "idle"
  /\ shutdown = "none"
  /\ \E where \in {"waiting", "refreshing"} : pc' = [pc EXCEPT ![Main] = where]
  /\ UNCHANGED <<mqtt, stream, lock, building, attempt, reconnect_task,
                 cancelling, sse, gap, session, entry, shutdown>>

\* The login succeeded, or failed without a verdict on the credentials; a
\* verdict against them raises ConfigEntryAuthFailed, which ends the ticks.
RefreshEnds ==
  /\ pc[Main] = "refreshing"
  /\ \E where \in {"waiting", "reauth"} : pc' = [pc EXCEPT ![Main] = where]
  /\ UNCHANGED <<mqtt, stream, lock, building, attempt, reconnect_task,
                 cancelling, sse, gap, session, entry, shutdown>>

----------------------------------------------------------------------------
(* async_shutdown, after the platforms (and with them the tick's timer) of *)
(* the entry have been unloaded.  A tick already under way runs on.        *)

\* Mutant: the session is closed without stopping the supplement.
CloseSession == shutdown' = "closing" /\ session' = "closing"

\* The handle is gone: on to the SSE stream, if there is one, then the session.
StopTheRest ==
  \/ sse = "open" /\ shutdown' = "stopping_sse" /\ UNCHANGED session
  \/ sse = "none" /\ shutdown' = "closing" /\ session' = "closing"

SocketToClose == mqtt # None /\ stream[mqtt] \in HasSocket

\* From the reaped task to the next await: disconnect() of the handle.  It
\* suspends only when there is an open socket to say goodbye on.
Disconnect ==
  /\ reconnect_task' = None
  /\ \/ /\ SocketToClose
        /\ stream' = [stream EXCEPT ![mqtt] =
                        IF @ = "handshake" THEN "severed" ELSE "down"]
        /\ shutdown' = "disconnecting"
        /\ UNCHANGED <<mqtt, session>>
     \/ /\ ~SocketToClose
        /\ mqtt' = None
        /\ UNCHANGED stream
        /\ StopTheRest

Unload ==
  /\ entry = "running"
  /\ shutdown = "none"
  /\ \/ /\ ReconnectPending
        /\ cancelling' = cancelling \union {reconnect_task}
        /\ shutdown' = "reaping"
        /\ UNCHANGED <<mqtt, stream, reconnect_task, session>>
     \/ /\ ~ReconnectPending
        /\ Disconnect
        /\ UNCHANGED cancelling
  /\ UNCHANGED <<lock, pc, building, attempt, sse, gap, entry>>

\* `await self._reconnect_task` resumes, a pass of the loop after the
\* cancelled task ended.
Reaped ==
  /\ shutdown = "reaping"
  /\ cancelling = {}
  /\ Disconnect
  /\ UNCHANGED <<lock, pc, building, attempt, cancelling, sse, gap, entry>>

Disconnected ==
  /\ shutdown = "disconnecting"
  /\ mqtt' = None
  /\ StopTheRest
  /\ UNCHANGED <<stream, lock, pc, building, attempt, reconnect_task,
                 cancelling, sse, gap, entry>>

\* send_bytes on a transport that is already going down raises: the rest of
\* async_shutdown is skipped.
DisconnectRaises ==
  /\ shutdown = "disconnecting"
  /\ shutdown' = "aborted"
  /\ UNCHANGED <<mqtt, stream, lock, pc, building, attempt, reconnect_task,
                 cancelling, sse, gap, session, entry>>

SseStopped ==
  /\ shutdown = "stopping_sse"
  /\ sse' = "none"
  /\ session' = "closing"
  /\ shutdown' = "closing"
  /\ UNCHANGED <<mqtt, stream, lock, pc, building, attempt, reconnect_task,
                 cancelling, gap, entry>>

SessionClosed ==
  /\ shutdown = "closing"
  /\ session' = "none"
  /\ shutdown' = "done"
  /\ UNCHANGED <<mqtt, stream, lock, pc, building, attempt, reconnect_task,
                 cancelling, sse, gap, entry>>

----------------------------------------------------------------------------
Ensure(b) ==
  \/ FindStream(b)
  \/ CannotBuild(b)
  \/ \E s \in Streams : Build(b, s)

Connect(b) ==
  \/ SocketOpens(b)
  \/ ConnectFails(b)
  \/ \E g \in BOOLEAN : SubAck(b, g)
  \/ SseClosed(b)

Listen(s) == StreamDrops(s) \/ SupersededEnds(s) \/ ListenerCrashes(s)

Reconnect(t) == WakeFindsStream(t) \/ WakeTries(t) \/ CancelDelivered(t)

Shutdown ==
  Unload \/ Reaped \/ Disconnected \/ DisconnectRaises \/ SseStopped
    \/ SessionClosed

Next ==
  \/ \E b \in Builders : Ensure(b) \/ Connect(b)
  \/ \E s \in Streams : Listen(s)
  \/ \E t \in Tasks : Reconnect(t)
  \/ TickStarts
  \/ RefreshEnds
  \/ Shutdown

Spec == Init /\ [][Next]_vars

\* What asyncio and the timers guarantee: a coroutine that can go on goes on,
\* a sleep ends, the tick's timer fires, and a closed session's sockets die.
Scheduling ==
  /\ \A b \in Builders : WF_vars(Ensure(b)) /\ WF_vars(SseClosed(b))
  /\ \A t \in Tasks : WF_vars(Reconnect(t))
  /\ WF_vars(TickStarts)
  /\ WF_vars(RefreshEnds)
  /\ WF_vars(Reaped \/ Disconnected \/ SseStopped \/ SessionClosed)
  /\ \A s \in Streams :
       WF_vars(session # "open" /\ (StreamDrops(s) \/ SupersededEnds(s)))

\* What the network does for us: no connect() hangs for ever (the broker
\* answers, or the connection breaks; the code sets no timeout), and a broker
\* that is asked again and again lets a connection through.
Network ==
  /\ \A b \in Builders : WF_vars(Connect(b))
  /\ SF_vars(\E b \in Builders : SocketOpens(b))
  /\ SF_vars(\E b \in Builders, g \in BOOLEAN : SubAck(b, g))

FairSpec == Spec /\ Scheduling /\ Network

----------------------------------------------------------------------------
(* Properties.                                                             *)

Up == mqtt # None /\ stream[mqtt] = "listening"

\* At most one stream is ever heard, and it is the one the coordinator knows
\* of: however the tick and the reconnect tasks interleave, none of them
\* leaves an orphan listening in the background (the reason _mqtt_lock is
\* there), until an unload begins.
NoOrphanListener ==
  shutdown = "none" =>
    \A s \in Streams : stream[s] \in {"listening", "crashed"} => mqtt = s

\* A half-built stream is in _mqtt only while the coroutine that builds it is
\* still in connect() with the lock: no later caller can take a stream that
\* never came up for one that is up.
HalfBuiltIsOwned ==
  (shutdown = "none" /\ mqtt # None /\ stream[mqtt] \notin {"listening", "crashed"})
    => \E b \in Builders :
         lock = b /\ building[b] = mqtt /\ pc[b] = "connecting"

\* Drops during a backoff do not stack: never two reconnect loops at a time
\* (_handle_mqtt_disconnect's check of the task it kept), until an unload.
NoStackedReconnects ==
  shutdown = "none" =>
    \A t, u \in Tasks : Pending(t) /\ Pending(u) => t = u

\* With a stream up and nobody reconciling it, the SSE supplement is open
\* exactly when the broker's latest verdict leaves a resource uncovered: SSE
\* only ever carries what MQTT cannot, and always carries that.
SseFillsTheGap ==
  (shutdown = "none" /\ Up /\ lock = None) => (sse = "open" <=> gap)

\* Once the HTTP session is being closed no SSE loop is left, nor is one
\* started later: it would reconnect for ever on a closed session.
NoSseOnClosedSession == session # "open" => sse = "none"

\* A stream that is not up comes back: after every drop, failed connect and
\* exhausted backoff, while the entry is loaded and its ticks run.  Only a
\* listen loop that died of a malformed packet stays dead: its stream is still
\* in _mqtt, so every later tick takes it for one that is up.
StreamComesBack ==
  (entry = "running" /\ ~Up) ~>
    \/ Up
    \/ shutdown # "none"
    \/ pc[Main] = "reauth"
    \/ \E s \in Streams : stream[s] = "crashed"

Quiet ==
  /\ \A s \in Streams : stream[s] # "listening"
  /\ \A t \in Tasks : ~Pending(t)
  /\ pc[Main] \in {"idle", "reauth"}

\* After a shutdown that ran to its end everything comes to rest for good:
\* no stream listens, no reconnect loop goes on, no tick is stuck.
ShutdownQuiesces == [](shutdown = "done" => <>[]Quiet)

\* A dropped socket reconnects on its own backoff rather than waiting out a
\* 30-minute tick: the stream is never down, with nobody about to build it,
\* unless a reconnect loop is pending or has used up all its delays.
DropIsRetried ==
  (entry = "running" /\ shutdown = "none" /\ mqtt = None) =>
    \/ \E b \in Builders : pc[b] \in {"waiting", "connecting", "syncing"}
    \/ \E t \in Tasks : pc[t] \in {"sleeping", "gave_up"}
=============================================================================
