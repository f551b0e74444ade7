----------------------------- MODULE Supplement -----------------------------
(***************************************************************************)
(* The two carriers of one account's events.  The MQTT broker delivers the *)
(* resources it granted at the last SUBACK; the rest, the gap, is taken    *)
(* from Arlo's SSE endpoint, which carries everything (coordinator.py      *)
(* _sync_sse and _handle_sse_event, and the loop of sse.py).  Each carrier *)
(* has a loop of its own that awaits the handler of one event before it    *)
(* takes the next, and connections of its own that come and go.            *)
(*                                                                         *)
(* An action is the code between two awaits.  Events are numbered in the   *)
(* order they are published.  EventStream has the life of the MQTT stream  *)
(* itself; here it is down, waiting for the SUBACK to be read, or up.      *)
(***************************************************************************)
EXTENDS Integers, Sequences

CONSTANTS
  Resources,   \* cameras/<id>, doorbells/<id>, sensors/<id>
  MaxEvents,   \* bound: events published
  None         \* Python's None

Events == 1..MaxEvents

ASSUME ConstantsAssumption ==
  /\ MaxEvents \in Nat
  /\ None \notin Events

VARIABLES
  about,         \* the resource of each event
  sent,          \* how many events have been published
  link,          \* the MQTT stream: "down", "subscribed" or "up"
  granted,       \* the resources the broker delivers on this connection
  queue,         \* events the broker has delivered, not yet handled
  sse_resources, \* coordinator._sse_resources: the gap
  sse,           \* coordinator._sse: None, "open", or "stopping" (in stop())
  loop,          \* the task of the SSE stream
  delivered,     \* has this SSE session carried a frame?
  frames,        \* events the SSE connection carries, not yet read
  handling,      \* the event the SSE loop awaits the handlers of, or None
  handled,       \* the events whose handlers ran, in that order
  moot           \* events no carrier was settled on: see OnceAndInOrder

mqtt_vars == <<link, granted, queue>>
sync_vars == <<sse_resources, sse>>
sse_vars  == <<loop, delivered, frames, handling>>
history   == <<about, sent>>
vars      == <<history, mqtt_vars, sync_vars, sse_vars, handled, moot>>

LoopState == {"none", "connecting", "reading", "pausing"}

TypeOK ==
  /\ about \in [Events -> Resources]
  /\ sent \in 0..MaxEvents
  /\ link \in {"down", "subscribed", "up"}
  /\ granted \in SUBSET Resources
  /\ queue \in Seq(Events)
  /\ sse_resources \in SUBSET Resources
  /\ sse \in {None, "open", "stopping"}
  /\ loop \in LoopState
  /\ delivered \in BOOLEAN
  /\ frames \in Seq(Events)
  /\ handling \in Events \union {None}
  /\ handled \in Seq(Events)
  /\ moot \in SUBSET Events

Init ==
  /\ about \in [Events -> Resources]
  /\ sent = 0
  /\ link = "down"
  /\ granted = {}
  /\ queue = << >>
  /\ sse_resources = {}
  /\ sse = None
  /\ loop = "none"
  /\ delivered = FALSE
  /\ frames = << >>
  /\ handling = None
  /\ handled = << >>
  /\ moot = {}

Elements(s) == {s[i] : i \in DOMAIN s}

----------------------------------------------------------------------------
(* Arlo publishes.                                                         *)

Connected == loop = "reading"

\* Is there a carrier for the resource, and one that will stay its carrier
\* until somebody connects again?
Settled(r) == IF r \in sse_resources THEN Connected /\ link # "subscribed"
                                     ELSE link = "up"

\* The next event goes to the broker, which delivers it if it granted the
\* resource, and to the SSE connection if there is one.
Publish ==
  LET e == sent + 1 IN
  /\ sent < MaxEvents
  /\ sent' = e
  /\ queue' = IF link # "down" /\ about[e] \in granted THEN Append(queue, e)
                                                       ELSE queue
  /\ frames' = IF Connected THEN Append(frames, e) ELSE frames
  /\ moot' = IF Settled(about[e]) THEN moot ELSE moot \union {e}
  /\ UNCHANGED <<about, link, granted, sync_vars, loop, delivered, handling,
                 handled>>

----------------------------------------------------------------------------
(* The MQTT stream.                                                        *)

\* connect(): the broker has subscribed this session and has answered, with a
\* verdict that may differ from the last one.  What the SSE connection still
\* carries was published under that.  The lock keeps a second builder out
\* while the first is in _sync_sse.
BrokerSubscribes ==
  /\ link = "down"
  /\ sse # "stopping"
  /\ link' = "subscribed"
  /\ granted' \in SUBSET Resources
  /\ moot' = moot \union Elements(frames)
                  \union (IF handling = None THEN {} ELSE {handling})
  /\ UNCHANGED <<history, queue, sync_vars, sse_vars, handled>>

\* Mutant: the resources are fixed when the supplement is opened.
FirstGap(gap) == IF sse = None THEN gap ELSE sse_resources

\* _set_sse_resources, whatever becomes of the stream.
NewResources(gap) == gap

\* _sse_gap_resources
Gap == Resources \ granted

\* The SUBACK is read and _sync_sse runs: with no gap an open supplement is
\* stopped, with one a supplement that is not there is started.
SubackRead ==
  LET gap == Gap IN
  /\ link = "subscribed"
  /\ link' = "up"
  /\ sse_resources' = NewResources(gap)
  /\ IF gap = {} /\ sse # None
     THEN /\ sse' = "stopping"
          /\ UNCHANGED loop
     ELSE IF gap # {} /\ sse = None
     THEN /\ sse' = "open"
          /\ loop' = "connecting"
     ELSE UNCHANGED <<sse, loop>>
  /\ UNCHANGED <<history, granted, queue, delivered, frames, handling,
                 handled, moot>>

\* The listen loop, or connect() with what raced ahead of the SUBACK, runs the
\* handlers of a packet.
MqttHandles ==
  /\ queue # << >>
  /\ queue' = Tail(queue)
  /\ handled' = Append(handled, Head(queue))
  /\ UNCHANGED <<history, link, granted, sync_vars, sse_vars, moot>>

\* The connection is lost with whatever it still carried.
MqttDrops ==
  /\ link # "down"
  /\ link' = "down"
  /\ granted' = {}
  /\ queue' = << >>
  /\ moot' = moot \union Elements(queue)
  /\ UNCHANGED <<history, sync_vars, sse_vars, handled>>

----------------------------------------------------------------------------
(* SSEEventStream.                                                         *)

\* A cancelled task runs nothing but the CancelledError thrown into it.
Runs == sse = "open"

\* Mutant: the handle outlives the task.
KeepHandle == "open"

AfterStop == None

\* stop(): the task is cancelled at its await, also inside a handler, and
\* _sync_sse clears the handle.
SseStopped ==
  /\ sse = "stopping"
  /\ sse' = AfterStop
  /\ loop' = "none"
  /\ frames' = << >>
  /\ handling' = None
  /\ delivered' = FALSE
  /\ UNCHANGED <<history, mqtt_vars, sse_resources, handled, moot>>

\* _read_session gets its response; Arlo greets with a frame of its own, or
\* not.
SseConnects ==
  /\ Runs
  /\ loop = "connecting"
  /\ loop' = "reading"
  /\ delivered' \in BOOLEAN
  /\ UNCHANGED <<history, mqtt_vars, sync_vars, frames, handling, handled, moot>>

\* No response, or not a 200.
SseRefused ==
  /\ Runs
  /\ loop = "connecting"
  /\ loop' = "pausing"
  /\ UNCHANGED <<history, mqtt_vars, sync_vars, delivered, frames, handling,
                 handled, moot>>

\* asyncio.sleep on the backoff; how long is left out.
SsePauseEnds ==
  /\ Runs
  /\ loop = "pausing"
  /\ loop' = "connecting"
  /\ UNCHANGED <<history, mqtt_vars, sync_vars, delivered, frames, handling,
                 handled, moot>>

\* Mutant: every frame of the account is let in.
Everything(e) == TRUE

FillsGap(e) == about[e] \in sse_resources

\* _handle_sse_event: a frame outside the gap is dropped unseen, for one in
\* it the handlers are awaited.
SseReads ==
  /\ Runs
  /\ loop = "reading"
  /\ handling = None
  /\ frames # << >>
  /\ frames' = Tail(frames)
  /\ handling' = IF FillsGap(Head(frames)) THEN Head(frames) ELSE None
  /\ delivered' = TRUE
  /\ UNCHANGED <<history, mqtt_vars, sync_vars, loop, handled, moot>>

SseHandled ==
  /\ Runs
  /\ handling # None
  /\ handled' = Append(handled, handling)
  /\ handling' = None
  /\ UNCHANGED <<history, mqtt_vars, sync_vars, loop, delivered, frames, moot>>

\* The session is over for the loop, and the frames behind this point with it.
SessionOver ==
  /\ Runs
  /\ loop = "reading"
  /\ handling = None
  /\ frames' = << >>
  /\ moot' = moot \union Elements(frames)
  /\ delivered' = FALSE
  /\ UNCHANGED <<history, mqtt_vars, sync_vars, handling, handled>>

\* A read that failed, whatever the session had carried.
SseBreaks == SessionOver /\ loop' = "pausing"

\* Arlo's logout: reconnect at once.
SseLoggedOut == SessionOver /\ loop' = "connecting"

\* Closed by the server: at once only after a session that carried something.
SseEnds ==
  /\ SessionOver
  /\ loop' = IF delivered THEN "connecting" ELSE "pausing"

\* Nothing came for the read timeout: at once.
SseTimesOut ==
  /\ frames = << >>
  /\ SessionOver
  /\ loop' = "connecting"

----------------------------------------------------------------------------

Next ==
  \/ Publish
  \/ BrokerSubscribes
  \/ SubackRead
  \/ MqttHandles
  \/ MqttDrops
  \/ SseStopped
  \/ SseConnects
  \/ SseRefused
  \/ SsePauseEnds
  \/ SseReads
  \/ SseHandled
  \/ SseBreaks
  \/ SseLoggedOut
  \/ SseEnds
  \/ SseTimesOut

Spec == Init /\ [][Next]_vars

\* Code that is ready to run runs, a stream that is down is rebuilt, and the
\* endpoint does not refuse the supplement for ever.
FairSpec ==
  /\ Spec
  /\ WF_vars(BrokerSubscribes)
  /\ WF_vars(SubackRead)
  /\ WF_vars(MqttHandles)
  /\ WF_vars(SseStopped)
  /\ SF_vars(SseConnects)
  /\ WF_vars(SsePauseEnds)
  /\ WF_vars(SseReads)
  /\ WF_vars(SseHandled)

----------------------------------------------------------------------------
(* What it is for.                                                         *)

\* An event published while its carrier was settled, and which that carrier
\* did not lose and no SUBACK overtook, is handled exactly once, by either
\* loop, and in the order of its resource (issue #38: SSE must only ever
\* carry what MQTT cannot).
Pending(e) ==
  IF about[e] \in sse_resources THEN e \in Elements(frames) \/ e = handling
                                ELSE e \in Elements(queue)

OnceAndInOrder ==
  /\ \A e \in 1..sent \ moot : e \in Elements(handled) \/ Pending(e)
  /\ \A i, j \in DOMAIN handled :
       (/\ i < j
        /\ about[handled[i]] = about[handled[j]]
        /\ {handled[i], handled[j]} \intersect moot = {})
       => handled[i] < handled[j]

\* The handlers of such an event do run, unless its connection is lost.
EventuallyHandled ==
  \A e \in Events : (e <= sent /\ e \notin moot)
                      ~> (e \in Elements(handled) \/ e \in moot)

\* As long as the broker leaves a gap the supplement keeps reading, whatever
\* ends its sessions; once the broker leaves none, it is closed for good.
FollowsTheVerdict ==
  /\ <>[](link = "up" /\ granted # Resources) => []<>Connected
  /\ <>[](link = "up" /\ granted = Resources) => <>[](loop = "none")
=============================================================================
