----------------------------- MODULE LiveView -----------------------------
(***************************************************************************)
(* One camera's live view: the egress URL Arlo mints for a session, the    *)
(* Home Assistant Stream built around it, the viewers who ask for either,  *)
(* and the task that keeps the last frame when Arlo ends the session       *)
(* (camera.py stream_source, async_create_stream,                          *)
(* _handle_coordinator_update, _cache_last_stream_frame).                  *)
(*                                                                         *)
(* A URL is identified with the Arlo session it was minted for.  A viewer  *)
(* is either go2rtc, which asks stream_source for the URL, or the HLS      *)
(* player, which asks async_create_stream for a Stream.  Home Assistant's  *)
(* own async_create_stream is external: under a lock of its own it builds  *)
(* a Stream if there is none and returns the one there is.                 *)
(***************************************************************************)
EXTENDS FiniteSets, Integers

CONSTANTS
  Viewers,    \* requests that may be in progress together
  Kinds,      \* which viewers the house has: a subset of {"go2rtc", "hls"}
  Sessions,   \* identities of Arlo sessions, and of their URLs
  Streams,    \* identities of Stream objects
  None        \* Python's None

ASSUME IdentitiesAssumption ==
  /\ None \notin Viewers
  /\ None \notin Sessions
  /\ None \notin Streams
  /\ Kinds \subseteq {"go2rtc", "hls"}
  \* identities are never exhausted by what refers to them
  /\ IsFiniteSet(Streams) /\ Streams # {}
  /\ IsFiniteSet(Sessions) => Cardinality(Sessions) > Cardinality(Streams) + 1

VARIABLES
  arlo,         \* the session Arlo has running, or None
  idle_due,     \* a session has ended and its "idle" is yet to be delivered
  streaming,    \* _attr_is_streaming
  ended,        \* sessions the camera has been told are over
  last_url,     \* the URL in _last_url
  fresh,        \* is it younger than STREAM_URL_REUSE_SECONDS?
  stream,       \* Camera.stream
  source,       \* the URL each Stream was built around
  keeping,      \* Streams whose last frame a task is fetching and archiving
  pc,           \* where each viewer is
  stream_lock,  \* holder of _stream_lock
  create_lock   \* holder of Camera's lock around building a Stream

vars == <<arlo, idle_due, streaming, ended, last_url, fresh, stream, source,
          keeping, pc, stream_lock, create_lock>>

camera == <<arlo, idle_due, streaming, ended>>
locks  == <<stream_lock, create_lock>>

TypeOK ==
  /\ arlo \in Sessions \union {None}
  /\ idle_due \in BOOLEAN
  /\ streaming \in BOOLEAN
  /\ ended \in SUBSET Sessions
  /\ last_url \in Sessions \union {None}
  /\ fresh \in BOOLEAN
  /\ stream \in Streams \union {None}
  /\ source \in [Streams -> Sessions \union {None}]
  /\ keeping \in SUBSET Streams
  /\ pc \in [Viewers -> {"idle", "stopping", "creating", "source", "starting"}]
  /\ stream_lock \in Viewers \union {None}
  /\ create_lock \in Viewers \union {None}

Init ==
  /\ arlo = None
  /\ idle_due = FALSE
  /\ streaming = FALSE
  /\ ended = {}
  /\ last_url = None
  /\ fresh = FALSE
  /\ stream = None
  /\ source = [s \in Streams |-> None]
  /\ keeping = {}
  /\ pc = [v \in Viewers |-> "idle"]
  /\ stream_lock = None
  /\ create_lock = None

----------------------------------------------------------------------------
(* Arlo, and what its MQTT events tell the camera, in their order.         *)

SessionEnds ==
  /\ arlo # None
  /\ arlo' = None
  /\ idle_due' = TRUE
  /\ UNCHANGED <<streaming, ended, last_url, fresh, stream, source, keeping,
                 pc, locks>>

\* userStreamActive.  A session may well end without it.
TellActive ==
  /\ arlo # None
  /\ ~idle_due
  /\ ~streaming
  /\ streaming' = TRUE
  /\ UNCHANGED <<arlo, idle_due, ended, last_url, fresh, stream, source,
                 keeping, pc, locks>>

\* Bound: the tasks that may be in progress at once are one fewer than the
\* Streams, so there always is a Stream to build.
KeepingBound == Cardinality(keeping \union ({stream} \ {None})) < Cardinality(Streams)

\* Mutant: the guard `self.stream is not None` is missing.
StreamUnchecked == {stream}

\* `self.stream is not None`
StreamThereIs == {stream} \ {None}

\* idle.  On the way from streaming to idle a task is created for the Stream
\* there is, if there is one; it runs to its first await at once.
TellIdle ==
  /\ idle_due
  /\ KeepingBound
  /\ idle_due' = FALSE
  /\ streaming' = FALSE
  /\ IF streaming
     THEN /\ ended' = Sessions \ {arlo}
          /\ keeping' = keeping \union StreamThereIs
     ELSE UNCHANGED <<ended, keeping>>
  /\ UNCHANGED <<arlo, last_url, fresh, stream, source, pc, locks>>

\* STREAM_URL_REUSE_SECONDS have passed since the URL was minted.
WindowCloses ==
  /\ fresh
  /\ fresh' = FALSE
  /\ UNCHANGED <<camera, last_url, stream, source, keeping, pc, locks>>

----------------------------------------------------------------------------
(* Viewers.                                                                *)

Reusable == last_url # None /\ fresh

\* _stream_session_is_over
SessionIsOver == stream # None /\ ~streaming /\ ~Reusable

OpenGo2rtc(v) ==
  /\ "go2rtc" \in Kinds
  /\ pc[v] = "idle"
  /\ pc' = [pc EXCEPT ![v] = "source"]
  /\ UNCHANGED <<camera, last_url, fresh, stream, source, keeping, locks>>

\* async_create_stream: a Stream that has outlived its URL is refused; its
\* stop() is awaited before Home Assistant is asked for another.
OpenHls(v) ==
  /\ "hls" \in Kinds
  /\ pc[v] = "idle"
  /\ \/ /\ SessionIsOver
        /\ stream' = None
        /\ source' = [s \in Streams |-> IF s \in keeping THEN source[s] ELSE None]
        /\ pc' = [pc EXCEPT ![v] = "stopping"]
     \/ /\ ~SessionIsOver
        /\ UNCHANGED <<stream, source>>
        /\ pc' = [pc EXCEPT ![v] = "creating"]
  /\ UNCHANGED <<camera, last_url, fresh, keeping, locks>>

Stopped(v) ==
  /\ pc[v] = "stopping"
  /\ pc' = [pc EXCEPT ![v] = "creating"]
  /\ UNCHANGED <<camera, last_url, fresh, stream, source, keeping, locks>>

\* Home Assistant, under its lock: the Stream there is, or else a source.
CreateStream(v) ==
  /\ pc[v] = "creating"
  /\ create_lock = None
  /\ \/ /\ stream # None
        /\ pc' = [pc EXCEPT ![v] = "idle"]
        /\ UNCHANGED create_lock
     \/ /\ stream = None
        /\ create_lock' = v
        /\ pc' = [pc EXCEPT ![v] = "source"]
  /\ UNCHANGED <<camera, last_url, fresh, stream, source, keeping, stream_lock>>

\* Any Stream nothing refers to any more: they are all alike.
NewStream == CHOOSE s \in Streams : s \notin keeping \union {stream}

\* stream_source answers v with a URL, or with None.  Home Assistant, if it
\* was the one who asked (it then holds its lock for v), builds the Stream in
\* the same step.
Answer(v, url) ==
  /\ pc' = [pc EXCEPT ![v] = "idle"]
  /\ \/ /\ create_lock = v
        /\ create_lock' = None
        /\ \/ /\ url = None
              /\ UNCHANGED <<stream, source>>
           \/ /\ url # None
              /\ stream' = NewStream
              /\ source' = [source EXCEPT ![NewStream] = url]
     \/ /\ create_lock # v
        /\ UNCHANGED <<stream, source, create_lock>>

\* Mutant: no lock around the reuse check and the start_stream it guards.
NoSourceLock == TRUE

\* async with self._stream_lock
SourceLockFree == stream_lock = None

\* Inside the reuse window: the URL the first of the pair of requests got.
ReuseUrl(v) ==
  /\ pc[v] = "source"
  /\ SourceLockFree
  /\ Reusable
  /\ Answer(v, last_url)
  /\ UNCHANGED <<camera, last_url, fresh, keeping, stream_lock>>

AskArlo(v) ==
  /\ pc[v] = "source"
  /\ SourceLockFree
  /\ ~Reusable
  /\ stream_lock' = v
  /\ pc' = [pc EXCEPT ![v] = "starting"]
  /\ UNCHANGED <<camera, last_url, fresh, stream, source, keeping, create_lock>>

\* A session nothing refers to any more.
Unused(n) == n # last_url /\ \A s \in Streams : source[s] # n

\* start_stream answers with the URL of the session that is running, or wakes
\* the camera for a new one.
Started(v) ==
  /\ pc[v] = "starting"
  /\ LET n == IF arlo = None THEN CHOOSE m \in Sessions : Unused(m) ELSE arlo
     IN  /\ arlo' = n
         /\ ended' = ended \ {n}
         /\ last_url' = n
         /\ Answer(v, n)
  /\ fresh' = TRUE
  /\ stream_lock' = None
  /\ UNCHANGED <<idle_due, streaming, keeping>>

\* Mutant: a start that fails keeps the lock.
LockKept == stream_lock

LockAfterFailure == None

\* The exception is logged, the viewer gets no URL.
StartFails(v) ==
  /\ pc[v] = "starting"
  /\ stream_lock' = LockAfterFailure
  /\ Answer(v, None)
  /\ UNCHANGED <<camera, last_url, fresh, keeping>>

----------------------------------------------------------------------------
(* _cache_last_stream_frame: the frame is fetched and archived, then the   *)
(* Stream is dropped, and the URL with it, if it still is the camera's.    *)

\* Mutant: whatever Stream there is now is dropped.
AnyStream(s) == TRUE

\* `self.stream is stream`, looked at again after the awaits.
StillCurrent(s) == stream = s

FrameKept(s) ==
  /\ s \in keeping
  /\ keeping' = keeping \ {s}
  /\ \/ /\ StillCurrent(s)
        /\ stream' = None
        /\ last_url' = None
     \/ /\ ~StillCurrent(s)
        /\ UNCHANGED <<stream, last_url>>
  /\ source' = [source EXCEPT ![s] = None]
  /\ UNCHANGED <<camera, fresh, pc, locks>>

----------------------------------------------------------------------------
Source(v) ==
  \/ ReuseUrl(v)
  \/ AskArlo(v)

ArloAnswers(v) == StartFails(v) \/ Started(v)

Open(v) == OpenGo2rtc(v) \/ OpenHls(v)

Next ==
  \/ SessionEnds
  \/ TellActive
  \/ TellIdle
  \/ WindowCloses
  \/ \E v \in Viewers :
       Open(v) \/ Stopped(v) \/ CreateStream(v) \/ Source(v) \/ ArloAnswers(v)
  \/ \E s \in Streams : FrameKept(s)

Spec == Init /\ [][Next]_vars

\* A request to Arlo comes back, stop() returns, and both locks serve their
\* waiters in the order they came (asyncio.Lock is first in, first out).
FairSpec ==
  /\ Spec
  /\ \A v \in Viewers :
       /\ WF_vars(Stopped(v))
       /\ SF_vars(CreateStream(v))
       /\ SF_vars(Source(v))
       /\ WF_vars(ArloAnswers(v))

----------------------------------------------------------------------------
(* Properties.                                                             *)

\* The pair of requests a live view opens with never becomes two start_stream
\* calls: while one is outstanding no URL is there that would have answered
\* it, so the second request waited for the first (issue #33's 4006).
NoSecondStart == \A v \in Viewers : pc[v] = "starting" => ~Reusable

\* A Stream is dropped only if the camera saw it there when a session ended,
\* or has neither of the two signs of life: a task that comes back late with
\* the last frame of one Stream never takes down the one built since.
OnlyFinishedStreamsDropped ==
  [][(stream # None /\ stream' # stream) =>
       stream \in keeping \/ (~streaming /\ ~Reusable)]_vars

\* Every viewer gets an answer, past both locks.
ViewersServed == \A v \in Viewers : pc[v] # "idle" ~> pc[v] = "idle"

\* "Cleared outright when Arlo ends the session, because the URL dies with
\* it": no viewer is handed a URL whose session the camera knows to be over,
\* neither out of the reuse window nor inside a Stream built around it.
NoDeadUrlHandedOut ==
  [][\A v \in Viewers :
       /\ ReuseUrl(v) => last_url \notin ended
       /\ (CreateStream(v) /\ stream # None) => source[stream] \notin ended]_vars
=============================================================================
