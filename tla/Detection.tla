----------------------------- MODULE Detection -----------------------------
(***************************************************************************)
(* The person, vehicle and animal sensors of one camera.  A motion event   *)
(* is stored before its media are downloaded, inside the MQTT loop, and     *)
(* published to the entities after; meanwhile every other broadcast of the *)
(* coordinator (the SSE stream, the periodic tick, another camera) already *)
(* shows it to the sensors (coordinator.py _handle_feed, _archive_media,   *)
(* _cache_image_bytes, _push_to_entities; binary_sensor.py DetectionSensor).*)
(*                                                                         *)
(* Arlo names every event with a key of its own; a key nothing refers to   *)
(* any more names the next event.                                          *)
(***************************************************************************)
EXTENDS Integers, Sequences

CONSTANTS
  Categories,  \* one sensor each
  Keys,        \* event.feed_id, or its date
  None,        \* Python's None
  Timeout,     \* CONF_DETECTION_TIMEOUT, in units of time
  MaxQueue     \* bound: events that wait for the MQTT loop

Event == [key : Keys, categories : SUBSET Categories]

ASSUME ConstantsAssumption ==
  /\ None \notin Keys /\ None \notin Event
  /\ Timeout \in Nat \ {0}
  /\ MaxQueue \in Nat

VARIABLES
  queue,    \* events the stream has brought, waiting for the MQTT loop
  stage,    \* what the handler of the last event awaits, "idle" when it is done
  motion,   \* motion_events[device_id]
  seen,     \* _last_seen_event_key of each sensor
  on,       \* _attr_is_on of each sensor
  timers,   \* the reset tasks of each sensor, by the time each has left to sleep
  age,      \* time since each sensor last acted on an event, up to Timeout
  acts,     \* how often each sensor has acted on `motion`, up to 2
  cut       \* the handler of `motion` raised before its broadcast

vars == <<queue, stage, motion, seen, on, timers, age, acts, cut>>

sensors == <<seen, on, timers, age, acts>>

TypeOK ==
  /\ queue \in Seq(Event)
  /\ stage \in {"idle", "clip", "image", "thumbnail"}
  /\ motion \in Event \union {None}
  /\ seen \in [Categories -> Keys \union {None}]
  /\ on \in [Categories -> BOOLEAN]
  /\ timers \in [Categories -> SUBSET (0..Timeout)]
  /\ age \in [Categories -> 0..Timeout]
  /\ acts \in [Categories -> 0..2]
  /\ cut \in BOOLEAN

Init ==
  /\ queue = <<>>
  /\ stage = "idle"
  /\ motion = None
  /\ seen = [c \in Categories |-> None]
  /\ on = [c \in Categories |-> FALSE]
  /\ timers = [c \in Categories |-> {}]
  /\ age = [c \in Categories |-> Timeout]
  /\ acts = [c \in Categories |-> 0]
  /\ cut = FALSE

----------------------------------------------------------------------------
(* The sensors.                                                            *)

\* Mutant: the guard is the sensor's own state.
OffNow(c, event) == ~on[c]

IsNew(c, event) == event.key # seen[c]

\* Mutant: only the first category counts.
FirstCategory(event) ==
  {c \in event.categories : c = CHOOSE d \in event.categories : TRUE}

CategoriesOf(event) == event.categories

\* _handle_coordinator_update gets past its returns.
Acting(event) ==
  IF event = None THEN {} ELSE {c \in CategoriesOf(event) : IsNew(c, event)}

\* Mutants: the pending reset is left to run; or not replaced once cancelled.
NotCancelled(c) == timers[c] \union {Timeout}
OnlyCancelled(c) == IF timers[c] = {} THEN {Timeout} ELSE {}

\* _schedule_reset cancels the pending task and creates another.
Rescheduled(c) == {Timeout}

\* _push_to_entities, given the motion event the sensors find and how often
\* each has acted on it.
Push(event, count) ==
  LET acting == Acting(event)
      Upd(f, g(_)) == [c \in Categories |-> IF c \in acting THEN g(c) ELSE f[c]]
  IN  /\ seen' = Upd(seen, LAMBDA c : event.key)
      /\ on' = Upd(on, LAMBDA c : TRUE)
      /\ timers' = Upd(timers, Rescheduled)
      /\ age' = Upd(age, LAMBDA c : 0)
      /\ acts' = Upd(count, LAMBDA c : IF count[c] = 0 THEN 1 ELSE 2)

Slept(t) == IF t = 0 THEN 0 ELSE t - 1

\* Time passes for the reset tasks and for the record of how long ago a sensor
\* acted.  A task that is due may run late.
Elapse ==
  /\ \E c \in Categories : timers[c] # {} \/ age[c] < Timeout
  /\ timers' = [c \in Categories |-> {Slept(t) : t \in timers[c]}]
  /\ age' = [c \in Categories |-> IF age[c] = Timeout THEN Timeout ELSE age[c] + 1]
  /\ UNCHANGED <<queue, stage, motion, seen, on, acts, cut>>

\* _reset wakes up.
Reset(c) ==
  /\ 0 \in timers[c]
  /\ on' = [on EXCEPT ![c] = FALSE]
  /\ timers' = [timers EXCEPT ![c] = @ \ {0}]
  /\ UNCHANGED <<queue, stage, motion, seen, age, acts, cut>>

----------------------------------------------------------------------------
(* The MQTT loop and what runs beside it.                                  *)

InUse ==
  {queue[i].key : i \in DOMAIN queue} \union {seen[c] : c \in Categories}
    \union (IF motion = None THEN {} ELSE {motion.key})

Arrive(categories) ==
  /\ Len(queue) < MaxQueue
  /\ Keys \ InUse # {}
  /\ queue' = Append(queue, [key |-> CHOOSE k \in Keys \ InUse : TRUE,
                             categories |-> categories])
  /\ UNCHANGED <<stage, motion, cut, sensors>>

\* The handler awaits its next download, or publishes the event, found in
\* `event`, when nothing is left to wait for.  Both media are optional.
Proceed(next, event, count) ==
  /\ stage' = next
  /\ IF next = "idle" THEN Push(event, count)
     ELSE acts' = count /\ UNCHANGED <<seen, on, timers, age>>

\* Mutant: the handlers of a batch do not wait for each other.
Concurrently == TRUE

PreviousIsDone == stage = "idle"

\* _handle_feed up to its first await.
StartHandling(next) ==
  /\ PreviousIsDone
  /\ queue # <<>>
  /\ queue' = Tail(queue)
  /\ motion' = Head(queue)
  /\ cut' = FALSE
  /\ Proceed(next, motion', [c \in Categories |-> 0])

\* A download ends; one that fails is logged and ends all the same.
MediaDone(next) ==
  /\ \/ stage = "clip" /\ next \in {"image", "idle"}
     \/ stage = "image" /\ next = "thumbnail"
     \/ stage = "thumbnail" /\ next = "idle"
  /\ Proceed(next, motion, acts)
  /\ UNCHANGED <<queue, motion, cut>>

\* _ensure_dir raises before _archive_media's own try: _handle_feed catches it,
\* past the broadcast.
StorageFails ==
  /\ stage \in {"clip", "thumbnail"}
  /\ stage' = "idle"
  /\ cut' = TRUE
  /\ UNCHANGED <<queue, motion, sensors>>

\* Anything else that broadcasts, at any time.
OtherPush ==
  /\ Acting(motion) # {}
  /\ Push(motion, acts)
  /\ UNCHANGED <<queue, stage, motion, cut>>

----------------------------------------------------------------------------
Handle ==
  \/ \E next \in {"clip", "image", "idle"} : StartHandling(next)
  \/ \E next \in {"image", "thumbnail", "idle"} : MediaDone(next)

Next ==
  \/ \E categories \in SUBSET Categories : Arrive(categories)
  \/ Handle
  \/ StorageFails
  \/ OtherPush
  \/ Elapse
  \/ \E c \in Categories : Reset(c)

Spec == Init /\ [][Next]_vars

\* Downloads end (aiohttp gives up after five minutes), time passes and tasks
\* that are due run.
FairSpec ==
  /\ Spec
  /\ WF_vars(Handle)
  /\ WF_vars(Elapse)
  /\ \A c \in Categories : WF_vars(Reset(c))

----------------------------------------------------------------------------
(* Properties.                                                             *)

\* "Act once per real event": no broadcast, however many come while the event is
\* the last one, makes a sensor act on it again after its reset.
ActsOnce == \A c \in Categories : acts[c] <= 1

\* An event is replaced by the next one only after each of its sensors has acted
\* on it, unless its handler raised.
MissedOnlyIfCut ==
  [][motion' # motion /\ motion # None /\ ~cut
       => \A c \in motion.categories : acts[c] = 1]_vars

\* A sensor stays on for the whole timeout after the last event it acted on: the
\* reset of an earlier one never ends it.
WholeWindow == \A c \in Categories : age[c] < Timeout => on[c]

\* No sensor stays on for ever without new events.
DetectionEnds == \A c \in Categories : []<>(~on[c] \/ age[c] = 0)

\* While events wait or are handled there is always a later moment at which each
\* sensor of the last one has acted on it, unless storage fails.
ActedOnInTheEnd ==
  (queue # <<>> \/ stage # "idle")
    ~> \/ cut
       \/ motion # None /\ \A c \in motion.categories : acts[c] = 1
=============================================================================
