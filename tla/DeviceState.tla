---------------------------- MODULE DeviceState ----------------------------
(***************************************************************************)
(* What the coordinator knows of the devices behind an old-style base      *)
(* station, and of the station's reachability: three sources that overlap  *)
(* (what the hub publishes once this session has registered with it, its   *)
(* answer when asked, and the REST device list), and the one coroutine,    *)
(* async_setup and then every health tick, that registers, asks and reads  *)
(* the list again (coordinator.py _bring_up_base_stations,                 *)
(* _refresh_device_properties, _merge_device_state and the handlers of the *)
(* hub's frames).                                                          *)
(*                                                                         *)
(* An action is the code between two awaits.  The hub and Arlo's cloud are *)
(* external and modelled from what the code sends them and expects back.   *)
(* A property of a device has two values: what matters is whether the      *)
(* value shown is the one that holds.                                      *)
(***************************************************************************)
EXTENDS Integers, Sequences

CONSTANTS
  Fields,     \* properties of the devices behind the hub
  Pushed,     \* those the hub publishes when they change
  Reported,   \* those its answer to {action: get, resource: devices} carries
  Listed,     \* those the REST device list carries
  None,       \* Python's None
  MaxFeed     \* bound: frames on their way over the event stream

ASSUME ConstantsAssumption ==
  /\ Pushed \subseteq Fields
  /\ Reported \subseteq Fields
  /\ Listed \subseteq Fields
  /\ None \notin BOOLEAN
  /\ None \notin {"available", "unavailable"}
  /\ MaxFeed \in Nat \ {0}

VARIABLES
  actual,     \* what holds at the devices
  reachable,  \* does the hub answer the cloud?
  registered, \* does the hub publish to this session? (the lease expires)
  asked,      \* a pull the hub has neither answered nor ignored
  cloud,      \* the properties in the list the cloud would give out
  up,         \* is the event stream up?
  feed,       \* frames published to the stream and not yet handled
  device_states,           \* coordinator.device_states, by property
  basestation_connection,  \* the hub's entry of that dict
  fresh,      \* was the last bring-up within BASE_STATION_RENEW_INTERVAL?
  main,       \* where async_setup and the ticks are
  answer,     \* the device list on its way back, or None
  excused     \* published ones it may show wrong: see WrongOnlyIfExcused

hub    == <<actual, reachable, registered, asked, cloud>>
stream == <<up, feed>>
known  == <<device_states, basestation_connection>>
vars   == <<hub, stream, known, fresh, main, answer, excused>>

Reachability == IF reachable THEN "available" ELSE "unavailable"

MaybeLink == {"available", "unavailable", None}
Blocks    == UNION {[D -> BOOLEAN] : D \in SUBSET Fields}
Frames    == [block : Blocks, link : MaybeLink]
Lost      == [lost |-> TRUE]

\* The awaits of async_setup, and those of a tick.
Steps == {"setup", "setup register", "setup pull", "setup list",
          "tick", "register", "pull", "list"}
Rest  == {"idle", "not_ready", "stopped"}

TypeOK ==
  /\ actual \in [Fields -> BOOLEAN]
  /\ reachable \in BOOLEAN
  /\ registered \in BOOLEAN
  /\ asked \in BOOLEAN
  /\ cloud \in [Listed -> BOOLEAN]
  /\ up \in BOOLEAN
  /\ feed \in Seq(Frames)
  /\ device_states \in [Fields -> BOOLEAN \union {None}]
  /\ basestation_connection \in MaybeLink
  /\ fresh \in BOOLEAN
  /\ main \in Steps \union Rest
  /\ answer \in Frames \union {Lost, None}
  /\ excused \in SUBSET Pushed

\* A new coordinator knows nothing.
Unknown == [f \in Fields |-> None]

Init ==
  /\ actual \in [Fields -> BOOLEAN]
  /\ reachable \in BOOLEAN
  /\ registered = FALSE
  /\ asked = FALSE
  /\ cloud \in [Listed -> BOOLEAN]
  /\ up = FALSE
  /\ feed = << >>
  /\ device_states = Unknown
  /\ basestation_connection = None
  /\ fresh = FALSE
  /\ main = "setup"
  /\ answer = None
  /\ excused = {}

----------------------------------------------------------------------------
(* Folding a block of properties into what is known.                       *)

\* Mutant: the block replaces what was known.
Replace(block) ==
  [f \in Fields |-> IF f \in DOMAIN block THEN block[f] ELSE None]

\* Mutant: a value once known is kept.
FirstWins(block) ==
  [f \in Fields |->
     IF f \in DOMAIN block /\ device_states[f] = None THEN block[f]
                                                       ELSE device_states[f]]

Merge(block) ==
  [f \in Fields |-> IF f \in DOMAIN block THEN block[f] ELSE device_states[f]]

\* connection_state of a block, when it has one.
Link(link) == IF link = None THEN basestation_connection ELSE link

Carried(frames) == UNION {DOMAIN frames[i].block : i \in DOMAIN frames}

\* A frame is published: the broker holds it for a stream that is up.
Publish(frame) ==
  IF up THEN Len(feed) < MaxFeed /\ feed' = Append(feed, frame)
        ELSE UNCHANGED feed

----------------------------------------------------------------------------
(* The hub and the cloud.                                                  *)

\* A property changes; the hub publishes it to a session it knows.
DeviceChanges(f) ==
  LET published == f \in Pushed /\ registered /\ reachable
  IN  /\ actual' = [actual EXCEPT ![f] = ~@]
      /\ IF published
         THEN Publish([block |-> [g \in {f} |-> ~actual[f]], link |-> None])
         ELSE UNCHANGED feed
      /\ excused' = IF published /\ up THEN excused \ {f}
                    ELSE excused \union ({f} \intersect Pushed)
      /\ UNCHANGED <<reachable, registered, asked, cloud, up,
                     known, fresh, main, answer>>

HubComesOrGoes ==
  /\ reachable' = ~reachable
  /\ UNCHANGED <<actual, registered, asked, cloud, stream, known,
                 fresh, main, answer, excused>>

\* The registration lapses; it outlives the pull it was made for.
RegistrationExpires ==
  /\ registered
  /\ main \in Rest
  /\ ~asked
  /\ registered' = FALSE
  /\ UNCHANGED <<actual, reachable, asked, cloud, stream, known,
                 fresh, main, answer, excused>>

\* The hub answers a pull, with what its devices report; its own entry
\* carries its connectionState.
HubAnswers ==
  /\ asked /\ reachable /\ registered
  /\ asked' = FALSE
  /\ Publish([block |-> [f \in Reported |-> actual[f]], link |-> "available"])
  /\ excused' = IF up THEN excused \ Reported ELSE excused
  /\ UNCHANGED <<actual, reachable, registered, cloud, up, known,
                 fresh, main, answer>>

\* Asked by a session that has not registered, it does not answer.
HubIgnores ==
  /\ asked
  /\ ~(reachable /\ registered)
  /\ asked' = FALSE
  /\ UNCHANGED <<actual, reachable, registered, cloud, stream,
                 known, fresh, main, answer, excused>>

\* The cloud's copy of a property catches up with the hub's.
CloudCopies(f) ==
  /\ reachable
  /\ cloud[f] # actual[f]
  /\ cloud' = [cloud EXCEPT ![f] = actual[f]]
  /\ UNCHANGED <<actual, reachable, registered, asked, stream,
                 known, fresh, main, answer, excused>>

\* basestation/is, with connectionState, or the subscription's ack.  Bound:
\* one at a time, when nothing else is on its way.
HubSpeaks ==
  /\ up /\ registered /\ reachable
  /\ feed = << >>
  /\ Publish([block |-> [f \in {} |-> TRUE], link |-> "available"])
  /\ UNCHANGED <<hub, up, known, fresh, main, answer, excused>>

----------------------------------------------------------------------------
(* The event stream (EventStream has its life in detail).                  *)

\* _handle_camera_state, _handle_sensor_state, _handle_devices_response,
\* _handle_basestation or _handle_subscription_ack: none of them awaits.
Dispatch ==
  /\ feed # << >>
  /\ LET frame == Head(feed)
     IN  /\ device_states' = Merge(frame.block)
         /\ basestation_connection' = Link(frame.link)
         /\ excused' = excused \ {f \in DOMAIN frame.block :
                                    /\ frame.block[f] = actual[f]
                                    /\ f \notin Carried(Tail(feed))}
  /\ feed' = Tail(feed)
  /\ UNCHANGED <<hub, up, fresh, main, answer>>

\* What was on its way is gone.
StreamDrops ==
  /\ up
  /\ up' = FALSE
  /\ feed' = << >>
  /\ excused' = excused \union (Carried(feed) \intersect Pushed)
  /\ UNCHANGED <<hub, known, fresh, main, answer>>

\* The reconnect loop.
StreamReconnects ==
  /\ ~up
  /\ main \notin {"setup", "not_ready"}
  /\ up' = TRUE
  /\ UNCHANGED <<hub, feed, known, fresh, main, answer, excused>>

----------------------------------------------------------------------------
(* async_setup and the health ticks.                                       *)

SettingUp == main \in {"setup register", "setup pull", "setup list"}

\* The step this one continues with, of async_setup or of a tick.
Then(step) ==
  main' = IF ~SettingUp THEN step
          ELSE CASE step = "pull" -> "setup pull"
                 [] step = "list" -> "setup list"

\* _ensure_mqtt came up: on to the bring-up, whose first statement is the
\* timestamp.
SetupConnects ==
  /\ main = "setup"
  /\ up' = TRUE
  /\ main' = "setup register"
  /\ fresh' = TRUE
  /\ UNCHANGED <<hub, feed, known, answer, excused>>

\* It did not, or the login was not answered: ConfigEntryNotReady.  Any other
\* exception, or ConfigEntryAuthFailed, ends the setup for good.
SetupFails ==
  /\ main = "setup"
  /\ main' \in {"not_ready", "stopped"}
  /\ UNCHANGED <<hub, stream, known, fresh, answer, excused>>

\* A new coordinator starts over.
StartOver ==
  /\ main' = "setup"
  /\ up' = FALSE
  /\ feed' = << >>
  /\ device_states' = Unknown
  /\ basestation_connection' = None
  /\ fresh' = FALSE
  /\ answer' = None
  /\ excused' = {}
  /\ UNCHANGED hub

RetrySetup == main = "not_ready" /\ StartOver

\* A reload, or Home Assistant dies and comes back.
Restart == main \notin {"setup", "not_ready"} /\ StartOver

\* Mutant: only the first bring-up registers.
NeverRenew == TRUE

\* _maybe_renew_base_stations: no bring-up within the interval of another.
SkipRenewal == fresh

\* Home Assistant's next refresh, half an hour after the end of the last:
\* longer than the interval, and than a hub takes to answer.
TickDue ==
  /\ main = "idle"
  /\ ~asked
  /\ main' = "tick"
  /\ fresh' = FALSE
  /\ UNCHANGED <<hub, stream, known, answer, excused>>

\* The first part of a tick: token refresh, _ensure_mqtt (what it answers is
\* not looked at), then the renewal if it is due.
TickGoesOn ==
  /\ main' = IF SkipRenewal THEN "list" ELSE "register"
  /\ fresh' = TRUE
  /\ UNCHANGED <<hub, feed, known, answer, excused>>

TickRuns == main = "tick" /\ up' = TRUE /\ TickGoesOn

TickConnectFails == main = "tick" /\ ~up /\ UNCHANGED up /\ TickGoesOn

\* ConfigEntryAuthFailed from the refresh: Home Assistant schedules no more.
TickAuthFails ==
  /\ main = "tick"
  /\ ~fresh
  /\ main' = "stopped"
  /\ UNCHANGED <<hub, stream, known, fresh, answer, excused>>

AtRegister == main \in {"setup register", "register"}

\* The hub took the registration, which also says that it is there.
RegisterSucceeds ==
  /\ AtRegister
  /\ reachable
  /\ registered' = TRUE
  /\ basestation_connection' = "available"
  /\ Then("pull")
  /\ UNCHANGED <<actual, reachable, asked, cloud, stream,
                 device_states, fresh, answer, excused>>

\* Mutant: the failure leaves the connectivity as it was.
KeepStatus == basestation_connection

StatusAfterFailure == "unavailable"

\* register_event_subscription raised: no pull.
NoRegistration ==
  /\ AtRegister
  /\ basestation_connection' = StatusAfterFailure
  /\ Then("list")
  /\ UNCHANGED <<actual, reachable, asked, cloud, stream,
                 device_states, fresh, answer, excused>>

RegisterRefused == ~reachable /\ UNCHANGED registered /\ NoRegistration

\* The request failed on the way there, or its answer on the way back.
RegisterLost == reachable /\ registered' \in {registered, TRUE} /\ NoRegistration

AtPull == main \in {"setup pull", "pull"}

PullSucceeds ==
  /\ AtPull
  /\ reachable
  /\ asked' = TRUE
  /\ Then("list")
  /\ UNCHANGED <<actual, reachable, registered, cloud, stream,
                 known, fresh, answer, excused>>

\* request_device_states raised: logged.
NoPull ==
  /\ AtPull
  /\ Then("list")
  /\ UNCHANGED <<hub, stream, known, fresh, answer, excused>>

PullRefused == ~reachable /\ NoPull
PullLost    == reachable /\ NoPull

AtList == main \in {"setup list", "list"}

\* The cloud reads the list it will answer with; the hub's own entry may
\* carry its connectionState.
ListRead ==
  /\ AtList
  /\ answer = None
  /\ \E link \in {None, Reachability} :
       answer' = [block |-> cloud, link |-> link]
  /\ UNCHANGED <<hub, stream, known, fresh, main, excused>>

ListLost ==
  /\ AtList
  /\ answer = None
  /\ answer' = Lost
  /\ UNCHANGED <<hub, stream, known, fresh, main, excused>>

\* After the last step of async_setup comes the first refresh.
Finish == main' = IF main = "setup list" THEN "tick" ELSE "idle"

\* The list arrives, after whatever was handled while it was on its way.
ListArrives ==
  /\ answer \notin {Lost, None}
  /\ device_states' = Merge(answer.block)
  /\ basestation_connection' = Link(answer.link)
  /\ excused' = (excused \ (DOMAIN answer.block \ Carried(feed)))
                  \union {f \in DOMAIN answer.block \intersect Pushed :
                            answer.block[f] # actual[f]}
  /\ answer' = None
  /\ Finish
  /\ UNCHANGED <<hub, stream, fresh>>

\* get_devices raised: logged.
ListFailed ==
  /\ answer = Lost
  /\ answer' = None
  /\ Finish
  /\ UNCHANGED <<hub, stream, known, fresh, excused>>

----------------------------------------------------------------------------

\* What may go wrong or change, as often as it likes.
Environment ==
  \/ \E f \in Fields : DeviceChanges(f)
  \/ HubComesOrGoes
  \/ StreamDrops
  \/ SetupFails
  \/ Restart
  \/ TickConnectFails
  \/ TickAuthFails
  \/ RegisterLost
  \/ PullLost
  \/ ListLost

HubOrCloud ==
  \/ HubAnswers
  \/ HubIgnores
  \/ \E f \in Listed : CloudCopies(f)

Coordinator ==
  \/ SetupConnects
  \/ RetrySetup
  \/ TickDue
  \/ TickRuns
  \/ RegisterSucceeds
  \/ RegisterRefused
  \/ PullSucceeds
  \/ PullRefused
  \/ ListRead
  \/ ListArrives
  \/ ListFailed

Next ==
  \/ Environment
  \/ HubOrCloud
  \/ Coordinator
  \/ Dispatch
  \/ StreamReconnects
  \/ RegistrationExpires
  \/ HubSpeaks

Spec == Init /\ [][Next]_vars

\* The coroutine goes on, frames are handled, ticks come, Home Assistant
\* retries a setup that is not ready, a dropped stream is rebuilt, the hub
\* answers who it knows and the cloud's copy follows the hub's.
FairSpec ==
  /\ Spec
  /\ WF_vars(Coordinator)
  /\ WF_vars(Dispatch)
  /\ WF_vars(StreamReconnects)
  /\ SF_vars(HubAnswers)
  /\ WF_vars(HubIgnores)
  /\ \A f \in Listed : WF_vars(CloudCopies(f))
----------------------------------------------------------------------------
(* What it is for.                                                         *)

\* A published property is shown wrong only while a frame that carries it is
\* on its way, or because the coordinator could not have been told: the last
\* change was not published or its frame was lost with the stream, or the
\* device list was older than the frames handled while it travelled.
WrongOnlyIfExcused ==
  \A f \in Pushed :
    \/ device_states[f] \in {None, actual[f]}
    \/ f \in excused
    \/ f \in Carried(feed)

\* Frames and lists are partial; what one of them leaves out is not lost.
\* Only a new coordinator starts from nothing (issue #24).
NothingForgotten ==
  [][main' # "setup" =>
       \A f \in Fields : device_states[f] # None => device_states'[f] # None]_vars

\* Once nothing changes, drops or fails any more, all that the hub publishes,
\* reports or has listed comes to be shown as it is, whatever was lost
\* before, and although registrations lapse between ticks; unless the ticks
\* have ended with a refused login (issues #24 and #27).
InSync == \A f \in Pushed \union Reported \union Listed :
            device_states[f] = actual[f]

CatchesUp ==
  <>[][~Environment]_vars =>
    <>[](main = "stopped" \/ (reachable => InSync))

\* Likewise the connectivity sensor settles on whether the hub is there.
StatusSettles ==
  <>[][~Environment]_vars =>
    <>[](\/ main = "stopped"
         \/ basestation_connection = Reachability)
=============================================================================
