# A TLA+ model of the Eisenberg integration

Eisenberg connects Arlo cameras to Home Assistant: a client library
(`eisenberg/`: REST, MQTT over WebSocket, SSE) and the integration that uses it
(`custom_components/eisenberg/`: a coordinator per config entry, the entities,
the config flow). Everything runs on one asyncio loop, so there are no data
races, but every `await` is a point where any other coroutine may run. What is
hard about this code is there: state that is read before an `await` and used
after it, two coroutines in one function, answers and events that cross, tasks
that outlive what they were started for.

An action of these modules is the code between two awaits.

## Inventory

| Component | State it keeps | Operations | Talks to | What makes it correct |
|---|---|---|---|---|
| Event stream life cycle (`coordinator.py` `_ensure_mqtt`, `_reconnect_mqtt_with_backoff`, `_handle_mqtt_disconnect`, `_sync_sse`, `async_shutdown`; `mqtt.py` `connect`, `_listen_loop`, `disconnect`) | `_mqtt`, `_mqtt_lock`, `_reconnect_task`, `_sse`, `_sse_resources`, `_http_session` | build, drop, back off, supplement, unload | broker; SSE loop; the tick | one stream, one builder, one backoff loop; a lost stream comes back; an unload leaves nothing running |
| Framing and dispatch (`mqtt_codec.py`, `mqtt.py` `_read_packet`, `_drain_buffer`, `_dispatch_packet`) | `_rx_buffer` | cut packets out of frames, call handlers in order | WebSocket below, handlers above | no byte lost or read twice; each event once, in order |
| Arlo session (`coordinator.py` `call_with_session_retry`, `_login_silent`, `_mark_auth_dead`, `_async_update_data`; `client.py` `login`) | `client.token`, `_auth_is_dead`, the reauth flow | command, silent login, token refresh, block | Arlo REST; Home Assistant's reauth | no login storm; a blocked user has been asked; a block is lifted |
| Live view (`camera.py`) | `_last_url`, `_stream_lock`, `stream`, `_attr_is_streaming`, last-frame tasks | open, start, reuse, end, keep the last frame | Arlo `startStream`; Home Assistant's Stream and lock | one `start_stream` per view; no dead URL; a late task drops nothing new |
| Security modes (`coordinator.py` `async_set_active_mode`, `_apply_mode`, the mode handlers; `client.py` `set_active_mode`, `get_active_mode`) | `LocationState.active_mode`, `mode_revision` | command with revision and one retry, events | Arlo's revision check; other clients | revisions never ahead; a retry fails for known reasons only; no mode out of nowhere |
| Detection (`coordinator.py` `_handle_feed`, `_archive_media`, `_push_to_entities`; `binary_sensor.py`) | `motion_events`, `_last_seen_event_key`, `_attr_is_on`, `_reset_task` | feed event, broadcast, reset | MQTT loop; archive; every other broadcast | once per event; the whole timeout; never stuck on |
| Config flow (`config_flow.py`) | client, cookie jar, factor, code; the entry | setup, reauth, reconfigure | user; Arlo's login and MFA; Home Assistant's flow manager | sessions are closed; only proven credentials are stored; the trust cookie survives |
| SSE supplement (`sse.py`; `coordinator.py` `_sync_sse`, `_sse_gap_resources`, `_handle_sse_event`) | `_sse`, `_sse_resources`, task, failures | read, reconnect, back off, start, stop | Arlo SSE; the SUBACK | each event by one carrier, once, in order; it follows the latest verdict |
| Base stations, device state (`coordinator.py` `_bring_up_base_stations`, `_refresh_device_properties`, `_merge_device_state`, the hub's handlers) | `basestation_connection`, `device_states`, `_last_base_bringup` | register, renew, pull, merge | REST, MQTT, the hub | nothing known is forgotten; what was lost is caught up with; connectivity settles |
| Images and archive (`coordinator.py`, `camera.py`) | `image_bytes`, `latest_thumbnails`, files | snapshot, thumbnail, last frame, prune, seed | MQTT loop, Arlo's storage | the newest image is shown |
| Entry life cycle (`__init__.py`) | the entry's state | setup, unload, reload | all of the above | a failed setup leaves nothing behind |
| Entities that mirror a value, options flow, models, constants, scripts | – | – | – | not modelled |

How they interact. The MQTT loop awaits the handlers one by one, so a slow
handler delays every later event; handlers change the coordinator's maps and
broadcast to all entities. The SSE loop and the 30-minute tick run beside it and
broadcast too. Commands of entities go through `call_with_session_retry`, which
may log in and so end the session (and SSE stream) of everybody else. A dropped
stream calls back into the coordinator, which starts the backoff loop; that loop
and the tick meet in `_ensure_mqtt`. A dead session starts the reauth flow,
whose end reloads the entry: unload, then setup.

The hard behaviours, each at its line with the properties that watch it, are
the `hazards` of `PROJECT.json`.

## Modules

A module `M` has `MCM` (small constants) and `M.cfg`; `MProofs` has the theorems
about it (those about `PacketStream` follow those about `EventStream` in
`EventStreamProofs`: the connection, then what it carries). A definition whose comment begins with "Mutant" is a plausible bug: it
has the parameters of the definition that follows it and is used to see that a
property would notice.

**EventStream** – `_mqtt` and everything that writes it. Builders are `Main`
(`async_setup`, then each tick) and the reconnect tasks; `pc` says at which
await each one is (`waiting` for the lock, `connecting`, `syncing` the SSE
supplement, `sleeping` a backoff). `FindStream`, `CannotBuild`, `Build`,
`SocketOpens`, `ConnectFails`, `SubAck`, `SseClosed` are the pieces of
`_ensure_mqtt` with `connect()` and `_sync_sse`; `StreamDrops`,
`SupersededEnds`, `ListenerCrashes` are the ways a listen loop ends; `Unload` to
`SessionClosed` is `async_shutdown`, with the path where `disconnect()` raises.
Streams and tasks are identities of Python objects; one that nothing refers to
is used again, so behaviours are unbounded.
Assumption: a SUBACK that arrives while an unload stops SSE or closes the
session finds its socket still good.

**PacketStream**, **EventChannel** – the bytes of one stream. Varints are scaled
to `Base` and `MaxDigits`; a frame is any non-empty piece of what is on the wire,
so it cuts wherever it likes. `Shifted` is the loop of
`_encode_remaining_length`, `TakeOne` a turn of the loop of `split_packets`, both as
recursive functions. `ReceiveInHandshake`, `ReadConnack`, `ReadSuback`
are `connect()`'s use of `_read_packet`; `Flush`, `Receive`, `Dispatch` the listen
loop. `EventChannel` is the abstract promise: events handled once, in order,
within a session; `DeliversInOrder` is the refinement.

**ArloSession** – the token, abstracted to what Arlo thinks of it (good, stale,
not yet verified), the callers of `call_with_session_retry`, the tick, and
`client.login` in its three stages, each with its answers. Nothing serialises
them: two logins run together. `dialog` is a flow of Home Assistant, of either
kind, in which the user can log in; Home Assistant starts no reauth beside one.
`DialogCloses` is every abort of the flow and the user's dismissal: neither
reaches the coordinator, so `declined` remembers it. `ConfigFlow` has those
dialogs in detail.

**LiveView** – one camera. Arlo's session, the two MQTT events that tell of it,
viewers of go2rtc and of HLS, the reuse window, both locks, Home Assistant's
Stream (with the URL it was built around) and the last-frame tasks (`keeping`).

**ModeSync** – Arlo's mode and revision of each location, what the coordinator
believes, commands (`put`, refusal, `get`, second `put`, the login in between),
events in order, other clients. `Locations` are the account's, `Relevant` the ones
the coordinator keeps, `Strays` those with a device whose gateway no kept location
claims: `LocationsForDevice` is `location_for_device` with its fallback to the first
location. `ServeGet` answers with Arlo's revision or with 0, which is what
`get_active_mode` makes of an error body; `outdated` remembers the commands whose
fetched revision is not, or no longer, Arlo's.

**Detection** – one camera's sensors. `StartHandling` stores the event and runs
to the first download; `MediaDone` to the next one or to the broadcast;
`StorageFails` is `mkdir` raising outside `_archive_media`'s `try`; `OtherPush` any
other broadcast; `Elapse` and `Reset` are the reset tasks. A stream that drops does
not cut a handler short: its loop finishes the batch. Only an unload cancels it,
and takes the sensors along. Which media an event carries is a choice of the
step. `acts`, `age` and `cut` record what happened.

**ConfigFlow** – dialogs of either kind on the one entry. A dialog is a record:
the form it shows, the request it awaits, client, jar, factor and code. Each
exception of `login`, `start_mfa` and `try_finish_auth` is an answer:
`RateLimitedError`, `AuthenticationError` (which a session that myapi rejects is,
too), or one no step catches, after which Home Assistant leaves the form up.

**DeviceState** – what the coordinator knows of the devices behind one base
station, from three sources that overlap: what the hub publishes once this
session has registered with it (`Pushed`), its answer when asked (`Reported`),
the REST device list (`Listed`). `main` is the one coroutine that registers, asks
and reads the list: `async_setup` (`SetupConnects`, and `SetupFails` with
`RetrySetup` or for good) and then every tick (`TickDue`, `TickRuns`, `TickConnectFails`,
`TickAuthFails`). `Register*`, `Pull*` and `List*` are the awaits of
`_bring_up_base_stations` and `_refresh_device_properties` with their answers; the
list is read by the cloud in one step and merged in a later one, so frames may be
handled in between. `Dispatch` is any handler of the hub's frames, `Merge` and
`Link` what it does. `excused` remembers for which published properties the
coordinator could not have been told: `WrongOnlyIfExcused` says that there is no
other reason for a wrong value.

**Supplement** – the two carriers of one account's events. `BrokerSubscribes` and
`SubackRead` are the verdict and `_sync_sse`, which may start or stop the SSE
stream and always replaces `_sse_resources`; `Sse*` are the loop of `sse.py`, each
with the way its session ends (`SseBreaks`, `SseLoggedOut`, `SseEnds`,
`SseTimesOut`) and whether it goes on at once. Both loops await the handlers of
one event before they take the next. `moot` remembers the events no carrier was
settled on: published with no connection, in flight on one that broke, or
overtaken by a SUBACK.

External, modelled from how the code uses them: the broker, Arlo's REST
services and second factors, the base station and the cloud's copy of its state,
Home Assistant's flow manager, Stream and coordinator timer.

## Runs

| Run | Instance | Shows |
|---|---|---|
| `EventStream` | 3 streams, 2 tasks, 2 delays, malformed packets | safety of the handle, the loop and SSE; `StreamComesBack`, `ShutdownQuiesces` |
| `EventStreamDropIsRetried` | same, no malformed packets | violation: a drop nobody retries |
| `PacketStream` | varints of 2 ternary digits, 4 packets a session, events of 1 and 3 bytes | framing, order, liveness, refinement of `EventChannel` |
| `ArloSession` | 2 callers and the tick | a blocked user has a flow or ended one, asked for once; calls end; a block is lifted |
| `LiveView` | 2 viewers of either kind, 4 sessions, 2 Streams | one start, late tasks harmless, viewers served |
| `LiveViewGo2rtcDeadUrl` | go2rtc only | violation: a dead URL out of the reuse window |
| `ModeSync` | 2 commands, another client, 2 locations, one behind an unclaimed gateway | revisions, second refusals, modes shown, commands end |
| `ModeSyncOutOfSync` | 1 command, another client, 1 location | violation: the select keeps an older mode |
| `Detection` | 2 sensors, 4 keys, 1 event waiting, timeout 2 | once per event, missed only when cut, windows, resets |
| `ConfigFlow` | 2 dialogs, 2 passwords | clients, sessions closed, stored credentials, trust cookie |
| `DeviceState` | 1 published and listed property, 1 only reported, 2 frames | wrong only if it could not be told; nothing forgotten; catches up |
| `Supplement` | 2 resources, 3 events, any sequence of verdicts | each event once and in order; the supplement follows the verdict |

The type invariant of most modules is left out of their runs: `TypeCorrect` is
proved. TLC checks those of `LiveView`, which says that an unused identity is
always found, and of `PacketStream`, which says that the codec stays within bytes.

Why the bounds are enough. Three streams are one in the handle, one superseded
and one being built; two tasks are the loop that is kept and one that should not
be. Two callers and the tick are three concurrent logins. A view opens with two
requests; two Streams let one be kept by a last-frame task while the next is
built (`KeepingBound`), four sessions are what those, the URL and Arlo can refer
to. In `ModeSync` a first fetch that failed leaves the revision 1, Arlo is at 2
(`StartRevisions`) and counts once (`LastRevisions`) for the one location that
changes in a behaviour: enough for a refusal, a retry with either revision and an
overtaking change. Commands are about `l1` (`Commanded`), which alone may have
missed its first fetch (`MayFail`); `l2`, kept like it, is the one whose standard
modes and unnamed events might end up there. Both start in the same mode
(`StartModes`), so that one may be given a mode it has not had. `MaxPending` bounds
changes published and not handled. `MaxQueue` and the keys of
`Detection` are one event in the handler, one behind it and one that each sensor
remembers. Four packets of `PacketStream` are a CONNACK, an event before and one
after the SUBACK. In `DeviceState` one property has both sources that can contradict each
other and the other one only the pull, which is what a missed renewal costs; two
frames (`MaxFeed`) are one that corrects and one behind it, and the frames that
say no more than "the hub is there" come one at a time (`HubSpeaks`). Three events
in `Supplement` are one being handled, one behind it on the same connection, and
one that a new verdict sends the other way; with two resources the SSE
connection stays open for one while the other changes its carrier. How long a
pause is, tokens and headers are left out.

`CHECK_DEADLOCK FALSE` is said of `EventStream`, where an unloaded entry really
stops; of `DeviceState`, where a refused login ends the ticks; and of `Supplement`,
where the events that are published are bounded.

Fairness, and why the code justifies it. A coroutine that can go on does, a sleep
ends, the tick's timer fires: asyncio's loop. `asyncio.Lock` is first in, first
out, hence strong fairness for its waiters in `LiveView`. Requests come back,
because aiohttp gives up after five minutes by default. Two assumptions are about
the network and not the code: the handshake's `receive()` has no timeout, so
"no `connect()` hangs for ever" is an assumption (`Network` in `EventStream`); and a
broker or an Arlo that is asked for ever sometimes answers (hence the strong
fairness of `SseConnects`). Convergence in `DeviceState` is conditional:
`<>[][~Environment]_vars => <>[]...` says that once nothing changes, drops or fails
any more, what is shown becomes right and stays so, from whatever was lost
before. `HubAnswers` has strong fairness, since a registered, reachable hub that is
asked does answer; a registration may lapse at any time the coordinator is at
rest and no answer is due. A setup that ended for good or ticks that ended with a
refused login are excepted (`main = "stopped"`): then nothing runs.

## What is proved

With TLAPS, for every value of the constants that meets each module's named
assumptions:

- `EventStreamProofs`: the type invariant; `NoOrphanListener`, `HalfBuiltIsOwned`,
  `NoStackedReconnects`, `SseFillsTheGap` from one inductive invariant, `IInv`;
  `NoSseOnClosedSession` from one of its own. None of the four is inductive:
  that no orphan listens depends on who holds the lock. `IInv` says that whoever
  is in `connect()` holds the lock and owns the handle (`ConnectingOwns`), that
  the lock is held across an await only (`LockInUse`), that only the stream in the
  handle is alive (`HandleAlive`), that a pending loop is the one kept
  (`LoopIsKept`) and that SSE agrees with the verdict unless somebody is closing it
  (`SupplementAgrees`), all of a loaded entry.
- `ArloSessionProofs`: the type invariant, `BlockIsTold`, `ToldOnce`, for any number
  of callers. `BlockIsTold` is what the code keeps and not more: a session whose
  calls fail, or whose ticks stopped, has a flow open or has had one since that
  ended without a login.
- `EventStreamProofs`, about `PacketStream`, for every base and width of the varints,
  every set of events that such a varint can measure, and sessions of any length:
  the type invariant, `FramingHolds`, `NothingHeldBack`, and `DeliversInOrder`, the
  refinement of `EventChannel`, step by step (`ChannelStep`). They rest on the codec:
  a varint says what was encoded in it (`DecodesWhatWasEncoded`), so `take_packet`
  takes the packet at the front exactly when all of it is there (`TakesThePacket`),
  and `split_packets` ends with no complete packet left (`SplitEnds`). The inductive
  invariant `FramingInv` adds to the three that the handshake has no batch and that a
  listening loop's buffer holds no complete packet even while handlers run;
  `NothingHeldBack` says it only of an empty batch. Of data, the proofs need
  induction up to a length and recursion on it: both are lemmas about a set and a
  function (`UpTo`, `PrimitiveRecursion`), from the order of the naturals being well
  founded, since no theorem with an operator for a parameter can be used.
- `LiveViewProofs`: the type invariant, `NoSecondStart`, for any number of viewers;
  the latter's invariant adds that who starts holds the lock.
  `OnlyFinishedStreamsDropped`, which is about steps, needs that no Stream is there
  while one is being built (`NoneWhileBuilding`). The type invariant includes that a new
  session and a new Stream get an identity nobody refers to: one Stream is left
  whenever one is built (`StreamLeft`), and there are more sessions than the Streams,
  the URL and Arlo can refer to.
- `ModeSyncProofs`: the type invariant, `RevisionNeverAhead`, for any number of
  commands, locations and clients (the invariant adds the revisions on their way
  back, and that 1, which stands for an unknown one, is below them all),
  `ModeWasReal`: an event is given to a location other than its own only by the two
  fallbacks (`LocationOfChange`), the first location's for unclaimed gateways and the
  only location's; and `RefusedOnlyWhenOvertaken`: a revision that was fetched and
  is not outdated is the location's own (`FetchedIsLive`), so a second refusal needs
  a fetch that brought none, a change in between or a login that read it again.
- `DetectionProofs`: the type invariant, `ActsOnce`, `WholeWindow` and
  `MissedOnlyIfCut`, for any categories, keys, timeout and queue. `ActsOnce` is not inductive: a sensor that
  has acted holds the event's key (`ActedIsSeen`). Nor is `WholeWindow`: what a
  reset task has left to sleep and the time since the sensor acted add up to the
  timeout at least (`NoEarlyReset`), so a task that is due finds the window over.
  For `MissedOnlyIfCut`, `NothingMissed` says that the keys that wait are new to the
  sensors (`FreshKeys`), that a sensor which has not acted on an event holds another
  key, so the broadcast will reach it (`UnactedIsNew`), and that a handler which came
  to its end broadcast (`PublishedAtTheEnd`).
- `DeviceStateProofs`: the type invariant, `NothingForgotten` and
  `WrongOnlyIfExcused`, for any split of the properties among the three sources and
  any number of frames. The latter is not inductive, for it says that a wrong value
  has a frame on its way and not that the frame corrects it: `LastWord` adds that
  the last frame that carries a property carries what holds, unless it is excused.
- `SupplementProofs`: the type invariant and `OnceAndInOrder`, for any resources and
  number of events and any sequence of verdicts. The invariant says which events
  each carrier may hold (`Carriers`), that a carrier's events ascend (`Rising`), that
  a verdict not yet read leaves only moot events on SSE (`Overtaken`), and that what
  waits is younger than all that was handled of its resource (`Ahead`).
- `ConfigFlowProofs`: the type invariant, `StepsHaveTheirClient`, `SessionsAreClosed`,
  `StoredWasProven`, `CookieKept`, for any number of dialogs and passwords. Each step
  replaces the record of one dialog, so the invariant is a predicate of a record
  (`Sound`) and the proof one lemma per function on records.

Assumptions on the constants, each named in its module and evaluated by TLC: the
values that stand for "none" are none of the others; `LiveView` has one Stream at
least and, if sessions are finite, more of them than Streams plus one, as Python
and Arlo never run out of new ones; `PacketStream` has a base above 2, a digit at
least, and events whose length such a varint can carry, as MQTT's is defined to.

Model-checked only: everything about liveness (and `ENABLED`), which TLAPS does
not reach, and the properties that the runs show violated. Every other property
of a passing run is a theorem.

## Disagreements found

Three with a run, in `findings`: `DropIsRetried`, `NoDeadUrlHandedOut`,
`StaysInSync`. Others met while modelling, which no run shows:

- A malformed PUBLISH raises out of the listen loop past the disconnect callback
  (`mqtt.py:336`); the handle stays, and every later tick takes the dead stream
  for one that is up. `StreamComesBack` excepts it.
- A drop handled while `async_shutdown` awaits starts a reconnect loop that
  connects after the unload (`coordinator.py:1848`).
- A dialog that aborts or is dismissed leaves `_auth_is_dead` as it is, and
  `_mark_auth_dead` then returns early (`coordinator.py:482`): every call fails and no
  flow is open, until the tick's next login succeeds or is refused; or, when a
  refused tick has ended the ticks, until somebody reloads or reconfigures the
  entry. `declined` in `BlockIsTold` is exactly this.
- "refetch the live revision and retry once" (`coordinator.py:723`):
  `get_active_mode` (`client.py:794`) does not ask for success, so an error body is
  revision 0, stored as 1 (`coordinator.py:751`), and the retry is refused for it.
- "Beyond that, surface the original error" (`coordinator.py:723`): the error of the
  retry is what surfaces.
- "so multi-location accounts update the right one. Falls back to the sole location
  otherwise" (`coordinator.py:1599`): a device whose gateway none of several
  locations claims falls back to the first of them (`coordinator.py:506`), which then
  shows another location's mode. `Borrowed` in `ModeWasReal` is exactly this.
- The tick logs in whether or not `_auth_is_dead` (`coordinator.py:1803`).
- A login that ends in `MfaRequired` replaces the token by one that is not
  verified (`client.py:428`).
- An HLS viewer that comes during the last-frame await is given the Stream that
  is about to go (`camera.py:375`); a URL minted during that await is dropped
  with the old Stream (`camera.py:381`).
- After an `APIError` the retry fetches the revision outside
  `call_with_session_retry` (`coordinator.py:750`).
- An event whose `mkdir` fails stays in `motion_events` unseen until some other
  broadcast, and then turns the sensor on late (`coordinator.py:1765`).
- "Password form is shown only if the stored password is rejected by Arlo"
  (`config_flow.py:355`): a session that myapi rejects after an accepted password
  shows it too, `SessionExpiredError` being an `AuthenticationError`.
- "Either the trust cookie is still good" (`config_flow.py:402`): a dialog's jar is
  always new, so it never holds one at login.
- "Set when Arlo has rejected the session and the silent re-login could not recover
  it" (`coordinator.py:177`): of two logins that run together one may succeed and
  the other be refused afterwards, and then a session that works is marked dead
  (`coordinator.py:485`). `NotWedged` says that it does not stay so.
- Registrations are renewed "every 25 minutes" (`README.md:82`): the check is made
  by the tick, every 30 minutes, and no reconnect makes it
  (`coordinator.py:1515`). A hub's lease that lapses in between loses what it
  publishes; `CatchesUp` says that the next tick makes up for it.
- The device list is merged over pushes that were handled while it travelled
  (`coordinator.py:1439`), and shows the older value until the next source.
- "True if it carried any frame" (`sse.py:127`): a session in which nothing came
  until the read timeout answers True as well. And a session that carried events
  and then broke counts as a failure, so that the pauses of `sse.py:122` grow over
  days of healthy sessions that each end in an error.
- `get_devices` in `async_setup` is outside the `try` (`coordinator.py:828`): an
  error there is a plain exception, after which Home Assistant does not try again.
- The modes are fetched by `async_setup` only (`coordinator.py:1835`): a change
  published while the stream is down is not shown until the next one.
- A failed first refresh leaves the stream and the session of `async_setup` open
  (`__init__.py:59`).
- Who writes `image_bytes` last wins, whatever the age of the image: a download or a
  last frame that ends late (`coordinator.py:391`), the files of the archive at the
  end of the setup, when events may already have come (`coordinator.py:955`), and a
  keyframe whose live view ended while it was awaited (`camera.py:155`).
- A code Arlo accepts, followed by a session request that fails, leaves the OTP
  form up with a spent code: no code satisfies it any more.

## Not modelled

Parsing of payloads (its outcome is an input), the options flow, entities that
mirror one value, the log filter, debug scripts, the stale copy under
`build/lib`: sequential, with no state of their own or none that another
component reads. Images and the archive, whose writers are known (see above)
and whose one property, that the newest is shown, does not hold. In `ConfigFlow`,
two submits of one form at the same time, and Home Assistant's own handling of
unique ids beyond "one entry". In `LiveView`, snapshots. In `ModeSync`, lost
events. In `DeviceState`, several base stations (their bring-ups follow one
another and share only the timestamp), spotlight and siren commands, and the
SSE supplement as a fourth source. In `EventStream`, the superseded-stream guard
(`coordinator.py:1731`) is only ever reached during an unload.

## Plan

What remains, most important first.

1. `EntryLifecycle`: setup that fails after the stream is up, unload during a
   reconnect (`coordinator.py:1848`), reload by a finished dialog; composes
   `EventStream`, `ArloSession` and `ConfigFlow`.
2. `ModeSync` over a stream that goes down and loses events.
3. `ImageCache`: who writes `image_bytes` in which order.
4. Spotlight and siren in `DeviceState`, several base stations.
5. Proofs: the properties above as they are added; abstract specifications for the
   components that have none yet (one carrier per event in `Supplement`, one
   write per revision in `ModeSync`), and their refinement.
