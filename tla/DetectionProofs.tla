-------------------------- MODULE DetectionProofs --------------------------
(***************************************************************************)
(* For any set of categories and of keys and any timeout: a sensor acts    *)
(* once on an event, stays on for the whole timeout after it, and misses    *)
(* none whose handler runs to its end.                                     *)
(***************************************************************************)
EXTENDS Detection, TLAPS

\* A sensor that has acted on the last event has its key to show for it.
ActedIsSeen ==
  \A c \in Categories :
    acts[c] # 0 => motion # None /\ seen[c] = motion.key

\* No reset is due before the timeout has passed since the sensor last acted.
NoEarlyReset == \A c \in Categories : \A t \in timers[c] : t + age[c] >= Timeout

\* What a broadcast has to keep.
SensorsOK ==
  /\ seen \in [Categories -> Keys \union {None}]
  /\ on \in [Categories -> BOOLEAN]
  /\ timers \in [Categories -> SUBSET (0..Timeout)]
  /\ age \in [Categories -> 0..Timeout]
  /\ acts \in [Categories -> 0..2]
  /\ ActsOnce /\ ActedIsSeen /\ WholeWindow /\ NoEarlyReset

\* The events waiting, the handler and the event it handles.
HandlerOK ==
  /\ queue \in Seq(Event)
  /\ stage \in {"idle", "clip", "image", "thumbnail"}
  /\ motion \in Event \union {None}
  /\ cut \in BOOLEAN

IInv == HandlerOK /\ SensorsOK

LEMMA IInvImplies == IInv => TypeOK /\ ActsOnce /\ WholeWindow
BY DEF IInv, HandlerOK, SensorsOK, TypeOK

\* _push_to_entities, sensor by sensor.
Pushed(event, count) ==
  /\ seen' = [c \in Categories |-> IF c \in Acting(event) THEN event.key ELSE seen[c]]
  /\ on' = [c \in Categories |-> IF c \in Acting(event) THEN TRUE ELSE on[c]]
  /\ timers' = [c \in Categories |->
                  IF c \in Acting(event) THEN {Timeout} ELSE timers[c]]
  /\ age' = [c \in Categories |-> IF c \in Acting(event) THEN 0 ELSE age[c]]
  /\ acts' = [c \in Categories |->
                IF c \in Acting(event) THEN IF count[c] = 0 THEN 1 ELSE 2
                                       ELSE count[c]]

LEMMA PushPointwise ==
  ASSUME NEW event, NEW count, Push(event, count)
  PROVE  Pushed(event, count)
BY DEF Push, Pushed, Rescheduled

\* A broadcast that finds in `event` what motion_events holds keeps what the
\* sensors guarantee, if `count` says how often each has acted on that event.
LEMMA PushKeepsSensors ==
  ASSUME TypeOK, WholeWindow, NoEarlyReset,
         NEW event \in Event \union {None}, motion' = event,
         NEW count \in [Categories -> 0..1],
         \A c \in Categories : count[c] # 0 => event # None /\ seen[c] = event.key,
         Pushed(event, count)
  PROVE  SensorsOK'
<1> USE ConstantsAssumption
<1>1. \A c \in Acting(event) : event \in Event /\ event.key # seen[c]
  BY DEF Acting, IsNew
<1>2. \A c \in Acting(event) : event.key \in Keys
  BY <1>1 DEF Event
<1>3. \A c \in Categories : c \in Acting(event) => count[c] = 0
  BY <1>1
<1>4. seen' \in [Categories -> Keys \union {None}]
  BY <1>2 DEF TypeOK, Pushed
<1>5. on' \in [Categories -> BOOLEAN]
  BY DEF TypeOK, Pushed
<1>6. timers' \in [Categories -> SUBSET (0..Timeout)]
  BY DEF TypeOK, Pushed
<1>7. age' \in [Categories -> 0..Timeout]
  BY DEF TypeOK, Pushed
<1>8. acts' \in [Categories -> 0..2] /\ ActsOnce'
  BY <1>3 DEF ActsOnce, Pushed
<1>9. ActedIsSeen'
  <2> SUFFICES ASSUME NEW c \in Categories, acts'[c] # 0
               PROVE  event # None /\ seen'[c] = event.key
    BY DEF ActedIsSeen
  <2>1. CASE c \in Acting(event)
    BY <2>1, <1>1 DEF Acting, Pushed
  <2>2. CASE c \notin Acting(event)
    BY <2>2 DEF Pushed, TypeOK
  <2> QED BY <2>1, <2>2
<1>10. WholeWindow'
  <2> SUFFICES ASSUME NEW c \in Categories, age'[c] < Timeout
               PROVE  on'[c]
    BY DEF WholeWindow
  <2>1. CASE c \in Acting(event)
    BY <2>1 DEF Pushed, TypeOK
  <2>2. CASE c \notin Acting(event)
    <3>1. age'[c] = age[c] /\ on'[c] = on[c]
      BY <2>2 DEF Pushed, TypeOK
    <3> QED BY <3>1 DEF WholeWindow
  <2> QED BY <2>1, <2>2
<1>11. NoEarlyReset'
  <2> SUFFICES ASSUME NEW c \in Categories, NEW t \in timers'[c]
               PROVE  t + age'[c] >= Timeout
    BY DEF NoEarlyReset
  <2>1. CASE c \in Acting(event)
    BY <2>1 DEF Pushed, TypeOK
  <2>2. CASE c \notin Acting(event)
    BY <2>2 DEF NoEarlyReset, Pushed
  <2> QED BY <2>1, <2>2
<1> QED BY <1>4, <1>5, <1>6, <1>7, <1>8, <1>9, <1>10, <1>11 DEF SensorsOK

----------------------------------------------------------------------------
LEMMA InitIInv == Init => IInv
<1> SUFFICES ASSUME Init PROVE IInv
  OBVIOUS
<1> USE ConstantsAssumption DEF Init
<1>1. HandlerOK
  <2>1. queue \in Seq(Event)
    OBVIOUS
  <2>2. cut \in BOOLEAN /\ motion \in Event \union {None}
    BY Zenon
  <2> QED BY <2>1, <2>2 DEF HandlerOK
<1>2. /\ seen \in [Categories -> Keys \union {None}]
      /\ timers \in [Categories -> SUBSET (0..Timeout)]
      /\ age \in [Categories -> 0..Timeout]
      /\ acts \in [Categories -> 0..2]
  OBVIOUS
<1>3. on \in [Categories -> BOOLEAN]
  BY Zenon
<1>4. ActsOnce /\ ActedIsSeen /\ NoEarlyReset
  BY DEF ActsOnce, ActedIsSeen, NoEarlyReset
<1>5. WholeWindow
  BY DEF WholeWindow
<1> QED BY <1>1, <1>2, <1>3, <1>4, <1>5 DEF IInv, SensorsOK

\* The handler goes on, with or without a broadcast.
LEMMA ProceedKeepsSensors ==
  ASSUME IInv, NEW next, NEW event \in Event \union {None}, motion' = event,
         NEW count \in [Categories -> 0..1],
         \A c \in Categories : count[c] # 0 => event # None /\ seen[c] = event.key,
         Proceed(next, event, count)
  PROVE  SensorsOK'
<1>1. CASE next = "idle"
  <2>1. Pushed(event, count)
    BY <1>1, PushPointwise DEF Proceed
  <2> QED BY <2>1, IInvImplies, PushKeepsSensors DEF IInv, SensorsOK
<1>2. CASE next # "idle"
  <2>1. acts' = count /\ UNCHANGED <<seen, on, timers, age>>
    BY <1>2 DEF Proceed
  <2>2. ActsOnce' /\ ActedIsSeen' /\ WholeWindow' /\ NoEarlyReset'
    BY <2>1 DEF IInv, SensorsOK, ActsOnce, ActedIsSeen, WholeWindow, NoEarlyReset
  <2> QED BY <2>1, <2>2 DEF IInv, SensorsOK
<1> QED BY <1>1, <1>2

\* What says how often the sensors have acted is a fit `count` for the event
\* in motion_events.
LEMMA ActsIsCount ==
  ASSUME IInv
  PROVE  /\ acts \in [Categories -> 0..1]
         /\ \A c \in Categories : acts[c] # 0 => motion # None /\ seen[c] = motion.key
BY DEF IInv, SensorsOK, ActsOnce, ActedIsSeen

LEMMA HandleKeeps == ASSUME IInv, Handle PROVE IInv'
<1>1. ASSUME NEW next \in {"clip", "image", "idle"}, StartHandling(next)
      PROVE  IInv'
  <2>1. Head(queue) \in Event /\ Tail(queue) \in Seq(Event)
    BY <1>1 DEF IInv, HandlerOK, StartHandling
  <2>2. HandlerOK'
    BY <1>1, <2>1 DEF HandlerOK, StartHandling, Proceed
  <2>3. Proceed(next, Head(queue), [c \in Categories |-> 0]) /\ motion' = Head(queue)
    BY <1>1 DEF StartHandling
  <2>4. SensorsOK'
    BY <2>1, <2>3, ProceedKeepsSensors
  <2> QED BY <2>2, <2>4 DEF IInv
<1>2. ASSUME NEW next \in {"image", "thumbnail", "idle"}, MediaDone(next)
      PROVE  IInv'
  <2>1. HandlerOK'
    BY <1>2 DEF IInv, HandlerOK, MediaDone, Proceed
  <2>2. Proceed(next, motion, acts) /\ motion' = motion /\ motion \in Event \union {None}
    BY <1>2 DEF IInv, HandlerOK, MediaDone
  <2>3. SensorsOK'
    BY <2>2, ActsIsCount, ProceedKeepsSensors
  <2> QED BY <2>1, <2>3 DEF IInv
<1> QED BY <1>1, <1>2 DEF Handle

LEMMA OtherPushKeeps == ASSUME IInv, OtherPush PROVE IInv'
<1>1. HandlerOK'
  BY DEF OtherPush, IInv, HandlerOK
<1>2. Pushed(motion, acts)
  BY PushPointwise DEF OtherPush
<1>3. motion' = motion /\ motion \in Event \union {None}
  BY DEF OtherPush, IInv, HandlerOK
<1>4. SensorsOK'
  BY <1>2, <1>3, IInvImplies, ActsIsCount, PushKeepsSensors DEF IInv, SensorsOK
<1> QED BY <1>1, <1>4 DEF IInv

LEMMA ElapseKeeps == ASSUME IInv, Elapse PROVE IInv'
<1> USE ConstantsAssumption
<1>1. HandlerOK'
  BY DEF Elapse, IInv, HandlerOK
<1>2. UNCHANGED <<seen, on, acts, motion>>
  BY DEF Elapse
<1>3. \A t \in 0..Timeout : Slept(t) \in 0..Timeout
  BY DEF Slept
<1>4. \A c \in Categories : timers[c] \subseteq 0..Timeout /\ age[c] \in 0..Timeout
  BY DEF IInv, SensorsOK
<1>5. timers' \in [Categories -> SUBSET (0..Timeout)]
  BY <1>3, <1>4 DEF Elapse
<1>6. age' \in [Categories -> 0..Timeout]
  BY <1>4 DEF Elapse
<1>7. ActsOnce' /\ ActedIsSeen'
  BY <1>2 DEF IInv, SensorsOK, ActsOnce, ActedIsSeen
<1>8. WholeWindow'
  <2> SUFFICES ASSUME NEW c \in Categories, age'[c] < Timeout PROVE on[c]
    BY <1>2 DEF WholeWindow
  <2>1. age[c] < Timeout
    BY <1>4 DEF Elapse
  <2> QED BY <2>1 DEF IInv, SensorsOK, WholeWindow
<1>9. NoEarlyReset'
  <2> SUFFICES ASSUME NEW c \in Categories, NEW t \in timers'[c]
               PROVE  t + age'[c] >= Timeout
    BY DEF NoEarlyReset
  <2>1. PICK u \in timers[c] : t = Slept(u)
    BY DEF Elapse
  <2>2. u + age[c] >= Timeout
    BY DEF IInv, SensorsOK, NoEarlyReset
  <2>3. age'[c] = IF age[c] = Timeout THEN Timeout ELSE age[c] + 1
    BY DEF Elapse
  <2>4. u \in 0..Timeout
    BY <1>4
  <2> QED BY <2>1, <2>2, <2>3, <2>4, <1>4 DEF Slept
<1> QED BY <1>1, <1>2, <1>5, <1>6, <1>7, <1>8, <1>9 DEF IInv, SensorsOK

\* A task that is due finds its sensor a whole timeout past its last event.
LEMMA ResetKeeps == ASSUME IInv, NEW c \in Categories, Reset(c) PROVE IInv'
<1> USE ConstantsAssumption
<1>1. HandlerOK'
  BY DEF Reset, IInv, HandlerOK
<1>2. UNCHANGED <<seen, age, acts, motion>>
  BY DEF Reset
<1>3. age[c] = Timeout
  BY DEF Reset, IInv, SensorsOK, NoEarlyReset
<1>4. on' \in [Categories -> BOOLEAN] /\ \A d \in Categories : d # c => on'[d] = on[d]
  BY Zenon DEF Reset, IInv, SensorsOK
<1>5. /\ timers' \in [Categories -> SUBSET (0..Timeout)]
      /\ \A d \in Categories : timers'[d] \subseteq timers[d]
  BY DEF Reset, IInv, SensorsOK
<1>6. ActsOnce' /\ ActedIsSeen'
  BY <1>2 DEF IInv, SensorsOK, ActsOnce, ActedIsSeen
<1>7. WholeWindow'
  BY <1>2, <1>3, <1>4 DEF IInv, SensorsOK, WholeWindow
<1>8. NoEarlyReset'
  BY <1>2, <1>5 DEF IInv, SensorsOK, NoEarlyReset
<1> QED BY <1>1, <1>2, <1>4, <1>5, <1>6, <1>7, <1>8 DEF IInv, SensorsOK

LEMMA NextIInv == IInv /\ [Next]_vars => IInv'
<1> SUFFICES ASSUME IInv, [Next]_vars PROVE IInv'
  OBVIOUS
<1>1. UNCHANGED sensors /\ motion' = motion => SensorsOK'
  BY DEF sensors, IInv, SensorsOK, ActsOnce, ActedIsSeen, WholeWindow, NoEarlyReset
<1>2. ASSUME NEW categories \in SUBSET Categories, Arrive(categories) PROVE IInv'
  <2>1. (CHOOSE k \in Keys \ InUse : TRUE) \in Keys
    BY <1>2 DEF Arrive
  <2>2. queue' \in Seq(Event)
    BY <1>2, <2>1 DEF Arrive, Event, IInv, HandlerOK
  <2> QED BY <1>1, <1>2, <2>2 DEF Arrive, IInv, HandlerOK
<1>3. CASE StorageFails
  BY <1>1, <1>3 DEF StorageFails, IInv, HandlerOK
<1>4. CASE UNCHANGED vars
  BY <1>1, <1>4 DEF vars, sensors, IInv, HandlerOK
<1> QED
  BY <1>2, <1>3, <1>4, HandleKeeps, OtherPushKeeps, ElapseKeeps, ResetKeeps
     DEF Next

LEMMA InductiveInvariant == Spec => []IInv
BY InitIInv, NextIInv, PTL DEF Spec

----------------------------------------------------------------------------
(* No event is missed.                                                     *)

\* The keys of the events that wait are all different, and none is known yet.
FreshKeys ==
  /\ \A i, j \in 1..Len(queue) : i # j => queue[i].key # queue[j].key
  /\ \A i \in 1..Len(queue) :
       /\ \A c \in Categories : queue[i].key # seen[c]
       /\ motion # None => queue[i].key # motion.key

\* A sensor that has not acted on the last event does not take it for an old one.
UnactedIsNew ==
  motion # None =>
    \A c \in motion.categories : acts[c] = 0 => seen[c] # motion.key

\* A handler that has run to its end has published the event.
PublishedAtTheEnd ==
  stage = "idle" /\ ~cut /\ motion # None =>
    \A c \in motion.categories : acts[c] # 0

NothingMissed == FreshKeys /\ UnactedIsNew /\ PublishedAtTheEnd

LEMMA InitMissed == Init => NothingMissed
BY DEF Init, NothingMissed, FreshKeys, UnactedIsNew, PublishedAtTheEnd

\* After a broadcast every sensor of the event has acted on it; the sensors know
\* no key that they or the coordinator did not know before.
LEMMA PushReachesAll ==
  ASSUME IInv, NEW event \in Event, NEW count \in [Categories -> 0..1],
         \A c \in event.categories : count[c] = 0 => seen[c] # event.key,
         Pushed(event, count)
  PROVE  /\ \A c \in event.categories : acts'[c] # 0
         /\ \A c \in Categories : seen'[c] \in {seen[c], event.key}
<1>1. event # None /\ event.categories \subseteq Categories
  BY ConstantsAssumption DEF Event
<1>2. ASSUME NEW c \in event.categories PROVE acts'[c] # 0
  <2>1. CASE count[c] = 0
    BY <2>1, <1>1, <1>2 DEF Pushed, Acting, CategoriesOf, IsNew
  <2>2. CASE count[c] # 0
    BY <2>2, <1>1, <1>2 DEF Pushed
  <2> QED BY <2>1, <2>2
<1>3. ASSUME NEW c \in Categories PROVE seen'[c] \in {seen[c], event.key}
  BY <1>3 DEF Pushed
<1> QED BY <1>2, <1>3

\* A broadcast of the event in motion_events, which the handler may end with.
LEMMA PushMisses ==
  ASSUME IInv, NothingMissed, motion # None, Pushed(motion, acts),
         UNCHANGED <<queue, motion>>
  PROVE  NothingMissed'
<1>1. motion \in Event /\ acts \in [Categories -> 0..1]
  BY ActsIsCount DEF IInv, HandlerOK
<1>2. /\ \A c \in motion.categories : acts'[c] # 0
      /\ \A c \in Categories : seen'[c] \in {seen[c], motion.key}
  BY <1>1, PushReachesAll DEF NothingMissed, UnactedIsNew
<1>3. FreshKeys'
  BY <1>2 DEF NothingMissed, FreshKeys
<1>4. UnactedIsNew' /\ PublishedAtTheEnd'
  BY <1>2 DEF UnactedIsNew, PublishedAtTheEnd
<1> QED BY <1>3, <1>4 DEF NothingMissed

LEMMA StartMisses ==
  ASSUME IInv, NothingMissed, NEW next, StartHandling(next)
  PROVE  NothingMissed'
<1> DEFINE event == Head(queue)
           zero == [c \in Categories |-> 0]
<1>1. /\ queue \in Seq(Event) /\ Len(queue) > 0
      /\ event = queue[1] /\ event \in Event /\ motion' = event
      /\ queue' = Tail(queue)
  BY DEF StartHandling, IInv, HandlerOK
<1>2. /\ Len(queue') = Len(queue) - 1
      /\ \A i \in 1..Len(queue') : queue'[i] = queue[i + 1] /\ i + 1 \in 1..Len(queue)
  BY <1>1
<1>3. /\ \A c \in Categories : seen[c] # event.key
      /\ \A i \in 1..Len(queue') : queue'[i].key # event.key
      /\ \A i \in 1..Len(queue') : \A c \in Categories : queue'[i].key # seen[c]
      /\ \A i, j \in 1..Len(queue') : i # j => queue'[i].key # queue'[j].key
  <2>1. 1 \in 1..Len(queue)
    BY <1>1
  <2>2. \A i \in 1..Len(queue') : i + 1 # 1
    BY <1>1, <1>2
  <2>3. \A i, j \in 1..Len(queue') : i # j => i + 1 # j + 1
    OBVIOUS
  <2> QED BY <1>1, <1>2, <2>1, <2>2, <2>3 DEF NothingMissed, FreshKeys
<1>4. event.categories \subseteq Categories
  BY <1>1 DEF Event
<1>5. CASE next = "idle"
  <2>1. Pushed(event, zero)
    BY <1>1, <1>5, PushPointwise DEF StartHandling, Proceed
  <2>2. /\ \A c \in event.categories : acts'[c] # 0
        /\ \A c \in Categories : seen'[c] \in {seen[c], event.key}
    <3>1. zero \in [Categories -> 0..1]
      OBVIOUS
    <3>2. \A c \in event.categories : zero[c] = 0 => seen[c] # event.key
      BY <1>3, <1>4
    <3> HIDE DEF event, zero
    <3> QED BY <1>1, <2>1, <3>1, <3>2, PushReachesAll
  <2>3. FreshKeys'
    BY <1>1, <1>3, <2>2 DEF FreshKeys
  <2>4. UnactedIsNew' /\ PublishedAtTheEnd'
    BY <1>1, <2>2 DEF UnactedIsNew, PublishedAtTheEnd
  <2> QED BY <2>3, <2>4 DEF NothingMissed
<1>6. CASE next # "idle"
  <2>1. stage' # "idle" /\ seen' = seen
    BY <1>6 DEF StartHandling, Proceed
  <2>2. FreshKeys'
    BY <1>1, <1>3, <2>1 DEF FreshKeys
  <2>3. UnactedIsNew' /\ PublishedAtTheEnd'
    BY <1>1, <1>3, <1>4, <2>1 DEF UnactedIsNew, PublishedAtTheEnd
  <2> QED BY <2>2, <2>3 DEF NothingMissed
<1> QED BY <1>5, <1>6

LEMMA MediaMisses ==
  ASSUME IInv, NothingMissed, NEW next, MediaDone(next)
  PROVE  NothingMissed'
<1>1. UNCHANGED <<queue, motion>> /\ Proceed(next, motion, acts)
  BY DEF MediaDone
<1>2. CASE next = "idle" /\ motion # None
  BY <1>1, <1>2, PushPointwise, PushMisses DEF Proceed
<1>3. CASE next = "idle" /\ motion = None
  <2>1. Pushed(motion, acts) /\ Acting(motion) = {}
    BY <1>1, <1>3, PushPointwise DEF Proceed, Acting
  <2>2. \A c \in Categories : seen'[c] = seen[c]
    BY <2>1 DEF Pushed
  <2> QED BY <1>1, <1>3, <2>2
          DEF NothingMissed, FreshKeys, UnactedIsNew, PublishedAtTheEnd
<1>4. CASE next # "idle"
  <2>1. stage' # "idle" /\ UNCHANGED <<seen, acts>>
    BY <1>1, <1>4 DEF Proceed
  <2> QED BY <1>1, <2>1
          DEF NothingMissed, FreshKeys, UnactedIsNew, PublishedAtTheEnd
<1> QED BY <1>2, <1>3, <1>4

\* Arlo's next key is one that nothing refers to.
LEMMA ArriveMisses ==
  ASSUME IInv, NothingMissed, NEW categories \in SUBSET Categories, Arrive(categories)
  PROVE  NothingMissed'
<1> DEFINE key == CHOOSE k \in Keys \ InUse : TRUE
           event == [key |-> key, categories |-> categories]
<1>1. key \notin InUse
  BY DEF Arrive
<1>2. queue \in Seq(Event) /\ queue' = Append(queue, event)
  BY DEF Arrive, IInv, HandlerOK
<1>3. UNCHANGED <<stage, motion, cut, seen, acts>>
  BY DEF Arrive, sensors
<1>4. /\ \A i \in 1..Len(queue) : key # queue[i].key
      /\ \A c \in Categories : key # seen[c]
      /\ motion # None => key # motion.key
  <2>1. DOMAIN queue = 1..Len(queue)
    BY <1>2
  <2> HIDE DEF key
  <2> QED BY <1>1, <2>1 DEF InUse
<1> HIDE DEF key
<1>5. /\ Len(queue') = Len(queue) + 1
      /\ \A i \in 1..Len(queue') :
           \/ i \in 1..Len(queue) /\ queue'[i] = queue[i]
           \/ i = Len(queue) + 1 /\ queue'[i].key = key
  <2>1. event.key = key
    OBVIOUS
  <2>2. event \in {event}
    OBVIOUS
  <2> HIDE DEF event
  <2> QED BY <1>2, <2>1
<1>6. FreshKeys'
  BY <1>3, <1>4, <1>5 DEF NothingMissed, FreshKeys
<1> QED BY <1>3, <1>6 DEF NothingMissed, UnactedIsNew, PublishedAtTheEnd

LEMMA NextMissed == IInv /\ NothingMissed /\ [Next]_vars => NothingMissed'
<1> SUFFICES ASSUME IInv, NothingMissed, [Next]_vars PROVE NothingMissed'
  OBVIOUS
<1> USE DEF NothingMissed, FreshKeys, UnactedIsNew, PublishedAtTheEnd
<1>1. CASE Handle
  BY <1>1, StartMisses, MediaMisses DEF Handle
<1>2. CASE StorageFails
  BY <1>2 DEF StorageFails, sensors
<1>3. CASE OtherPush
  <2>1. motion # None
    BY <1>3 DEF OtherPush, Acting
  <2> QED BY <1>3, <2>1, PushPointwise, PushMisses DEF OtherPush
<1>4. CASE Elapse
  BY <1>4 DEF Elapse
<1>5. ASSUME NEW c \in Categories, Reset(c) PROVE NothingMissed'
  BY <1>5 DEF Reset
<1>6. CASE UNCHANGED vars
  BY <1>6 DEF vars
<1> QED
  BY <1>1, <1>2, <1>3, <1>4, <1>5, <1>6, ArriveMisses DEF Next

\* The one step that replaces the event finds its handler at the end.
LEMMA StepMisses ==
  IInv /\ NothingMissed /\ [Next]_vars
    => [motion' # motion /\ motion # None /\ ~cut
          => \A c \in motion.categories : acts[c] = 1]_vars
<1> SUFFICES ASSUME IInv, NothingMissed, Next, motion' # motion, motion # None, ~cut
             PROVE  \A c \in motion.categories : acts[c] = 1
  BY DEF vars
<1>1. PreviousIsDone
  BY DEF Next, Arrive, Handle, StartHandling, MediaDone, StorageFails,
         OtherPush, Elapse, Reset
<1>2. motion \in Event
  BY DEF IInv, HandlerOK
<1>3. acts \in [Categories -> 0..1]
  BY ActsIsCount
<1> QED BY <1>1, <1>2, <1>3
        DEF PreviousIsDone, NothingMissed, PublishedAtTheEnd, Event

----------------------------------------------------------------------------
\* Every reachable state of the handler and the sensors is typed; no reset task
\* sleeps longer than CONF_DETECTION_TIMEOUT.
THEOREM TypeCorrect == Spec => []TypeOK
BY InductiveInvariant, IInvImplies, PTL

\* Whatever broadcasts in between, a sensor acts at most once on the event in
\* motion_events: the guard on _last_seen_event_key.
THEOREM ActsOnceHolds == Spec => []ActsOnce
BY InductiveInvariant, IInvImplies, PTL

\* A sensor is on for the whole timeout after the last event it acted on:
\* _schedule_reset cancels the reset of the one before.
THEOREM WholeWindowHolds == Spec => []WholeWindow
BY InductiveInvariant, IInvImplies, PTL

\* An event gives way to the next one only when each of its sensors has acted on
\* it, or its handler raised: the MQTT loop awaits one handler after the other,
\* whatever else broadcasts while it downloads.
THEOREM MissedOnlyIfCutHolds == Spec => MissedOnlyIfCut
<1>1. Spec => []NothingMissed
  BY InitMissed, NextMissed, InductiveInvariant, PTL DEF Spec
<1> QED BY <1>1, InductiveInvariant, StepMisses, PTL DEF Spec, MissedOnlyIfCut
=============================================================================
