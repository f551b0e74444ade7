-------------------------- MODULE SupplementProofs --------------------------
(***************************************************************************)
(* Proofs about Supplement, for any resources and any number of events:    *)
(* type correctness, and that an event whose carrier was settled is        *)
(* handled once and in order, or is waiting at that carrier.               *)
(***************************************************************************)
EXTENDS Supplement, TLAPS

----------------------------------------------------------------------------
(* Sequences of events.                                                    *)

Ascending(s) == \A i, j \in DOMAIN s : i < j => s[i] < s[j]

LEMMA ElementsOfNone == Elements(<< >>) = {} /\ Ascending(<< >>)
  BY DEF Elements, Ascending

LEMMA ElementsOfAppend ==
  ASSUME NEW s \in Seq(Events), NEW e \in Events
  PROVE  /\ Append(s, e) \in Seq(Events)
         /\ Elements(Append(s, e)) = Elements(s) \union {e}
<1>1. /\ DOMAIN s = 1..Len(s) /\ Len(s) \in Nat
      /\ DOMAIN Append(s, e) = 1..Len(s) + 1
      /\ Append(s, e)[Len(s) + 1] = e
      /\ \A i \in 1..Len(s) : Append(s, e)[i] = s[i]
  OBVIOUS
<1>2. 1..Len(s) + 1 = 1..Len(s) \union {Len(s) + 1}
  BY <1>1
<1> QED
  BY <1>1, <1>2 DEF Elements

LEMMA ElementsOfTail ==
  ASSUME NEW s \in Seq(Events), s # << >>
  PROVE  /\ Head(s) \in Events
         /\ Tail(s) \in Seq(Events)
         /\ Elements(s) = Elements(Tail(s)) \union {Head(s)}
<1>1. /\ DOMAIN s = 1..Len(s) /\ Len(s) \in Nat \ {0}
      /\ DOMAIN Tail(s) = 1..Len(s) - 1
      /\ Head(s) = s[1]
      /\ \A i \in 1..Len(s) - 1 : Tail(s)[i] = s[i + 1]
  OBVIOUS
<1>2. \A i \in 1..Len(s) : i = 1 \/ i - 1 \in 1..Len(s) - 1
  BY <1>1
<1>3. 1 \in 1..Len(s) /\ \A i \in 1..Len(s) - 1 : i + 1 \in 1..Len(s)
  BY <1>1
<1>4. ASSUME NEW i \in 1..Len(s) - 1 PROVE Tail(s)[i] \in Elements(s)
  BY <1>1, <1>3 DEF Elements
<1>5. ASSUME NEW i \in 1..Len(s)
      PROVE  s[i] \in Elements(Tail(s)) \union {Head(s)}
  <2>1. CASE i = 1
    BY <2>1, <1>1
  <2>2. CASE i - 1 \in 1..Len(s) - 1
    <3>1. s[i] = Tail(s)[i - 1]
      BY <2>2, <1>1
    <3> QED
      BY <3>1, <2>2, <1>1 DEF Elements
  <2> QED
    BY <2>1, <2>2, <1>2
<1>6. Head(s) \in Elements(s)
  BY <1>1, <1>3 DEF Elements
<1> QED
  BY <1>1, <1>4, <1>5, <1>6 DEF Elements

LEMMA AscendingAppend ==
  ASSUME NEW s \in Seq(Events), Ascending(s), NEW e \in Events,
         \A x \in Elements(s) : x < e
  PROVE  Ascending(Append(s, e))
<1>1. /\ DOMAIN s = 1..Len(s) /\ Len(s) \in Nat
      /\ DOMAIN Append(s, e) = 1..Len(s) + 1
      /\ Append(s, e)[Len(s) + 1] = e
      /\ \A i \in 1..Len(s) : Append(s, e)[i] = s[i]
  OBVIOUS
<1>2. \A i \in 1..Len(s) : s[i] < e
  BY <1>1 DEF Elements
<1> QED
  BY <1>1, <1>2 DEF Ascending

LEMMA AscendingTail ==
  ASSUME NEW s \in Seq(Events), s # << >>, Ascending(s)
  PROVE  /\ Ascending(Tail(s))
         /\ \A x \in Elements(Tail(s)) : Head(s) < x
<1>1. /\ DOMAIN s = 1..Len(s) /\ Len(s) \in Nat \ {0}
      /\ DOMAIN Tail(s) = 1..Len(s) - 1
      /\ Head(s) = s[1]
      /\ \A i \in 1..Len(s) - 1 : Tail(s)[i] = s[i + 1]
  OBVIOUS
<1>2. \A i \in 1..Len(s) - 1 : i + 1 \in 1..Len(s) /\ 1 < i + 1
  BY <1>1
<1>3. 1 \in 1..Len(s)
  BY <1>1
<1>4. ASSUME NEW i \in 1..Len(s) - 1, NEW j \in 1..Len(s) - 1, i < j
      PROVE  Tail(s)[i] < Tail(s)[j]
  <2>1. i + 1 < j + 1
    BY <1>4
  <2> QED
    BY <2>1, <1>1, <1>2 DEF Ascending
<1>5. ASSUME NEW i \in 1..Len(s) - 1 PROVE Head(s) < Tail(s)[i]
  BY <1>1, <1>2, <1>3 DEF Ascending
<1> QED
  BY <1>1, <1>4, <1>5 DEF Ascending, Elements

LEMMA ElementsAreEvents ==
  ASSUME NEW s \in Seq(Events)
  PROVE  Elements(s) \subseteq Events
  BY DEF Elements

----------------------------------------------------------------------------
(* Type correctness.                                                       *)

LEMMA TypeInit == Init => TypeOK
<1>1. << >> \in Seq(Events)
  OBVIOUS
<1>2. 0 \in 0..MaxEvents
  BY ConstantsAssumption
<1> QED
  BY <1>1, <1>2 DEF Init, TypeOK, LoopState

LEMMA TypeStep == TypeOK /\ [Next]_vars => TypeOK'
<1> SUFFICES ASSUME TypeOK, [Next]_vars PROVE TypeOK'
  OBVIOUS
<1>0. << >> \in Seq(Events)
  OBVIOUS
<1>1. CASE Publish
  <2>1. sent + 1 \in Events /\ sent' \in 0..MaxEvents /\ sent' = sent + 1
    BY <1>1, ConstantsAssumption DEF Publish, TypeOK, Events
  <2>2. queue' \in Seq(Events) /\ frames' \in Seq(Events)
    BY <1>1, <2>1, ElementsOfAppend DEF Publish, TypeOK
  <2>3. moot' \in SUBSET Events
    BY <1>1, <2>1 DEF Publish, TypeOK
  <2> QED
    BY <1>1, <2>1, <2>2, <2>3 DEF Publish, TypeOK, sync_vars
<1>2. CASE BrokerSubscribes
  BY <1>2, ElementsAreEvents
  DEF BrokerSubscribes, TypeOK, history, sync_vars, sse_vars
<1>3. CASE SubackRead
  <2>1. sse' \in {None, "open", "stopping"} /\ loop' \in LoopState
    BY <1>3 DEF SubackRead, TypeOK, LoopState
  <2>2. sse_resources' \in SUBSET Resources
    BY <1>3 DEF SubackRead, Gap, NewResources, TypeOK
  <2> QED
    BY <1>3, <2>1, <2>2 DEF SubackRead, TypeOK, history
<1>4. CASE MqttHandles
  BY <1>4, ElementsOfTail, ElementsOfAppend
  DEF MqttHandles, TypeOK, history, sync_vars, sse_vars
<1>5. CASE MqttDrops
  BY <1>5, <1>0, ElementsAreEvents
  DEF MqttDrops, TypeOK, history, sync_vars, sse_vars
<1>6. CASE SseStopped
  BY <1>6, <1>0
  DEF SseStopped, AfterStop, TypeOK, LoopState, history, mqtt_vars
<1>7. CASE SseConnects \/ SseRefused \/ SsePauseEnds
  BY <1>7
  DEF SseConnects, SseRefused, SsePauseEnds, TypeOK, LoopState, history,
      mqtt_vars, sync_vars
<1>8. CASE SseReads
  BY <1>8, ElementsOfTail
  DEF SseReads, TypeOK, history, mqtt_vars, sync_vars
<1>9. CASE SseHandled
  <2>1. handling \in Events
    BY <1>9 DEF SseHandled, TypeOK
  <2> QED
    BY <1>9, <2>1, ElementsOfAppend
    DEF SseHandled, TypeOK, history, mqtt_vars, sync_vars
<1>10. CASE SseBreaks \/ SseLoggedOut \/ SseEnds \/ SseTimesOut
  BY <1>10, <1>0, ElementsAreEvents
  DEF SseBreaks, SseLoggedOut, SseEnds, SseTimesOut, SessionOver, TypeOK,
      LoopState, history, mqtt_vars, sync_vars
<1>11. CASE UNCHANGED vars
  BY <1>11 DEF vars, TypeOK, history, mqtt_vars, sync_vars, sse_vars
<1> QED
  BY <1>1, <1>2, <1>3, <1>4, <1>5, <1>6, <1>7, <1>8, <1>9, <1>10, <1>11
  DEF Next

\* Both carriers, the gap and what has been handled have their types in every
\* reachable state.
THEOREM TypeCorrect == Spec => []TypeOK
<1>1. Init => TypeOK
  BY TypeInit
<1>2. TypeOK /\ [Next]_vars => TypeOK'
  BY TypeStep
<1> QED
  BY <1>1, <1>2, PTL DEF Spec

----------------------------------------------------------------------------
(* Once and in order.  The invariant says what each carrier may hold: the  *)
(* broker's queue only what it granted, both only moot events while a      *)
(* verdict is unread, and nothing that is waiting to be handled is older   *)
(* than what was handled of its resource.                                  *)

Bounded ==
  /\ Elements(queue) \union Elements(frames) \union Elements(handled)
       \subseteq 1..sent
  /\ handling \in 1..sent \union {None}

Rising ==
  /\ Ascending(queue)
  /\ Ascending(frames)
  /\ handling # None => \A e \in Elements(frames) : handling < e

Carriers ==
  /\ link = "down" => queue = << >>
  /\ link = "up" => sse_resources = Resources \ granted
  /\ \A e \in Elements(queue) : about[e] \in granted
  /\ sse = "stopping" => sse_resources = {} /\ link # "subscribed"

Overtaken ==
  /\ link = "subscribed" =>
       /\ Elements(queue) \union Elements(frames) \subseteq moot
       /\ handling \in moot \union {None}
  /\ handling \notin moot \union {None} => about[handling] \in sse_resources

Waiting(e) ==
  \/ e \in Elements(queue)
  \/ e = handling
  \/ e \in Elements(frames) /\ about[e] \in sse_resources

Ahead ==
  \A x \in Elements(handled) \ moot, e \in 1..sent \ moot :
    Waiting(e) /\ about[x] = about[e] => x < e

IInv == Bounded /\ Rising /\ Carriers /\ Overtaken /\ Ahead /\ OnceAndInOrder

LEMMA InvInit == Init => IInv
<1> SUFFICES ASSUME Init PROVE IInv
  OBVIOUS
<1>1. Elements(<< >>) = {} /\ Ascending(<< >>)
  BY ElementsOfNone
<1>2. Bounded /\ Rising /\ Carriers
  BY <1>1, ConstantsAssumption DEF Init, Bounded, Rising, Carriers
<1>3. Overtaken /\ Ahead
  BY <1>1 DEF Init, Overtaken, Ahead
<1>4. OnceAndInOrder
  BY ConstantsAssumption DEF Init, OnceAndInOrder
<1> QED
  BY <1>2, <1>3, <1>4 DEF IInv

\* What the invariant says of an event that is not moot: whether it waits is
\* a matter of one carrier.
LEMMA OneCarrier ==
  ASSUME TypeOK, IInv, NEW e \in 1..sent \ moot
  PROVE  /\ e \in Elements(handled) \/ Waiting(e)
         /\ e \in Elements(queue) => link = "up" /\ about[e] \notin sse_resources
         /\ e = handling => about[e] \in sse_resources
<1>1. e \in Events
  BY ConstantsAssumption DEF TypeOK, Events
<1>2. e \in Elements(handled) \/ Waiting(e)
  BY DEF IInv, OnceAndInOrder, Pending, Waiting
<1>3. e \in Elements(queue) => link = "up" /\ about[e] \notin sse_resources
  <2>1. link = "down" => e \notin Elements(queue)
    BY ElementsOfNone DEF IInv, Carriers
  <2>2. link = "subscribed" => e \notin Elements(queue)
    BY DEF IInv, Overtaken
  <2> QED
    BY <2>1, <2>2, <1>1 DEF IInv, Carriers, TypeOK
<1>4. e = handling => about[e] \in sse_resources
  BY <1>1, ConstantsAssumption DEF IInv, Overtaken
<1> QED
  BY <1>2, <1>3, <1>4

\* The handlers of an event that waited have run: order is kept.
LEMMA OrderKept ==
  ASSUME TypeOK, IInv, NEW e \in 1..sent, e \notin moot => Waiting(e),
         handled' = Append(handled, e), UNCHANGED <<about, moot>>
  PROVE  \A i, j \in DOMAIN handled' :
           (/\ i < j
            /\ about'[handled'[i]] = about'[handled'[j]]
            /\ {handled'[i], handled'[j]} \intersect moot' = {})
           => handled'[i] < handled'[j]
<1>1. e \in Events /\ handled \in Seq(Events)
  BY ConstantsAssumption DEF TypeOK, Events
<1>2. /\ DOMAIN handled = 1..Len(handled) /\ Len(handled) \in Nat
      /\ DOMAIN handled' = 1..Len(handled) + 1
      /\ handled'[Len(handled) + 1] = e
      /\ \A i \in 1..Len(handled) : handled'[i] = handled[i]
  BY <1>1
<1> SUFFICES ASSUME NEW i \in 1..Len(handled) + 1,
                    NEW j \in 1..Len(handled) + 1,
                    i < j, about[handled'[i]] = about[handled'[j]],
                    handled'[i] \notin moot, handled'[j] \notin moot
             PROVE  handled'[i] < handled'[j]
  BY <1>2
<1>3. i \in 1..Len(handled) /\ (j \in 1..Len(handled) \/ j = Len(handled) + 1)
  BY <1>2
<1>4. CASE j \in 1..Len(handled)
  <2>1. handled'[i] = handled[i] /\ handled'[j] = handled[j]
    BY <1>2, <1>3, <1>4
  <2> QED
    BY <2>1, <1>2, <1>3, <1>4 DEF IInv, OnceAndInOrder
<1>5. CASE j = Len(handled) + 1
  <2>1. handled'[i] = handled[i] /\ handled'[j] = e
    BY <1>2, <1>3, <1>5
  <2>2. handled[i] \in Elements(handled)
    BY <1>2, <1>3 DEF Elements
  <2> QED
    BY <2>1, <2>2 DEF IInv, Ahead
<1> QED
  BY <1>3, <1>4, <1>5

LEMMA InvPublish ==
  ASSUME TypeOK, IInv, Publish
  PROVE  IInv'
<1> DEFINE new == sent + 1
<1>1. /\ new \in Events /\ sent' = new /\ sent \in Nat
      /\ \A x \in 1..sent : x < new
      /\ 1..sent' = 1..sent \union {new}
  BY ConstantsAssumption DEF Publish, TypeOK, Events
<1>2. /\ UNCHANGED <<about, link, granted, sse_resources, sse, handling, handled>>
      /\ queue \in Seq(Events) /\ frames \in Seq(Events)
  BY DEF Publish, TypeOK, sync_vars
<1>3. /\ moot \subseteq moot'
      /\ \A x \in 1..sent : x \in moot' <=> x \in moot
      /\ new \in moot' \/ Settled(about[new])
  BY <1>1 DEF Publish
<1>4. /\ Elements(queue') = Elements(queue) \/
           /\ Elements(queue') = Elements(queue) \union {new}
           /\ link # "down" /\ about[new] \in granted
      /\ (link # "down" /\ about[new] \in granted) => new \in Elements(queue')
      /\ link = "down" => queue' = queue
  BY <1>1, <1>2, ElementsOfAppend DEF Publish
<1>5. /\ Elements(frames') = Elements(frames) \/
           Elements(frames') = Elements(frames) \union {new}
      /\ Connected => new \in Elements(frames')
  BY <1>1, <1>2, ElementsOfAppend DEF Publish
<1>6. /\ Elements(queue) \subseteq Elements(queue')
      /\ Elements(frames) \subseteq Elements(frames')
  BY <1>4, <1>5
<1> HIDE DEF new
<1>7. Bounded'
  BY <1>1, <1>2, <1>4, <1>5 DEF IInv, Bounded
<1>8. Rising'
  <2>1. Ascending(queue') /\ Ascending(frames')
    BY <1>1, <1>2, AscendingAppend DEF IInv, Rising, Bounded, Publish, new
  <2>2. handling # None => handling < new
    BY <1>1 DEF IInv, Bounded
  <2> QED
    BY <2>1, <2>2, <1>2, <1>5 DEF IInv, Rising
<1>9. Carriers'
  BY <1>2, <1>4 DEF IInv, Carriers
<1>10. Overtaken'
  <2>1. link = "subscribed" => new \in moot'
    BY <1>3 DEF Settled
  <2> QED
    BY <2>1, <1>2, <1>3, <1>4, <1>5 DEF IInv, Overtaken
<1>11. Ahead'
  <2> SUFFICES ASSUME NEW x \in Elements(handled) \ moot',
                      NEW e \in 1..sent' \ moot',
                      Waiting(e)', about[x] = about[e]
               PROVE  x < e
    BY <1>2 DEF Ahead
  <2>1. x \in 1..sent /\ x \notin moot
    BY <1>3 DEF IInv, Bounded
  <2>2. CASE e = new
    BY <2>1, <2>2, <1>1
  <2>3. CASE e # new
    <3>1. e \in 1..sent \ moot /\ Waiting(e)
      BY <2>3, <1>1, <1>2, <1>3, <1>4, <1>5 DEF Waiting
    <3> QED
      BY <3>1, <2>1 DEF IInv, Ahead
  <2> QED
    BY <2>2, <2>3
<1>12. OnceAndInOrder'
  <2>1. ASSUME NEW e \in 1..sent' \ moot'
        PROVE  (e \in Elements(handled) \/ Pending(e))'
    <3>1. CASE e = new
      <4>1. about[e] \in Resources
        BY <3>1, <1>1 DEF TypeOK
      <4>2. CASE about[e] \in sse_resources
        BY <4>2, <3>1, <1>2, <1>3, <1>5, <2>1 DEF Settled, Pending
      <4>3. CASE about[e] \notin sse_resources
        <5>1. link = "up" /\ about[e] \in granted
          BY <4>1, <4>3, <3>1, <1>3, <2>1 DEF Settled, IInv, Carriers
        <5> QED
          BY <5>1, <4>3, <3>1, <1>2, <1>4 DEF Pending
      <4> QED
        BY <4>2, <4>3
    <3>2. CASE e # new
      <4>1. e \in 1..sent \ moot
        BY <3>2, <1>1, <1>3, <2>1
      <4> QED
        BY <4>1, <1>2, <1>6 DEF IInv, OnceAndInOrder, Pending
    <3> QED
      BY <3>1, <3>2
  <2>2. \A i \in DOMAIN handled : handled[i] \in 1..sent
    BY DEF IInv, Bounded, Elements
  <2>3. ASSUME NEW i \in DOMAIN handled, NEW j \in DOMAIN handled, i < j,
               about[handled[i]] = about[handled[j]],
               handled[i] \notin moot', handled[j] \notin moot'
        PROVE  handled[i] < handled[j]
    BY <2>2, <2>3, <1>3 DEF IInv, OnceAndInOrder
  <2> QED
    BY <2>1, <2>3, <1>2 DEF OnceAndInOrder
<1> QED
  BY <1>7, <1>8, <1>9, <1>10, <1>11, <1>12 DEF IInv

\* Where nothing is handled, moot events are only added and every event that
\* is not moot waits or has been handled as before, the order stands.
LEMMA OrderStands ==
  ASSUME TypeOK, IInv, UNCHANGED <<about, sent, handled>>, moot \subseteq moot',
         \A e \in 1..sent \ moot' : Waiting(e)' => Waiting(e),
         \A e \in 1..sent \ moot' :
           e \notin Elements(handled) => Pending(e)'
  PROVE  Ahead' /\ OnceAndInOrder'
<1>1. Ahead'
  <2> SUFFICES ASSUME NEW x \in Elements(handled) \ moot',
                      NEW e \in 1..sent \ moot', Waiting(e)', about[x] = about[e]
               PROVE  x < e
    BY DEF Ahead
  <2> QED
    BY DEF IInv, Ahead
<1>2. OnceAndInOrder'
  BY DEF IInv, OnceAndInOrder
<1> QED
  BY <1>1, <1>2

LEMMA InvBrokerSubscribes ==
  ASSUME TypeOK, IInv, BrokerSubscribes
  PROVE  IInv'
<1>1. /\ UNCHANGED <<about, sent, queue, sse_resources, sse, frames, handling,
                     handled>>
      /\ link = "down" /\ link' = "subscribed" /\ sse # "stopping"
      /\ moot \subseteq moot'
      /\ Elements(frames) \subseteq moot'
      /\ handling \in moot' \union {None}
  BY DEF BrokerSubscribes, history, sync_vars, sse_vars
<1>2. queue = << >> /\ Elements(queue) = {}
  BY <1>1, ElementsOfNone DEF IInv, Carriers
<1>3. Bounded' /\ Rising'
  BY <1>1 DEF IInv, Bounded, Rising
<1>4. Carriers' /\ Overtaken'
  BY <1>1, <1>2 DEF IInv, Carriers, Overtaken
<1>5. \A e \in 1..sent \ moot' : Waiting(e)' => Waiting(e)
  BY <1>1 DEF Waiting
<1>6. ASSUME NEW e \in 1..sent \ moot', e \notin Elements(handled)
      PROVE  Pending(e)'
  <2>1. e \notin moot /\ Waiting(e)
    BY <1>1, <1>6, OneCarrier
  <2>2. e # None
    BY ConstantsAssumption DEF TypeOK, Events
  <2> QED
    BY <2>1, <2>2, <1>1, <1>2 DEF Waiting
<1> QED
  BY <1>1, <1>3, <1>4, <1>5, <1>6, OrderStands DEF IInv

\* While the verdict is unread nothing that is not moot waits, so the new gap
\* takes no event from one carrier to the other.
LEMMA InvSubackRead ==
  ASSUME TypeOK, IInv, SubackRead
  PROVE  IInv'
<1>1. /\ UNCHANGED <<about, sent, granted, queue, frames, handling, handled,
                     moot>>
      /\ link = "subscribed" /\ link' = "up"
      /\ sse_resources' = Resources \ granted
  BY DEF SubackRead, Gap, NewResources, history
<1>2. Elements(queue) \subseteq moot /\ Elements(frames) \subseteq moot
      /\ handling \in moot \union {None}
  BY <1>1 DEF IInv, Overtaken
<1>3. Bounded' /\ Rising'
  BY <1>1 DEF IInv, Bounded, Rising
<1>4. sse' = "stopping" => sse_resources' = {}
  <2>1. sse # "stopping"
    BY <1>1 DEF IInv, Carriers
  <2> QED
    BY <2>1, <1>1 DEF SubackRead, Gap
<1>5. Carriers' /\ Overtaken'
  BY <1>1, <1>2, <1>4 DEF IInv, Carriers, Overtaken
<1>6. ASSUME NEW e \in 1..sent \ moot PROVE ~Waiting(e)'
  <2>1. e # None
    BY ConstantsAssumption DEF TypeOK, Events
  <2> QED
    BY <2>1, <1>1, <1>2 DEF Waiting
<1>7. ASSUME NEW e \in 1..sent \ moot PROVE e \in Elements(handled)
  <2>1. e # None
    BY ConstantsAssumption DEF TypeOK, Events
  <2> QED
    BY <2>1, <1>2, OneCarrier DEF Waiting
<1> QED
  BY <1>1, <1>3, <1>5, <1>6, <1>7, OrderStands DEF IInv

LEMMA InvMqttHandles ==
  ASSUME TypeOK, IInv, MqttHandles
  PROVE  IInv'
<1> DEFINE e == Head(queue)
<1>1. /\ UNCHANGED <<about, sent, link, granted, sse_resources, sse, frames,
                     handling, moot>>
      /\ queue \in Seq(Events) /\ queue # << >> /\ queue' = Tail(queue)
      /\ handled \in Seq(Events) /\ handled' = Append(handled, e)
  BY DEF MqttHandles, TypeOK, history, sync_vars, sse_vars
<1>2. /\ e \in Events
      /\ Elements(queue) = Elements(queue') \union {e}
      /\ Elements(handled') = Elements(handled) \union {e}
  BY <1>1, ElementsOfTail, ElementsOfAppend
<1>3. /\ Ascending(queue')
      /\ \A x \in Elements(queue') : e < x
  BY <1>1, AscendingTail DEF IInv, Rising
<1>4. e \in Elements(queue) /\ Waiting(e) /\ e \in 1..sent
  BY <1>2 DEF Waiting, IInv, Bounded
<1> HIDE DEF e
<1>5. Bounded' /\ Rising'
  BY <1>1, <1>2, <1>3, <1>4 DEF IInv, Bounded, Rising
<1>6. Carriers' /\ Overtaken'
  <2>1. link = "down" => FALSE
    BY <1>1 DEF IInv, Carriers
  <2> QED
    BY <2>1, <1>1, <1>2 DEF IInv, Carriers, Overtaken
<1>7. Ahead'
  <2> SUFFICES ASSUME NEW x \in Elements(handled') \ moot,
                      NEW f \in 1..sent \ moot, Waiting(f)', about[x] = about[f]
               PROVE  x < f
    BY <1>1 DEF Ahead
  <2>1. Waiting(f)
    BY <1>1, <1>2 DEF Waiting
  <2>2. CASE x = e
    <3>1. about[f] \notin sse_resources
      BY <2>2, <1>4, OneCarrier
    <3>2. f \in Elements(queue')
      BY <3>1, <1>1, OneCarrier DEF Waiting
    <3> QED
      BY <3>2, <2>2, <1>3
  <2>3. CASE x \in Elements(handled)
    BY <2>1, <2>3 DEF IInv, Ahead
  <2> QED
    BY <2>2, <2>3, <1>2
<1>8. OnceAndInOrder'
  <2>1. ASSUME NEW f \in 1..sent \ moot
        PROVE  (f \in Elements(handled) \/ Pending(f))'
    BY <1>1, <1>2 DEF IInv, OnceAndInOrder, Pending
  <2>2. \A i, j \in DOMAIN handled' :
          (/\ i < j
           /\ about'[handled'[i]] = about'[handled'[j]]
           /\ {handled'[i], handled'[j]} \intersect moot' = {})
          => handled'[i] < handled'[j]
    BY <1>1, <1>4, OrderKept
  <2> QED
    BY <2>1, <2>2, <1>1 DEF OnceAndInOrder
<1> QED
  BY <1>5, <1>6, <1>7, <1>8 DEF IInv

LEMMA InvMqttDrops ==
  ASSUME TypeOK, IInv, MqttDrops
  PROVE  IInv'
<1>1. /\ UNCHANGED <<about, sent, sse_resources, sse, frames, handling, handled>>
      /\ link' = "down" /\ queue' = << >> /\ Elements(queue') = {}
      /\ moot' = moot \union Elements(queue)
  BY ElementsOfNone DEF MqttDrops, history, sync_vars, sse_vars
<1>2. Bounded' /\ Rising'
  BY <1>1, ElementsOfNone DEF IInv, Bounded, Rising
<1>3. Carriers' /\ Overtaken'
  BY <1>1 DEF IInv, Carriers, Overtaken
<1>4. \A e \in 1..sent \ moot' : Waiting(e)' => Waiting(e)
  BY <1>1 DEF Waiting
<1>5. ASSUME NEW e \in 1..sent \ moot', e \notin Elements(handled)
      PROVE  Pending(e)'
  BY <1>1, <1>5 DEF IInv, OnceAndInOrder, Pending
<1> QED
  BY <1>1, <1>2, <1>3, <1>4, <1>5, OrderStands DEF IInv

\* A supplement is only stopped when there is no gap: what it still carries
\* is MQTT's.
LEMMA InvSseStopped ==
  ASSUME TypeOK, IInv, SseStopped
  PROVE  IInv'
<1>1. /\ UNCHANGED <<about, sent, link, granted, queue, sse_resources, handled,
                     moot>>
      /\ sse_resources = {} /\ sse' = None /\ link # "subscribed"
      /\ frames' = << >> /\ Elements(frames') = {} /\ Ascending(frames')
      /\ handling' = None
  BY ElementsOfNone
  DEF SseStopped, AfterStop, history, mqtt_vars, IInv, Carriers
<1>2. Bounded' /\ Rising'
  BY <1>1 DEF IInv, Bounded, Rising
<1>3. Carriers'
  BY <1>1 DEF IInv, Carriers
<1>4. Overtaken'
  BY <1>1 DEF IInv, Overtaken
<1>5. \A e \in 1..sent \ moot' : Waiting(e)' => Waiting(e)
  <2>1. None \notin 1..sent
    BY ConstantsAssumption DEF TypeOK, Events
  <2> QED
    BY <2>1, <1>1 DEF Waiting
<1>6. ASSUME NEW e \in 1..sent \ moot', e \notin Elements(handled)
      PROVE  Pending(e)'
  BY <1>1, <1>6 DEF IInv, OnceAndInOrder, Pending
<1> QED
  BY <1>1, <1>2, <1>3, <1>4, <1>5, <1>6, OrderStands DEF IInv

LEMMA InvSseReads ==
  ASSUME TypeOK, IInv, SseReads
  PROVE  IInv'
<1> DEFINE e == Head(frames)
<1>1. /\ UNCHANGED <<about, sent, link, granted, queue, sse_resources, sse,
                     handled, moot>>
      /\ frames \in Seq(Events) /\ frames # << >> /\ frames' = Tail(frames)
      /\ handling = None
      /\ handling' = IF about[e] \in sse_resources THEN e ELSE None
  BY DEF SseReads, FillsGap, TypeOK, history, mqtt_vars, sync_vars
<1>2. e \in Events /\ Elements(frames) = Elements(frames') \union {e}
  BY <1>1, ElementsOfTail
<1>3. /\ Ascending(frames')
      /\ \A x \in Elements(frames') : e < x
  BY <1>1, AscendingTail DEF IInv, Rising
<1>4. e \in 1..sent /\ None \notin 1..sent
  BY <1>2, ConstantsAssumption DEF IInv, Bounded, TypeOK, Events
<1> HIDE DEF e
<1>5. Bounded' /\ Rising'
  BY <1>1, <1>2, <1>3, <1>4 DEF IInv, Bounded, Rising
<1>6. Carriers' /\ Overtaken'
  BY <1>1, <1>2 DEF IInv, Carriers, Overtaken
<1>7. \A f \in 1..sent \ moot' : Waiting(f)' => Waiting(f)
  BY <1>1, <1>2, <1>4 DEF Waiting
<1>8. ASSUME NEW f \in 1..sent \ moot', f \notin Elements(handled)
      PROVE  Pending(f)'
  BY <1>1, <1>2, <1>4, <1>8 DEF IInv, OnceAndInOrder, Pending
<1> QED
  BY <1>1, <1>5, <1>6, <1>7, <1>8, OrderStands DEF IInv

LEMMA InvSseHandled ==
  ASSUME TypeOK, IInv, SseHandled
  PROVE  IInv'
<1> DEFINE e == handling
<1>1. /\ UNCHANGED <<about, sent, link, granted, queue, sse_resources, sse,
                     frames, moot>>
      /\ handling # None /\ handling' = None
      /\ handled \in Seq(Events) /\ handled' = Append(handled, e)
  BY DEF SseHandled, TypeOK, history, mqtt_vars, sync_vars
<1>2. e \in Events /\ e \in 1..sent /\ Waiting(e) /\ None \notin 1..sent
  BY <1>1, ConstantsAssumption DEF TypeOK, IInv, Bounded, Waiting, Events
<1>3. Elements(handled') = Elements(handled) \union {e}
  BY <1>1, <1>2, ElementsOfAppend
<1>4. \A x \in Elements(frames) : e < x
  BY <1>1 DEF IInv, Rising
<1>5. Bounded' /\ Rising'
  BY <1>1, <1>2, <1>3 DEF IInv, Bounded, Rising
<1>6. Carriers' /\ Overtaken'
  BY <1>1 DEF IInv, Carriers, Overtaken
<1>7. Ahead'
  <2> SUFFICES ASSUME NEW x \in Elements(handled') \ moot,
                      NEW f \in 1..sent \ moot, Waiting(f)', about[x] = about[f]
               PROVE  x < f
    BY <1>1 DEF Ahead
  <2>1. Waiting(f)
    BY <1>1, <1>2 DEF Waiting
  <2>2. CASE x = e
    <3>1. about[f] \in sse_resources
      BY <2>2, <1>2, OneCarrier
    <3>2. f \in Elements(frames)
      BY <3>1, <1>1, <1>2, OneCarrier DEF Waiting
    <3> QED
      BY <3>2, <2>2, <1>4
  <2>3. CASE x \in Elements(handled)
    BY <2>1, <2>3 DEF IInv, Ahead
  <2> QED
    BY <2>2, <2>3, <1>3
<1>8. OnceAndInOrder'
  <2>1. ASSUME NEW f \in 1..sent \ moot
        PROVE  (f \in Elements(handled) \/ Pending(f))'
    BY <1>1, <1>3 DEF IInv, OnceAndInOrder, Pending
  <2>2. \A i, j \in DOMAIN handled' :
          (/\ i < j
           /\ about'[handled'[i]] = about'[handled'[j]]
           /\ {handled'[i], handled'[j]} \intersect moot' = {})
          => handled'[i] < handled'[j]
    BY <1>1, <1>2, OrderKept
  <2> QED
    BY <2>1, <2>2, <1>1 DEF OnceAndInOrder
<1> QED
  BY <1>5, <1>6, <1>7, <1>8 DEF IInv

LEMMA InvSessionOver ==
  ASSUME TypeOK, IInv, SessionOver
  PROVE  IInv'
<1>1. /\ UNCHANGED <<about, sent, link, granted, queue, sse_resources, sse,
                     handling, handled>>
      /\ handling = None
      /\ frames' = << >> /\ Elements(frames') = {} /\ Ascending(frames')
      /\ moot' = moot \union Elements(frames)
  BY ElementsOfNone DEF SessionOver, history, mqtt_vars, sync_vars
<1>2. Bounded' /\ Rising'
  BY <1>1 DEF IInv, Bounded, Rising
<1>3. Carriers' /\ Overtaken'
  BY <1>1 DEF IInv, Carriers, Overtaken
<1>4. \A e \in 1..sent \ moot' : Waiting(e)' => Waiting(e)
  BY <1>1 DEF Waiting
<1>5. ASSUME NEW e \in 1..sent \ moot', e \notin Elements(handled)
      PROVE  Pending(e)'
  BY <1>1, <1>5 DEF IInv, OnceAndInOrder, Pending
<1> QED
  BY <1>1, <1>2, <1>3, <1>4, <1>5, OrderStands DEF IInv

\* The loop of the supplement goes on without touching an event.
LEMMA InvUntouched ==
  ASSUME IInv,
         UNCHANGED <<about, sent, link, granted, queue, sse_resources, sse,
                     frames, handling, handled, moot>>
  PROVE  IInv'
<1>1. Bounded' /\ Rising' /\ Carriers' /\ Overtaken'
  BY DEF IInv, Bounded, Rising, Carriers, Overtaken
<1>2. Ahead' /\ OnceAndInOrder'
  BY DEF IInv, Ahead, OnceAndInOrder, Waiting, Pending
<1> QED
  BY <1>1, <1>2 DEF IInv

LEMMA InvStep == TypeOK /\ IInv /\ [Next]_vars => IInv'
<1> SUFFICES ASSUME TypeOK, IInv, [Next]_vars PROVE IInv'
  OBVIOUS
<1>1. CASE Publish
  BY <1>1, InvPublish
<1>2. CASE BrokerSubscribes
  BY <1>2, InvBrokerSubscribes
<1>3. CASE SubackRead
  BY <1>3, InvSubackRead
<1>4. CASE MqttHandles
  BY <1>4, InvMqttHandles
<1>5. CASE MqttDrops
  BY <1>5, InvMqttDrops
<1>6. CASE SseStopped
  BY <1>6, InvSseStopped
<1>7. CASE SseReads
  BY <1>7, InvSseReads
<1>8. CASE SseHandled
  BY <1>8, InvSseHandled
<1>9. CASE SseBreaks \/ SseLoggedOut \/ SseEnds \/ SseTimesOut
  BY <1>9, InvSessionOver DEF SseBreaks, SseLoggedOut, SseEnds, SseTimesOut
<1>10. CASE SseConnects \/ SseRefused \/ SsePauseEnds \/ UNCHANGED vars
  <2>1. UNCHANGED <<about, sent, link, granted, queue, sse_resources, sse,
                    frames, handling, handled, moot>>
    BY <1>10
    DEF SseConnects, SseRefused, SsePauseEnds, vars, history, mqtt_vars,
        sync_vars, sse_vars
  <2> QED
    BY <2>1, InvUntouched
<1> QED
  BY <1>1, <1>2, <1>3, <1>4, <1>5, <1>6, <1>7, <1>8, <1>9, <1>10 DEF Next

\* Whichever carrier the broker's verdicts give a resource to, and however
\* connections come and go, an event whose carrier was settled is handled
\* once and in order, or still waits at that carrier.
THEOREM HandledOnceAndInOrder == Spec => []OnceAndInOrder
<1>1. Init => TypeOK /\ IInv
  BY TypeInit, InvInit
<1>2. TypeOK /\ IInv /\ [Next]_vars => (TypeOK /\ IInv)'
  BY TypeStep, InvStep
<1>3. IInv => OnceAndInOrder
  BY DEF IInv
<1> QED
  BY <1>1, <1>2, <1>3, PTL DEF Spec
=============================================================================
