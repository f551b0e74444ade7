------------------------- MODULE DeviceStateProofs -------------------------
(***************************************************************************)
(* Proofs about DeviceState, for any properties of the devices, whichever  *)
(* of them are published, reported and listed, and any number of frames on *)
(* their way: what a type-correct state is, that a published property is   *)
(* shown wrong only with an excuse, and that nothing known is forgotten.   *)
(***************************************************************************)
EXTENDS DeviceState, TLAPS

\* A block is a partial assignment of properties.
LEMMA BlockIsPartial ==
  ASSUME NEW block \in Blocks
  PROVE  /\ DOMAIN block \subseteq Fields
         /\ \A f \in DOMAIN block : block[f] \in BOOLEAN
  BY DEF Blocks

LEMMA AssignmentIsBlock ==
  ASSUME NEW D \in SUBSET Fields, NEW block \in [D -> BOOLEAN]
  PROVE  block \in Blocks
  BY DEF Blocks

\* Folding a block in keeps the type of what is known.
LEMMA MergeType ==
  ASSUME device_states \in [Fields -> BOOLEAN \union {None}],
         NEW block \in Blocks
  PROVE  Merge(block) \in [Fields -> BOOLEAN \union {None}]
  BY BlockIsPartial DEF Merge

LEMMA FrameParts ==
  ASSUME NEW frame \in Frames
  PROVE  /\ frame.block \in Blocks
         /\ frame.link \in MaybeLink
  BY DEF Frames

\* The answer in flight is a list, or is known to be lost.
LEMMA AnswerIsFrame ==
  ASSUME TypeOK, answer \notin {Lost, None}
  PROVE  answer \in Frames
  BY DEF TypeOK

LEMMA PublishType ==
  ASSUME TypeOK, NEW frame \in Frames, Publish(frame)
  PROVE  feed' \in Seq(Frames)
  BY DEF TypeOK, Publish

LEMMA NothingOnItsWay == << >> \in Seq(Frames)
  OBVIOUS

\* The initial states are type-correct.
LEMMA TypeInit == Init => TypeOK
  BY NothingOnItsWay
  DEF Init, TypeOK, Unknown, MaybeLink, Steps, Rest

\* Every step keeps the types.
LEMMA TypeStep == TypeOK /\ [Next]_vars => TypeOK'
<1> SUFFICES ASSUME TypeOK, [Next]_vars PROVE TypeOK'
  OBVIOUS
<1> USE ConstantsAssumption
<1>1. ASSUME NEW f \in Fields, DeviceChanges(f) PROVE TypeOK'
  <2> DEFINE frame == [block |-> [g \in {f} |-> ~actual[f]], link |-> None]
  <2>1. [g \in {f} |-> ~actual[f]] \in Blocks
    BY AssignmentIsBlock DEF TypeOK
  <2>2. frame \in Frames
    BY <2>1 DEF Frames, MaybeLink
  <2>3. feed' \in Seq(Frames)
    BY <1>1, <2>2, PublishType DEF DeviceChanges, TypeOK
  <2>4. actual' \in [Fields -> BOOLEAN]
    BY <1>1 DEF DeviceChanges, TypeOK
  <2>5. excused' \in SUBSET Pushed
    BY <1>1 DEF DeviceChanges, TypeOK
  <2> QED
    BY <1>1, <2>3, <2>4, <2>5 DEF DeviceChanges, TypeOK, known
<1>2. CASE HubComesOrGoes
  BY <1>2 DEF HubComesOrGoes, TypeOK, stream, known
<1>3. CASE StreamDrops
  BY <1>3, NothingOnItsWay DEF StreamDrops, TypeOK, hub, known
<1>4. CASE SetupFails
  BY <1>4 DEF SetupFails, TypeOK, hub, stream, known, Steps, Rest
<1>5. ASSUME StartOver PROVE TypeOK'
  BY <1>5, NothingOnItsWay DEF StartOver, TypeOK, hub, Unknown, MaybeLink, Steps, Rest
<1>6. CASE TickConnectFails \/ TickRuns
  BY <1>6 DEF TickConnectFails, TickRuns, TickGoesOn, TypeOK, hub, known,
              Steps, Rest
<1>7. CASE TickAuthFails
  BY <1>7 DEF TickAuthFails, TypeOK, hub, stream, known, Steps, Rest
<1>8. CASE RegisterLost \/ RegisterRefused
  BY <1>8 DEF RegisterLost, RegisterRefused, NoRegistration, Then, SettingUp,
              StatusAfterFailure, TypeOK, stream, MaybeLink, Steps, Rest
<1>9. CASE PullLost \/ PullRefused
  BY <1>9 DEF PullLost, PullRefused, NoPull, Then, SettingUp, TypeOK, hub,
              stream, known, Steps, Rest
<1>10. CASE ListLost
  BY <1>10 DEF ListLost, TypeOK, hub, stream, known
<1>11. CASE HubAnswers
  <2> DEFINE frame == [block |-> [f \in Reported |-> actual[f]],
                       link |-> "available"]
  <2>1. [f \in Reported |-> actual[f]] \in Blocks
    BY AssignmentIsBlock DEF TypeOK
  <2>2. frame \in Frames
    BY <2>1 DEF Frames, MaybeLink
  <2>3. feed' \in Seq(Frames)
    BY <1>11, <2>2, PublishType DEF HubAnswers
  <2> QED
    BY <1>11, <2>3 DEF HubAnswers, TypeOK, known
<1>12. CASE HubIgnores
  BY <1>12 DEF HubIgnores, TypeOK, stream, known
<1>13. ASSUME NEW f \in Listed, CloudCopies(f) PROVE TypeOK'
  BY <1>13 DEF CloudCopies, TypeOK, stream, known
<1>14. CASE SetupConnects
  BY <1>14 DEF SetupConnects, TypeOK, hub, known, Steps, Rest
<1>15. CASE TickDue
  BY <1>15 DEF TickDue, TypeOK, hub, stream, known, Steps, Rest
<1>16. CASE RegisterSucceeds
  BY <1>16 DEF RegisterSucceeds, Then, SettingUp, TypeOK, stream, MaybeLink,
               Steps, Rest
<1>17. CASE PullSucceeds
  BY <1>17 DEF PullSucceeds, Then, SettingUp, TypeOK, stream, known, Steps,
               Rest
<1>18. CASE ListRead
  <2>1. cloud \in Blocks
    BY AssignmentIsBlock DEF TypeOK
  <2>2. answer' \in Frames
    BY <1>18, <2>1 DEF ListRead, Frames, MaybeLink, Reachability
  <2> QED
    BY <1>18, <2>2 DEF ListRead, TypeOK, hub, stream, known
<1>19. CASE ListArrives
  <2>1. answer \in Frames
    BY <1>19, AnswerIsFrame DEF ListArrives
  <2>2. device_states' \in [Fields -> BOOLEAN \union {None}]
    BY <1>19, <2>1, FrameParts, MergeType DEF ListArrives, TypeOK
  <2>3. basestation_connection' \in MaybeLink
    BY <1>19, <2>1, FrameParts DEF ListArrives, Link, TypeOK
  <2>4. main' \in Steps \union Rest
    BY <1>19 DEF ListArrives, Finish, Steps, Rest
  <2>5. excused' \in SUBSET Pushed
    BY <1>19 DEF ListArrives, TypeOK
  <2> QED
    BY <1>19, <2>2, <2>3, <2>4, <2>5 DEF ListArrives, TypeOK, hub, stream
<1>20. CASE ListFailed
  BY <1>20 DEF ListFailed, Finish, TypeOK, hub, stream, known, Steps, Rest
<1>21. CASE Dispatch
  <2>1. Head(feed) \in Frames /\ Tail(feed) \in Seq(Frames)
    BY <1>21 DEF Dispatch, TypeOK
  <2>2. device_states' \in [Fields -> BOOLEAN \union {None}]
    BY <1>21, <2>1, FrameParts, MergeType DEF Dispatch, TypeOK
  <2>3. basestation_connection' \in MaybeLink
    BY <1>21, <2>1, FrameParts DEF Dispatch, Link, TypeOK
  <2>4. excused' \in SUBSET Pushed
    BY <1>21 DEF Dispatch, TypeOK
  <2> QED
    BY <1>21, <2>1, <2>2, <2>3, <2>4 DEF Dispatch, TypeOK, hub
<1>22. CASE StreamReconnects
  BY <1>22 DEF StreamReconnects, TypeOK, hub, known
<1>23. CASE RegistrationExpires
  BY <1>23 DEF RegistrationExpires, TypeOK, stream, known
<1>24. CASE HubSpeaks
  <2>1. [f \in {} |-> TRUE] \in Blocks
    <3>1. [f \in {} |-> TRUE] \in [{} -> BOOLEAN]
      OBVIOUS
    <3> QED
      BY <3>1 DEF Blocks
  <2>2. [block |-> [f \in {} |-> TRUE], link |-> "available"] \in Frames
    BY <2>1 DEF Frames, MaybeLink
  <2>3. feed' \in Seq(Frames)
    BY <1>24, <2>2, PublishType DEF HubSpeaks
  <2> QED
    BY <1>24, <2>3 DEF HubSpeaks, TypeOK, hub, known
<1>25. CASE UNCHANGED vars
  BY <1>25 DEF vars, TypeOK, hub, stream, known
<1> QED
  BY <1>1, <1>2, <1>3, <1>4, <1>5, <1>6, <1>7, <1>8, <1>9, <1>10, <1>11,
     <1>12, <1>13, <1>14, <1>15, <1>16, <1>17, <1>18, <1>19, <1>20, <1>21,
     <1>22, <1>23, <1>24, <1>25
  DEF Next, Environment, HubOrCloud, Coordinator, RetrySetup, Restart

\* What the coordinator knows of the devices, of the hub and of its own place
\* has its type in every reachable state.
THEOREM TypeCorrect == Spec => []TypeOK
<1>1. Init => TypeOK
  BY TypeInit
<1>2. TypeOK /\ [Next]_vars => TypeOK'
  BY TypeStep
<1> QED
  BY <1>1, <1>2, PTL DEF Spec

----------------------------------------------------------------------------
(* Shown wrong only with an excuse.  A frame on its way may be older than   *)
(* the last change, so the invariant is about the last frame that carries  *)
(* the property: it tells what holds, unless there is an excuse already.   *)

LastWord(frames, f, value) ==
  \A i \in 1..Len(frames) :
    (/\ f \in DOMAIN frames[i].block
     /\ \A j \in i + 1..Len(frames) : f \notin DOMAIN frames[j].block)
    => frames[i].block[f] = value

LastWordHolds ==
  \A f \in Pushed : f \in excused \/ LastWord(feed, f, actual[f])

IInv == TypeOK /\ LastWordHolds /\ WrongOnlyIfExcused

LEMMA CarriedByAppend ==
  ASSUME NEW s \in Seq(Frames), NEW frame \in Frames
  PROVE  Carried(Append(s, frame)) = Carried(s) \union DOMAIN frame.block
<1>1. DOMAIN s = 1..Len(s) /\ DOMAIN Append(s, frame) = 1..Len(s) + 1
  OBVIOUS
<1>2. \A i \in 1..Len(s) : Append(s, frame)[i] = s[i]
  OBVIOUS
<1>3. Append(s, frame)[Len(s) + 1] = frame /\ Len(s) \in Nat
  OBVIOUS
<1>4. \A i \in 1..Len(s) + 1 : i \in 1..Len(s) \/ i = Len(s) + 1
  BY <1>3
<1>5. 1..Len(s) \subseteq 1..Len(s) + 1 /\ Len(s) + 1 \in 1..Len(s) + 1
  BY <1>3
<1>6. ASSUME NEW f
      PROVE  f \in Carried(Append(s, frame)) <=>
               f \in Carried(s) \/ f \in DOMAIN frame.block
  <2>1. f \in Carried(Append(s, frame)) <=>
          \E i \in 1..Len(s) + 1 : f \in DOMAIN Append(s, frame)[i].block
    BY <1>1 DEF Carried
  <2>2. f \in Carried(s) <=> \E i \in 1..Len(s) : f \in DOMAIN s[i].block
    BY <1>1 DEF Carried
  <2> QED
    BY <2>1, <2>2, <1>2, <1>3, <1>4, <1>5
<1> QED
  BY <1>6

LEMMA CarriedByFirst ==
  ASSUME NEW s \in Seq(Frames), s # << >>
  PROVE  Carried(s) = Carried(Tail(s)) \union DOMAIN Head(s).block
<1>1. /\ DOMAIN s = 1..Len(s)
      /\ DOMAIN Tail(s) = 1..Len(s) - 1
      /\ Len(s) \in Nat \ {0}
      /\ Head(s) = s[1]
      /\ \A i \in 1..Len(s) - 1 : Tail(s)[i] = s[i + 1]
  OBVIOUS
<1>2. \A i \in 1..Len(s) : i = 1 \/ i - 1 \in 1..Len(s) - 1
  BY <1>1
<1>3. 1 \in 1..Len(s) /\ \A i \in 1..Len(s) - 1 : i + 1 \in 1..Len(s)
  BY <1>1
<1>4. ASSUME NEW f
      PROVE  f \in Carried(s) <=>
               f \in Carried(Tail(s)) \/ f \in DOMAIN Head(s).block
  <2>1. f \in Carried(s) <=> \E i \in 1..Len(s) : f \in DOMAIN s[i].block
    BY <1>1 DEF Carried
  <2>2. f \in Carried(Tail(s)) <=>
          \E i \in 1..Len(s) - 1 : f \in DOMAIN Tail(s)[i].block
    BY <1>1 DEF Carried
  <2>3. ASSUME NEW i \in 1..Len(s), f \in DOMAIN s[i].block
        PROVE  f \in Carried(Tail(s)) \/ f \in DOMAIN Head(s).block
    <3>1. CASE i = 1
      BY <3>1, <2>3, <1>1
    <3>2. CASE i - 1 \in 1..Len(s) - 1
      <4>1. Tail(s)[i - 1] = s[i]
        BY <3>2, <1>1
      <4> QED
        BY <4>1, <3>2, <2>3, <2>2
    <3> QED
      BY <3>1, <3>2, <1>2
  <2>4. f \in Carried(Tail(s)) => f \in Carried(s)
    BY <2>1, <2>2, <1>1, <1>3
  <2>5. f \in DOMAIN Head(s).block => f \in Carried(s)
    BY <2>1, <1>1, <1>3
  <2> QED
    BY <2>1, <2>3, <2>4, <2>5
<1> QED
  BY <1>4

\* A frame that carries the value which holds has the last word when it is
\* published; one that does not carry the property leaves it to the others.
LEMMA LastWordOfAppend ==
  ASSUME NEW s \in Seq(Frames), NEW frame \in Frames, NEW f, NEW value,
         IF f \in DOMAIN frame.block THEN frame.block[f] = value
                                     ELSE LastWord(s, f, value)
  PROVE  LastWord(Append(s, frame), f, value)
<1>1. /\ Len(s) \in Nat
      /\ Len(Append(s, frame)) = Len(s) + 1
      /\ Append(s, frame)[Len(s) + 1] = frame
      /\ \A i \in 1..Len(s) : Append(s, frame)[i] = s[i]
  OBVIOUS
<1> DEFINE t == Append(s, frame)
<1> HIDE DEF t
<1>2. SUFFICES ASSUME NEW i \in 1..Len(s) + 1, f \in DOMAIN t[i].block,
                      \A j \in i + 1..Len(s) + 1 : f \notin DOMAIN t[j].block
               PROVE  t[i].block[f] = value
  BY <1>1 DEF LastWord, t
<1>3. CASE i = Len(s) + 1
  BY <1>1, <1>2, <1>3 DEF t
<1>4. CASE i \in 1..Len(s)
  <2>1. Len(s) + 1 \in i + 1..Len(s) + 1 /\ t[Len(s) + 1] = frame
    BY <1>1, <1>4 DEF t
  <2>2. f \notin DOMAIN frame.block
    BY <2>1, <1>2
  <2>3. t[i] = s[i]
    BY <1>1, <1>4 DEF t
  <2>4. ASSUME NEW j \in i + 1..Len(s) PROVE f \notin DOMAIN s[j].block
    <3>1. j \in i + 1..Len(s) + 1 /\ j \in 1..Len(s)
      BY <1>1, <1>4
    <3> QED
      BY <3>1, <1>1, <1>2 DEF t
  <2> QED
    BY <2>2, <2>3, <2>4, <1>2, <1>4 DEF LastWord
<1> QED
  BY <1>3, <1>4, <1>1

LEMMA LastWordOfTail ==
  ASSUME NEW s \in Seq(Frames), s # << >>, NEW f, NEW value,
         LastWord(s, f, value)
  PROVE  LastWord(Tail(s), f, value)
<1>1. /\ Len(s) \in Nat \ {0}
      /\ Len(Tail(s)) = Len(s) - 1
      /\ \A i \in 1..Len(s) - 1 : Tail(s)[i] = s[i + 1]
  OBVIOUS
<1>2. SUFFICES ASSUME NEW i \in 1..Len(s) - 1, f \in DOMAIN s[i + 1].block,
                      \A j \in i + 1..Len(s) - 1 : f \notin DOMAIN s[j + 1].block
               PROVE  s[i + 1].block[f] = value
  <2>1. \A i \in 1..Len(s) - 1 : \A j \in i + 1..Len(s) - 1 : j \in 1..Len(s) - 1
    BY <1>1
  <2> QED
    BY <1>1, <2>1 DEF LastWord
<1>3. i + 1 \in 1..Len(s)
  BY <1>1
<1>4. ASSUME NEW j \in i + 1 + 1..Len(s) PROVE f \notin DOMAIN s[j].block
  <2>1. j - 1 \in i + 1..Len(s) - 1 /\ j - 1 + 1 = j
    BY <1>1
  <2> QED
    BY <2>1, <1>2
<1> QED
  BY <1>2, <1>3, <1>4 DEF LastWord

\* The first frame has the last word when no other carries the property.
LEMMA LastWordOfHead ==
  ASSUME NEW s \in Seq(Frames), s # << >>, NEW f, NEW value,
         LastWord(s, f, value),
         f \in DOMAIN Head(s).block, f \notin Carried(Tail(s))
  PROVE  Head(s).block[f] = value
<1>1. /\ Len(s) \in Nat \ {0}
      /\ DOMAIN Tail(s) = 1..Len(s) - 1
      /\ Head(s) = s[1]
      /\ \A i \in 1..Len(s) - 1 : Tail(s)[i] = s[i + 1]
  OBVIOUS
<1>2. ASSUME NEW j \in 1 + 1..Len(s) PROVE f \notin DOMAIN s[j].block
  <2>1. j - 1 \in 1..Len(s) - 1 /\ Tail(s)[j - 1] = s[j]
    BY <1>1
  <2> QED
    BY <2>1, <1>1 DEF Carried
<1>3. 1 \in 1..Len(s)
  BY <1>1
<1> QED
  BY <1>1, <1>2, <1>3 DEF LastWord

LEMMA LastWordOfNone ==
  ASSUME NEW s \in Seq(Frames), NEW f, NEW value, f \notin Carried(s)
  PROVE  LastWord(s, f, value)
<1>1. DOMAIN s = 1..Len(s)
  OBVIOUS
<1> QED
  BY <1>1 DEF LastWord, Carried

\* What the invariant asks of one published property.
Told(f) ==
  /\ f \in excused \/ LastWord(feed, f, actual[f])
  /\ \/ device_states[f] \in {None, actual[f]}
     \/ f \in excused
     \/ f \in Carried(feed)

LEMMA IInvByProperty == IInv <=> TypeOK /\ \A f \in Pushed : Told(f)
  BY DEF IInv, LastWordHolds, WrongOnlyIfExcused, Told

LEMMA ToldInit == ASSUME Init PROVE \A f \in Pushed : Told(f)
<1> SUFFICES ASSUME NEW f \in Pushed PROVE Told(f)
  OBVIOUS
<1>1. feed = << >> /\ device_states[f] = None
  BY ConstantsAssumption DEF Init, Unknown
<1>2. LastWord(feed, f, actual[f])
  BY <1>1 DEF LastWord
<1> QED
  BY <1>1, <1>2 DEF Told

\* A published frame, when what it carries holds afterwards.
LEMMA ToldAfterPublish ==
  ASSUME TypeOK, NEW f \in Pushed, NEW frame \in Frames, up, Publish(frame),
         UNCHANGED device_states,
         IF f \in DOMAIN frame.block
         THEN frame.block[f] = actual'[f]
         ELSE /\ Told(f)
              /\ actual'[f] = actual[f]
              /\ f \in excused => f \in excused'
  PROVE  Told(f)'
<1>1. feed \in Seq(Frames) /\ feed' = Append(feed, frame)
  BY DEF TypeOK, Publish
<1>2. Carried(feed') = Carried(feed) \union DOMAIN frame.block
  BY <1>1, CarriedByAppend
<1>3. CASE f \in DOMAIN frame.block
  <2>1. LastWord(feed', f, actual'[f])
    BY <1>1, <1>3, LastWordOfAppend
  <2> QED
    BY <2>1, <1>2, <1>3 DEF Told
<1>4. CASE f \notin DOMAIN frame.block
  <2>1. f \in excused' \/ LastWord(feed, f, actual'[f])
    BY <1>4 DEF Told
  <2>2. f \in excused' \/ LastWord(feed', f, actual'[f])
    BY <2>1, <1>1, <1>4, LastWordOfAppend
  <2> QED
    BY <2>2, <1>2, <1>4 DEF Told
<1> QED
  BY <1>3, <1>4

LEMMA ToldAfterChange ==
  ASSUME TypeOK, NEW f \in Pushed, Told(f),
         NEW g \in Fields, DeviceChanges(g)
  PROVE  Told(f)'
<1> DEFINE frame == [block |-> [h \in {g} |-> ~actual[g]], link |-> None]
<1>1. frame \in Frames /\ DOMAIN frame.block = {g} /\ frame.block[g] = ~actual[g]
  BY AssignmentIsBlock DEF TypeOK, Frames, MaybeLink
<1>2. actual'[g] = ~actual[g] /\ (f # g => actual'[f] = actual[f])
  BY ConstantsAssumption DEF DeviceChanges, TypeOK
<1>3. CASE g \in Pushed /\ registered /\ reachable /\ up
  <2>1. Publish(frame) /\ up /\ UNCHANGED device_states
    BY <1>3 DEF DeviceChanges, known
  <2>2. f # g => (f \in excused => f \in excused')
    BY <1>3 DEF DeviceChanges
  <2> HIDE DEF frame
  <2> QED
    BY <1>1, <1>2, <2>1, <2>2, ToldAfterPublish
<1>4. CASE ~(g \in Pushed /\ registered /\ reachable /\ up)
  <2>1. UNCHANGED <<feed, device_states>>
    BY <1>4 DEF DeviceChanges, Publish, known
  <2>2. excused' = excused \union ({g} \intersect Pushed)
    BY <1>4 DEF DeviceChanges
  <2>3. CASE f = g
    BY <2>2, <2>3 DEF Told
  <2>4. CASE f # g
    BY <1>2, <2>1, <2>2, <2>4 DEF Told
  <2> QED
    BY <2>3, <2>4
<1> QED
  BY <1>3, <1>4

LEMMA ToldAfterAnswer ==
  ASSUME TypeOK, NEW f \in Pushed, Told(f), HubAnswers
  PROVE  Told(f)'
<1> DEFINE frame == [block |-> [g \in Reported |-> actual[g]],
                     link |-> "available"]
<1>1. /\ frame \in Frames
      /\ DOMAIN frame.block = Reported
      /\ \A g \in Reported : frame.block[g] = actual[g]
  BY AssignmentIsBlock, ConstantsAssumption DEF TypeOK, Frames, MaybeLink
<1>2. UNCHANGED <<actual, device_states>> /\ Publish(frame)
  BY DEF HubAnswers, known
<1>3. CASE up
  <2>1. f \notin Reported => (f \in excused => f \in excused')
    BY <1>3 DEF HubAnswers
  <2> HIDE DEF frame
  <2> QED
    BY <1>1, <1>2, <1>3, <2>1, ToldAfterPublish
<1>4. CASE ~up
  BY <1>2, <1>4 DEF HubAnswers, Publish, Told
<1> QED
  BY <1>3, <1>4

LEMMA ToldAfterDispatch ==
  ASSUME TypeOK, NEW f \in Pushed, Told(f), Dispatch
  PROVE  Told(f)'
<1>1. feed \in Seq(Frames) /\ feed # << >> /\ feed' = Tail(feed)
  BY DEF TypeOK, Dispatch
<1>2. f \in Fields /\ actual' = actual
  BY ConstantsAssumption DEF Dispatch, hub
<1>3. Carried(feed) = Carried(feed') \union DOMAIN Head(feed).block
  BY <1>1, CarriedByFirst
<1>4. f \in excused' \/ LastWord(feed', f, actual'[f])
  <2>1. CASE f \in excused /\ f \notin excused'
    <3>1. f \notin Carried(feed') /\ feed' \in Seq(Frames)
      BY <2>1, <1>1 DEF Dispatch
    <3> QED
      BY <3>1, LastWordOfNone
  <2>2. CASE LastWord(feed, f, actual[f])
    BY <2>2, <1>1, <1>2, LastWordOfTail
  <2> QED
    BY <2>1, <2>2 DEF Told
<1>5. \/ device_states'[f] \in {None, actual'[f]}
      \/ f \in excused'
      \/ f \in Carried(feed')
  <2>1. CASE f \in Carried(feed')
    BY <2>1
  <2>2. CASE f \notin Carried(feed') /\ f \in DOMAIN Head(feed).block
    <3>1. device_states'[f] = Head(feed).block[f]
      BY <1>2, <2>2 DEF Dispatch, Merge
    <3>2. Head(feed).block[f] = actual[f] \/ f \in excused
      BY <1>1, <2>2, LastWordOfHead DEF Told
    <3>3. Head(feed).block[f] = actual[f] \/ f \in excused'
      BY <3>2 DEF Dispatch
    <3> QED
      BY <3>1, <3>3, <1>2
  <2>3. CASE f \notin Carried(feed') /\ f \notin DOMAIN Head(feed).block
    <3>1. device_states'[f] = device_states[f]
      BY <1>2, <2>3 DEF Dispatch, Merge
    <3>2. f \in excused => f \in excused'
      BY <2>3 DEF Dispatch
    <3> QED
      BY <3>1, <3>2, <1>2, <1>3, <2>3 DEF Told
  <2> QED
    BY <2>1, <2>2, <2>3
<1> QED
  BY <1>4, <1>5 DEF Told

LEMMA ToldAfterList ==
  ASSUME TypeOK, NEW f \in Pushed, Told(f), ListArrives
  PROVE  Told(f)'
<1>1. UNCHANGED <<actual, feed>> /\ f \in Fields /\ feed \in Seq(Frames)
  BY ConstantsAssumption DEF ListArrives, hub, stream, TypeOK
<1>2. CASE f \in DOMAIN answer.block
  <2>1. device_states'[f] = answer.block[f]
    BY <1>1, <1>2 DEF ListArrives, Merge
  <2>2. answer.block[f] = actual[f] \/ f \in excused'
    BY <1>2 DEF ListArrives
  <2>3. f \in excused' \/ LastWord(feed, f, actual[f])
    <3>1. CASE f \in Carried(feed)
      BY <3>1 DEF ListArrives, Told
    <3>2. CASE f \notin Carried(feed)
      BY <3>2, <1>1, LastWordOfNone
    <3> QED
      BY <3>1, <3>2
  <2> QED
    BY <2>1, <2>2, <2>3, <1>1 DEF Told
<1>3. CASE f \notin DOMAIN answer.block
  <2>1. device_states'[f] = device_states[f]
    BY <1>1, <1>3 DEF ListArrives, Merge
  <2>2. f \in excused => f \in excused'
    BY <1>3 DEF ListArrives
  <2> QED
    BY <2>1, <2>2, <1>1 DEF Told
<1> QED
  BY <1>2, <1>3

\* A dropped stream takes its frames with it, and excuses what they carried.
LEMMA ToldAfterDrop ==
  ASSUME TypeOK, NEW f \in Pushed, Told(f), StreamDrops
  PROVE  Told(f)'
<1>1. UNCHANGED <<actual, device_states>> /\ feed' = << >>
  BY DEF StreamDrops, hub, known
<1>2. LastWord(feed', f, actual'[f])
  BY <1>1 DEF LastWord
<1>3. /\ f \in excused => f \in excused'
      /\ f \in Carried(feed) => f \in excused'
  BY DEF StreamDrops
<1> QED
  BY <1>1, <1>2, <1>3 DEF Told

LEMMA ToldAfterStartOver ==
  ASSUME TypeOK, NEW f \in Pushed, StartOver
  PROVE  Told(f)'
<1>1. feed' = << >> /\ device_states'[f] = None
  BY ConstantsAssumption DEF StartOver, Unknown
<1>2. LastWord(feed', f, actual'[f])
  BY <1>1 DEF LastWord
<1> QED
  BY <1>1, <1>2 DEF Told

\* What leaves the properties, the frames and the knowledge alone.
LEMMA ToldUntouched ==
  ASSUME NEW f \in Pushed, Told(f),
         UNCHANGED <<actual, feed, device_states, excused>>
  PROVE  Told(f)'
  BY DEF Told

LEMMA ToldStep == IInv /\ [Next]_vars => IInv'
<1> SUFFICES ASSUME TypeOK, [Next]_vars, NEW f \in Pushed, Told(f)
             PROVE  Told(f)'
  BY IInvByProperty, TypeStep DEF IInv, Told, LastWordHolds, WrongOnlyIfExcused
<1>1. ASSUME NEW g \in Fields, DeviceChanges(g) PROVE Told(f)'
  BY <1>1, ToldAfterChange
<1>2. CASE StreamDrops
  BY <1>2, ToldAfterDrop
<1>3. CASE StartOver
  BY <1>3, ToldAfterStartOver
<1>4. CASE HubAnswers
  BY <1>4, ToldAfterAnswer
<1>5. CASE Dispatch
  BY <1>5, ToldAfterDispatch
<1>6. CASE ListArrives
  BY <1>6, ToldAfterList
<1>7. CASE HubSpeaks
  <2> DEFINE frame == [block |-> [g \in {} |-> TRUE], link |-> "available"]
  <2>1. frame \in Frames /\ f \notin DOMAIN frame.block
    <3>1. [g \in {} |-> TRUE] \in Blocks
      <4>1. [g \in {} |-> TRUE] \in [{} -> BOOLEAN]
        OBVIOUS
      <4> QED
        BY <4>1 DEF Blocks
    <3> QED
      BY <3>1 DEF Frames, MaybeLink
  <2>2. /\ Publish(frame) /\ up
        /\ UNCHANGED <<actual, device_states, excused>>
    BY <1>7 DEF HubSpeaks, hub, known
  <2> HIDE DEF frame
  <2> QED
    BY <2>1, <2>2, ToldAfterPublish
<1>8. CASE UNCHANGED <<actual, feed, device_states, excused>>
  BY <1>8, ToldUntouched
<1>9. CASE \/ HubComesOrGoes \/ SetupFails \/ TickConnectFails
           \/ TickAuthFails \/ RegisterLost \/ PullLost \/ ListLost
           \/ HubIgnores \/ (\E g \in Listed : CloudCopies(g))
           \/ SetupConnects \/ TickDue \/ TickRuns \/ RegisterSucceeds
           \/ RegisterRefused \/ PullSucceeds \/ PullRefused \/ ListRead
           \/ ListFailed \/ StreamReconnects \/ RegistrationExpires
           \/ UNCHANGED vars
  <2>1. UNCHANGED <<actual, feed, device_states, excused>>
    BY <1>9
    DEF HubComesOrGoes, SetupFails, TickConnectFails, TickAuthFails,
        RegisterLost, PullLost, ListLost, HubIgnores, CloudCopies,
        SetupConnects, TickDue, TickRuns, TickGoesOn, RegisterSucceeds,
        RegisterRefused, NoRegistration, PullSucceeds, PullRefused, NoPull,
        ListRead, ListFailed, StreamReconnects, RegistrationExpires, vars,
        hub, stream, known
  <2> QED
    BY <2>1, ToldUntouched
<1> QED
  BY <1>1, <1>2, <1>3, <1>4, <1>5, <1>6, <1>7, <1>9
  DEF Next, Environment, HubOrCloud, Coordinator, RetrySetup, Restart

\* However frames, lists, drops and changes interleave, a published property
\* is shown wrong only while a frame that carries it is on its way or when
\* the coordinator was not told of its last change or was told by an old list.
THEOREM ShownWrongOnlyIfExcused == Spec => []WrongOnlyIfExcused
<1>1. Init => IInv
  BY TypeInit, ToldInit, IInvByProperty
<1>2. IInv /\ [Next]_vars => IInv'
  BY ToldStep
<1>3. IInv => WrongOnlyIfExcused
  BY DEF IInv
<1> QED
  BY <1>1, <1>2, <1>3, PTL DEF Spec

----------------------------------------------------------------------------
(* Nothing is forgotten: every step of a coordinator keeps what is known,  *)
(* because what it folds in has no None among its values.                  *)

Remembers ==
  main' # "setup" =>
    \A f \in Fields : device_states[f] # None => device_states'[f] # None

LEMMA MergeRemembers ==
  ASSUME NEW block \in Blocks, NEW f \in Fields, device_states[f] # None
  PROVE  Merge(block)[f] # None
  BY BlockIsPartial, ConstantsAssumption DEF Merge

LEMMA RemembersStep == TypeOK /\ [Next]_vars => Remembers
<1> SUFFICES ASSUME TypeOK, [Next]_vars, main' # "setup",
                    NEW f \in Fields, device_states[f] # None
             PROVE  device_states'[f] # None
  BY DEF Remembers
<1>1. CASE Dispatch
  <2>1. Head(feed) \in Frames
    BY <1>1 DEF Dispatch, TypeOK
  <2> QED
    BY <1>1, <2>1, FrameParts, MergeRemembers DEF Dispatch
<1>2. CASE ListArrives
  <2>1. answer \in Frames
    BY <1>2, AnswerIsFrame DEF ListArrives
  <2> QED
    BY <1>2, <2>1, FrameParts, MergeRemembers DEF ListArrives
<1>3. CASE ~Dispatch /\ ~ListArrives
  <2>1. ~StartOver
    BY DEF StartOver
  <2>2. UNCHANGED device_states
    BY <1>3, <2>1
    DEF Next, Environment, HubOrCloud, Coordinator, RetrySetup, Restart,
        DeviceChanges, HubComesOrGoes, StreamDrops, SetupFails,
        TickConnectFails, TickAuthFails, RegisterLost, PullLost, ListLost,
        HubAnswers, HubIgnores, CloudCopies, SetupConnects, TickDue, TickRuns,
        TickGoesOn, RegisterSucceeds, RegisterRefused, NoRegistration,
        PullSucceeds, PullRefused, NoPull, ListRead, ListFailed,
        StreamReconnects, RegistrationExpires, HubSpeaks, vars, known
  <2> QED
    BY <2>2
<1> QED
  BY <1>1, <1>2, <1>3

\* Whatever partial blocks come in, and in whatever order, a value the
\* coordinator knows stays known until a new coordinator starts over.
THEOREM KnowledgeIsKept == Spec => NothingForgotten
<1>1. Init => TypeOK
  BY TypeInit
<1>2. TypeOK /\ [Next]_vars => TypeOK'
  BY TypeStep
<1>3. TypeOK /\ [Next]_vars =>
        [main' # "setup" =>
           \A f \in Fields :
             device_states[f] # None => device_states'[f] # None]_vars
  BY RemembersStep DEF Remembers
<1> QED
  BY <1>1, <1>2, <1>3, PTL DEF Spec, NothingForgotten
=============================================================================
