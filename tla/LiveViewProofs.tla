--------------------------- MODULE LiveViewProofs ---------------------------
(***************************************************************************)
(* Theorems about LiveView, for any number of viewers, sessions and        *)
(* Streams.                                                                *)
(***************************************************************************)
EXTENDS LiveView, FiniteSetTheorems, TLAPS

PC == {"idle", "stopping", "creating", "source", "starting"}

\* NoSecondStart is inductive together with the ownership of _stream_lock: a
\* viewer that asks Arlo holds it, so no other viewer can put a URL into the
\* reuse window, and the only other writer empties the window.
IInv ==
  /\ pc \in [Viewers -> PC]
  /\ \A v \in Viewers : pc[v] = "starting" => stream_lock = v
  /\ NoSecondStart

\* What every step of a viewer does to pc: only its own entry changes.
LEMMA AnswerIdles ==
  ASSUME NEW v \in Viewers, NEW url, Answer(v, url)
  PROVE  pc' = [pc EXCEPT ![v] = "idle"]
BY DEF Answer

\* While an Arlo request is outstanding no reusable URL appears.
THEOREM OneStart == Spec => []NoSecondStart
<1>1. Init => IInv
  BY DEF Init, IInv, PC, NoSecondStart
<1>2. IInv /\ [Next]_vars => IInv'
  <2> SUFFICES ASSUME IInv, [Next]_vars PROVE IInv'
    OBVIOUS
  <2> USE DEF IInv, PC, NoSecondStart, Reusable
  <2>1. CASE SessionEnds \/ TellActive \/ TellIdle
    BY <2>1 DEF SessionEnds, TellActive, TellIdle, locks
  <2>2. CASE WindowCloses
    BY <2>2 DEF WindowCloses, locks
  <2>3. ASSUME NEW v \in Viewers, OpenGo2rtc(v) \/ OpenHls(v) PROVE IInv'
    BY <2>3 DEF OpenGo2rtc, OpenHls, locks
  <2>4. ASSUME NEW v \in Viewers, Stopped(v) PROVE IInv'
    BY <2>4 DEF Stopped, locks
  <2>5. ASSUME NEW v \in Viewers, CreateStream(v) PROVE IInv'
    BY <2>5 DEF CreateStream
  <2>6. ASSUME NEW v \in Viewers, ReuseUrl(v) PROVE IInv'
    <3>1. pc' = [pc EXCEPT ![v] = "idle"]
      BY <2>6, AnswerIdles DEF ReuseUrl
    <3>2. UNCHANGED <<last_url, fresh, stream_lock>>
      BY <2>6 DEF ReuseUrl
    <3> QED
      BY <3>1, <3>2
  <2>7. ASSUME NEW v \in Viewers, AskArlo(v) PROVE IInv'
    <3>1. \A w \in Viewers : pc[w] # "starting"
      BY <2>7, IdentitiesAssumption DEF AskArlo, SourceLockFree
    <3> QED
      BY <2>7, <3>1 DEF AskArlo
  <2>8. ASSUME NEW v \in Viewers, Started(v) PROVE IInv'
    <3>1. pc' = [pc EXCEPT ![v] = "idle"]
      BY <2>8, AnswerIdles DEF Started
    <3>2. \A w \in Viewers : pc'[w] # "starting"
      BY <2>8, <3>1 DEF Started
    <3> QED
      BY <3>1, <3>2
  <2>9. ASSUME NEW v \in Viewers, StartFails(v) PROVE IInv'
    <3>1. pc' = [pc EXCEPT ![v] = "idle"]
      BY <2>9, AnswerIdles DEF StartFails
    <3>2. \A w \in Viewers : pc'[w] # "starting"
      BY <2>9, <3>1 DEF StartFails
    <3> QED
      BY <3>1, <3>2
  <2>10. ASSUME NEW s \in Streams, FrameKept(s) PROVE IInv'
    BY <2>10 DEF FrameKept, locks
  <2>11. CASE UNCHANGED vars
    BY <2>11 DEF vars
  <2> QED
    BY <2>1, <2>2, <2>3, <2>4, <2>5, <2>6, <2>7, <2>8, <2>9, <2>10, <2>11
       DEF Next, Open, Source, ArloAnswers
<1>3. IInv => NoSecondStart
  BY DEF IInv
<1> QED
  BY <1>1, <1>2, <1>3, PTL DEF Spec

----------------------------------------------------------------------------
(* Streams.                                                                *)

\* Home Assistant's lock is held for a source only while there is no Stream;
\* that alone keeps a new one from taking the place of one that is in use.
NoneWhileBuilding == create_lock # None => stream = None

\* Answering a request builds a Stream only for whoever holds that lock.
LEMMA AnswerBuildsUnderLock ==
  ASSUME NEW v \in Viewers, NEW url, Answer(v, url), NoneWhileBuilding
  PROVE  /\ NoneWhileBuilding'
         /\ stream' # stream => stream = None
BY IdentitiesAssumption DEF Answer, NoneWhileBuilding

\* Every step keeps NoneWhileBuilding.
LEMMA BuildingKept == NoneWhileBuilding /\ [Next]_vars => NoneWhileBuilding'
<1> SUFFICES ASSUME NoneWhileBuilding, [Next]_vars PROVE NoneWhileBuilding'
  OBVIOUS
<1>1. CASE SessionEnds \/ TellActive \/ TellIdle \/ WindowCloses
  BY <1>1 DEF SessionEnds, TellActive, TellIdle, WindowCloses, locks, NoneWhileBuilding
<1>2. ASSUME NEW v \in Viewers, OpenGo2rtc(v) \/ OpenHls(v) \/ Stopped(v)
      PROVE  NoneWhileBuilding'
  BY <1>2 DEF OpenGo2rtc, OpenHls, Stopped, locks, NoneWhileBuilding
<1>3. ASSUME NEW v \in Viewers, CreateStream(v) \/ AskArlo(v)
      PROVE  NoneWhileBuilding'
  BY <1>3 DEF CreateStream, AskArlo, NoneWhileBuilding
<1>4. ASSUME NEW v \in Viewers, ReuseUrl(v) \/ StartFails(v) \/ Started(v)
      PROVE  NoneWhileBuilding'
  BY <1>4, AnswerBuildsUnderLock DEF ReuseUrl, StartFails, Started
<1>5. ASSUME NEW s \in Streams, FrameKept(s) PROVE NoneWhileBuilding'
  BY <1>5 DEF FrameKept, locks, NoneWhileBuilding
<1>6. CASE UNCHANGED vars
  BY <1>6 DEF vars, NoneWhileBuilding
<1>7. QED
  BY <1>1, <1>2, <1>3, <1>4, <1>5, <1>6 DEF Next, Open, Source, ArloAnswers

\* `if self.stream is stream` and the check of the session in
\* async_create_stream: no late task and no new viewer takes down a Stream the
\* camera has reason to think alive.
THEOREM LateTasksAreHarmless == Spec => OnlyFinishedStreamsDropped
<1>1. Init => NoneWhileBuilding
  BY DEF Init, NoneWhileBuilding
<1>2. ASSUME NoneWhileBuilding, [Next]_vars, stream # None, stream' # stream
      PROVE  stream \in keeping \/ (~streaming /\ ~Reusable)
  <2>1. ~(SessionEnds \/ TellActive \/ TellIdle \/ WindowCloses \/ UNCHANGED vars)
    BY <1>2 DEF SessionEnds, TellActive, TellIdle, WindowCloses, vars
  <2>2. \A v \in Viewers : ~(OpenGo2rtc(v) \/ Stopped(v) \/ CreateStream(v) \/ AskArlo(v))
    BY <1>2 DEF OpenGo2rtc, Stopped, CreateStream, AskArlo
  <2>3. \A v \in Viewers : ~(ReuseUrl(v) \/ StartFails(v) \/ Started(v))
    BY <1>2, AnswerBuildsUnderLock DEF ReuseUrl, StartFails, Started
  <2>4. ASSUME NEW v \in Viewers, OpenHls(v) PROVE ~streaming /\ ~Reusable
    BY <1>2, <2>4 DEF OpenHls, SessionIsOver
  <2>5. ASSUME NEW s \in Streams, FrameKept(s) PROVE stream \in keeping
    BY <1>2, <2>5 DEF FrameKept, StillCurrent
  <2>6. QED
    BY <1>2, <2>1, <2>2, <2>3, <2>4, <2>5 DEF Next, Open, Source, ArloAnswers
<1>3. QED
  BY <1>1, <1>2, BuildingKept, PTL DEF Spec, OnlyFinishedStreamsDropped

----------------------------------------------------------------------------
(* Typing.  The identities of a new Stream and of a new session are picked *)
(* out of a set, so a state is typed only as long as one is left to pick.  *)

\* The tasks that keep last frames leave a Stream to build.
StreamLeft == Cardinality(keeping) < Cardinality(Streams)

TInv == TypeOK /\ StreamLeft /\ NoneWhileBuilding

LEMMA NewStreamIsOne ==
  ASSUME TInv, stream = None
  PROVE  NewStream \in Streams
<1>1. ~(Streams \subseteq keeping)
  <2>1. IsFiniteSet(keeping)
    BY FS_Subset, IdentitiesAssumption DEF TInv, TypeOK
  <2>2. Streams \subseteq keeping => Cardinality(Streams) <= Cardinality(keeping)
    BY <2>1, FS_Subset
  <2>3. Cardinality(keeping) \in Nat /\ Cardinality(Streams) \in Nat
    BY <2>1, FS_CardinalityType, IdentitiesAssumption
  <2> QED BY <2>2, <2>3 DEF TInv, StreamLeft
<1>2. \E s \in Streams : s \notin keeping \union {stream}
  BY <1>1, IdentitiesAssumption
<1> QED BY <1>2 DEF NewStream

\* No more sessions are referred to than there are Streams, and one.
LEMMA NewSessionIsOne ==
  ASSUME TypeOK
  PROVE  (CHOOSE n \in Sessions : Unused(n)) \in Sessions
<1> DEFINE used == {source[s] : s \in Streams}
<1>1. source \in Surjection(Streams, used)
  BY DEF TypeOK, Surjection
<1>2. IsFiniteSet(used) /\ Cardinality(used) <= Cardinality(Streams)
  BY <1>1, FS_Surjection, IdentitiesAssumption
<1>3. /\ IsFiniteSet(used \union {last_url})
      /\ Cardinality(used \union {last_url}) <= Cardinality(used) + 1
  <2>1. Cardinality(used) \in Nat
    BY <1>2, FS_CardinalityType
  <2>2. IsFiniteSet(used)
    BY <1>2
  <2> HIDE DEF used
  <2>3. /\ IsFiniteSet(used \union {last_url})
        /\ \/ Cardinality(used \union {last_url}) = Cardinality(used)
           \/ Cardinality(used \union {last_url}) = Cardinality(used) + 1
    BY <2>2, FS_AddElement
  <2> QED BY <2>1, <2>3
<1>4. ~(Sessions \subseteq used \union {last_url})
  <2>1. Cardinality(used) \in Nat /\ Cardinality(Streams) \in Nat
        /\ Cardinality(used \union {last_url}) \in Nat
    BY <1>2, <1>3, FS_CardinalityType, IdentitiesAssumption
  <2>2. ASSUME Sessions \subseteq used \union {last_url} PROVE FALSE
    <3>1. IsFiniteSet(Sessions)
          /\ Cardinality(Sessions) <= Cardinality(used \union {last_url})
      BY <1>3, <2>2, FS_Subset
    <3>2. Cardinality(Sessions) \in Nat
      BY <3>1, FS_CardinalityType
    <3> QED BY <1>2, <1>3, <2>1, <3>1, <3>2, IdentitiesAssumption
  <2> QED BY <2>2
<1>5. \E n \in Sessions : Unused(n)
  BY <1>4 DEF Unused
<1> QED BY <1>5

\* The lock is free, or an answer to its holder builds a Stream.
LEMMA AnswerTyped ==
  ASSUME TInv, NEW v \in Viewers, NEW url \in Sessions \union {None}, Answer(v, url)
  PROVE  /\ stream' \in Streams \union {None}
         /\ source' \in [Streams -> Sessions \union {None}]
         /\ create_lock' \in Viewers \union {None}
         /\ pc' \in [Viewers -> {"idle", "stopping", "creating", "source", "starting"}]
         /\ NoneWhileBuilding'
<1>1. pc' \in [Viewers -> {"idle", "stopping", "creating", "source", "starting"}]
  BY AnswerIdles DEF TInv, TypeOK
<1>2. CASE create_lock = v
  <2>1. stream = None /\ NewStream \in Streams /\ create_lock' = None
    BY <1>2, NewStreamIsOne, IdentitiesAssumption DEF TInv, NoneWhileBuilding, Answer
  <2> QED
    BY <1>1, <1>2, <2>1 DEF TInv, TypeOK, Answer, NoneWhileBuilding
<1>3. CASE create_lock # v
  BY <1>1, <1>3 DEF TInv, TypeOK, Answer, NoneWhileBuilding
<1> QED BY <1>2, <1>3

LEMMA InitTInv == Init => TInv
<1> SUFFICES ASSUME Init PROVE TInv
  OBVIOUS
<1>1. StreamLeft
  <2>1. Cardinality({}) = 0 /\ Cardinality(Streams) \in Nat
        /\ Cardinality(Streams) # 0
    BY FS_EmptySet, FS_CardinalityType, IdentitiesAssumption
  <2> QED BY <2>1 DEF Init, StreamLeft
<1>2. idle_due \in BOOLEAN /\ streaming \in BOOLEAN /\ fresh \in BOOLEAN
  BY Zenon DEF Init
<1> QED BY <1>1, <1>2 DEF Init, TInv, TypeOK, NoneWhileBuilding

LEMMA NextTInv == TInv /\ [Next]_vars => TInv'
<1> SUFFICES ASSUME TInv, [Next]_vars PROVE TInv'
  OBVIOUS
<1>0. NoneWhileBuilding'
  BY BuildingKept DEF TInv
<1> USE <1>0 DEF TInv
<1>1. CASE SessionEnds \/ TellActive \/ WindowCloses
  BY <1>1 DEF SessionEnds, TellActive, WindowCloses, locks, camera, TypeOK, StreamLeft
<1>2. CASE TellIdle
  <2>1. keeping' \subseteq keeping \union StreamThereIs
        /\ keeping' \subseteq Streams
    BY <1>2 DEF TellIdle, StreamThereIs, TypeOK
  <2>2. StreamLeft'
    <3> DEFINE most == keeping \union StreamThereIs
    <3>1. IsFiniteSet(most)
      BY FS_Subset, IdentitiesAssumption DEF StreamThereIs, TypeOK
    <3>2. IsFiniteSet(keeping') /\ Cardinality(keeping') <= Cardinality(most)
      BY <2>1, <3>1, FS_Subset
    <3>3. Cardinality(most) < Cardinality(Streams)
      BY <1>2 DEF TellIdle, KeepingBound, StreamThereIs
    <3>4. /\ Cardinality(most) \in Nat /\ Cardinality(keeping') \in Nat
          /\ Cardinality(Streams) \in Nat
      BY <3>1, <3>2, FS_CardinalityType, IdentitiesAssumption
    <3> HIDE DEF most
    <3> QED BY <3>2, <3>3, <3>4 DEF StreamLeft
  <2>3. idle_due' \in BOOLEAN /\ streaming' \in BOOLEAN /\ ended' \in SUBSET Sessions
    BY <1>2 DEF TellIdle, TypeOK
  <2> QED BY <1>2, <2>1, <2>2, <2>3 DEF TellIdle, TypeOK, locks
<1>3. ASSUME NEW v \in Viewers, OpenGo2rtc(v) \/ Stopped(v) PROVE TInv'
  BY <1>3 DEF OpenGo2rtc, Stopped, locks, camera, TypeOK, StreamLeft
<1>4. ASSUME NEW v \in Viewers, OpenHls(v) PROVE TInv'
  BY <1>4 DEF OpenHls, locks, camera, TypeOK, StreamLeft
<1>5. ASSUME NEW v \in Viewers, CreateStream(v) \/ AskArlo(v) PROVE TInv'
  BY <1>5 DEF CreateStream, AskArlo, camera, TypeOK, StreamLeft
<1>6. ASSUME NEW v \in Viewers, ReuseUrl(v) PROVE TInv'
  <2>1. Answer(v, last_url) /\ last_url \in Sessions \union {None}
    BY <1>6 DEF ReuseUrl, TypeOK
  <2> QED
    BY <1>6, <2>1, AnswerTyped DEF ReuseUrl, camera, TypeOK, StreamLeft
<1>7. ASSUME NEW v \in Viewers, Started(v) PROVE TInv'
  <2>1. PICK n \in Sessions : /\ arlo' = n /\ ended' = ended \ {n} /\ last_url' = n
                              /\ Answer(v, n)
    BY <1>7, NewSessionIsOne DEF Started, TypeOK
  <2>2. fresh' \in BOOLEAN /\ stream_lock' = None
        /\ UNCHANGED <<idle_due, streaming, keeping>>
    BY <1>7 DEF Started
  <2> QED
    BY <2>1, <2>2, AnswerTyped DEF TypeOK, StreamLeft
<1>8. ASSUME NEW v \in Viewers, StartFails(v) PROVE TInv'
  <2>1. Answer(v, None) /\ stream_lock' = None
    BY <1>8 DEF StartFails, LockAfterFailure
  <2> QED
    BY <1>8, <2>1, AnswerTyped DEF StartFails, camera, TypeOK, StreamLeft
<1>9. ASSUME NEW s \in Streams, FrameKept(s) PROVE TInv'
  <2>1. StreamLeft'
    <3>1. keeping' = keeping \ {s} /\ IsFiniteSet(keeping)
      BY <1>9, FS_Subset, IdentitiesAssumption DEF FrameKept, TypeOK
    <3>2. IsFiniteSet(keeping') /\ Cardinality(keeping') <= Cardinality(keeping)
      BY <3>1, FS_Subset
    <3>3. /\ Cardinality(keeping) \in Nat /\ Cardinality(keeping') \in Nat
          /\ Cardinality(Streams) \in Nat
      BY <3>1, <3>2, FS_CardinalityType, IdentitiesAssumption
    <3> QED BY <3>2, <3>3 DEF StreamLeft
  <2> QED BY <1>9, <2>1 DEF FrameKept, locks, camera, TypeOK
<1>10. CASE UNCHANGED vars
  BY <1>10 DEF vars, TypeOK, StreamLeft
<1> QED
  BY <1>1, <1>2, <1>3, <1>4, <1>5, <1>6, <1>7, <1>8, <1>9, <1>10
     DEF Next, Open, Source, ArloAnswers

\* Type correctness of LiveView: while Home Assistant holds its lock for a source
\* there is a Stream left to build, and for start_stream a session to name.
THEOREM TypeCorrect == Spec => []TypeOK
<1>1. TInv => TypeOK
  BY DEF TInv
<1> QED
  BY <1>1, InitTInv, NextTInv, PTL DEF Spec
=============================================================================
