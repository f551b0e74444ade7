--------------------------- MODULE ModeSyncProofs ---------------------------
(***************************************************************************)
(* Theorems about ModeSync, for any number of commands and locations and   *)
(* any bounds.                                                             *)
(***************************************************************************)
EXTENDS ModeSync, FiniteSetTheorems, TLAPS

Job == [location : Relevant, mode : Modes]

\* A command in progress has a job, one at rest has forgotten its answers.
\* The type invariant is inductive only with it: what a command writes to its
\* location is typed because the job is.
HasJob ==
  \A c \in Setters :
    (pc[c] = "idle" => reply[c] = 0) /\ (pc[c] # "idle" => job[c] \in Job)

\* Revisions under way were given out by Arlo, both those on their way back to
\* a command and those a command sends; 1, which stands for an unknown one, has
\* been given out for every location.
RevisionsGiven ==
  /\ \A l \in Locations : 1 <= revision[l]
  /\ \A l \in Relevant : known[l] <= revision[l]
  /\ \A c \in Setters : pc[c] # "idle" =>
       /\ sent[c] <= revision[job[c].location]
       /\ reply[c] <= revision[job[c].location]

IInv == TypeOK /\ HasJob /\ RevisionsGiven

\* A copy is an event.
LEMMA CopyTyped ==
  ASSUME NEW l \in Locations, NEW m \in Modes, NEW f \in CopiesOf(l, m)
  PROVE  f \in Event
<1>1. LocationsForDevice(l) \subseteq Locations \union {None}
  BY ConstantsAssumption DEF LocationsForDevice
<1>2. (IF m \in Custom THEN Key ELSE m) \in Standard \union {Key}
  BY DEF Modes
<1>3. f \in [tag : Locations \union {None}, mode : Standard \union {Key},
            authority : {FALSE}]
  BY <1>1, <1>2 DEF CopiesOf
<1> QED
  BY <1>3 DEF Event

\* A change is typed, and counts its location's revision up and no other's.
LEMMA ChangeCounts ==
  ASSUME TypeOK, NEW l \in Locations, NEW m \in Modes, Change(l, m)
  PROVE  /\ arlo' \in [Locations -> Modes]
         /\ revision' \in [Locations -> Nat]
         /\ had' \in [Locations -> SUBSET Modes]
         /\ events' \in Seq(Event)
         /\ revision'[l] = revision[l] + 1
         /\ \A k \in Locations : revision[k] <= revision'[k]
<1> USE DEF TypeOK, Change
<1>1. CopiesOf(l, m) \subseteq Event
  BY CopyTyped
<1>2. ActiveModeEvents(l, m) \subseteq Event
  BY DEF ActiveModeEvents, Event
<1>3. events' \in Seq(Event)
  <2>1. PICK e \in ActiveModeEvents(l, m) :
          \/ events' = Append(events, e)
          \/ \E f \in CopiesOf(l, m) : events' = Append(Append(events, e), f)
    OBVIOUS
  <2>2. e \in Event /\ Append(events, e) \in Seq(Event)
    BY <1>2, <2>1
  <2>3. \A f \in CopiesOf(l, m) : Append(Append(events, e), f) \in Seq(Event)
    BY <1>1, <2>2
  <2> QED
    BY <2>1, <2>2, <2>3
<1>4. /\ arlo' = [arlo EXCEPT ![l] = m]
      /\ revision' = [revision EXCEPT ![l] = @ + 1]
      /\ had' = [had EXCEPT ![l] = @ \union {m}]
  OBVIOUS
<1>5. had' \in [Locations -> SUBSET Modes]
  BY <1>4
<1>6. arlo' \in [Locations -> Modes] /\ revision' \in [Locations -> Nat]
  BY <1>4
<1>7. revision'[l] = revision[l] + 1
  BY <1>4
<1>8. ASSUME NEW k \in Locations PROVE revision[k] <= revision'[k]
  <2>1. revision[k] \in Nat
    OBVIOUS
  <2>2. CASE k = l
    BY <1>7, <2>1, <2>2
  <2>3. CASE k # l
    BY <1>4, <2>1, <2>3
  <2> QED
    BY <2>2, <2>3
<1> QED
  BY <1>3, <1>5, <1>6, <1>7, <1>8

LEMMA InitIInv == Init => IInv
<1> SUFFICES ASSUME Init PROVE IInv
  OBVIOUS
<1> USE ConstantsAssumption
<1>0. \A r \in StartRevisions : r \in Nat /\ 1 <= r
  OBVIOUS
<1>1. /\ arlo \in [Locations -> Modes]
      /\ revision \in [Locations -> Nat]
      /\ \A l \in Locations : 1 <= revision[l]
  BY <1>0 DEF Init, Modes
<1>2. PICK failed \in SUBSET MayFail :
        /\ mode = [l \in Relevant |-> IF l \in failed THEN None ELSE arlo[l]]
        /\ known = [l \in Relevant |-> IF l \in failed THEN 1 ELSE revision[l]]
  BY DEF Init
<1>3. /\ mode \in [Relevant -> Modes \union {None}]
      /\ known \in [Relevant -> Nat]
      /\ \A l \in Relevant : known[l] <= revision[l]
  BY <1>1, <1>2
<1>4. TypeOK
  <2>1. /\ had \in [Locations -> SUBSET Modes]
        /\ events \in Seq(Event)
    BY <1>1 DEF Init
  <2>2. /\ pc \in [Setters -> Waiting \union {"idle"}]
        /\ job \in [Setters -> [location : Relevant, mode : Modes] \union {None}]
        /\ sent \in [Setters -> Nat]
        /\ reply \in [Setters -> Nat]
    BY DEF Init
  <2> QED
    BY <1>1, <1>3, <2>1, <2>2 DEF Init, TypeOK
<1>5. HasJob /\ RevisionsGiven
  BY <1>1, <1>3 DEF Init, HasJob, RevisionsGiven
<1> QED
  BY <1>4, <1>5 DEF IInv

\* Every step of a command, of Arlo or of the handlers keeps the invariant:
\* revisions only grow, and what is written down was read from them.
LEMMA NextIInv == IInv /\ [Next]_vars => IInv'
<1> SUFFICES ASSUME IInv, [Next]_vars PROVE IInv'
  OBVIOUS
<1> USE DEF IInv, HasJob, Job, RevisionsGiven
<1>1. ASSUME NEW l \in Locations, NEW m \in Modes, OtherClient(l, m) PROVE IInv'
  <2>1. Change(l, m) /\ UNCHANGED <<mode, known, pc, job, sent, reply, retrying, relogged>>
    BY <1>1 DEF OtherClient, ours
  <2>2. outdated' \in SUBSET Setters
    BY <1>1 DEF OtherClient, Holding, TypeOK
  <2>3. TypeOK'
    BY <2>1, <2>2, ChangeCounts DEF TypeOK
  <2> QED
    <3>1. /\ \A k \in Locations : revision[k] \in Nat /\ revision'[k] \in Nat
          /\ \A k \in Locations : revision[k] <= revision'[k]
      BY <2>1, ChangeCounts DEF TypeOK
    <3>2. /\ \A k \in Locations : 1 <= revision'[k]
          /\ \A k \in Relevant : known'[k] <= revision'[k]
      BY <2>1, <3>1, ConstantsAssumption DEF TypeOK
    <3>3. ASSUME NEW c \in Setters, pc[c] # "idle"
          PROVE  sent[c] <= revision'[job[c].location] /\ reply[c] <= revision'[job[c].location]
      <4>1. job[c].location \in Locations /\ sent[c] \in Nat /\ reply[c] \in Nat
        BY <3>3, ConstantsAssumption DEF TypeOK
      <4> QED
        BY <3>1, <3>3, <4>1
    <3> QED
      BY <2>1, <2>3, <3>2, <3>3
<1>2. ASSUME NEW c \in Setters, ServePut(c) PROVE IInv'
  <2> DEFINE l == job[c].location
  <2>0. /\ pc[c] = "put" /\ l \in Locations /\ job[c].mode \in Modes
        /\ sent' = [sent EXCEPT ![c] = 0]
        /\ UNCHANGED <<mode, known, job, retrying, relogged>>
    BY <1>2, ConstantsAssumption DEF ServePut, TypeOK, ours
  <2>1. CASE sent[c] = revision[l]
    <3>1. /\ Change(l, job[c].mode)
          /\ pc' = [pc EXCEPT ![c] = "accepted"]
          /\ \E r \in {0, revision[l] + 1} : reply' = [reply EXCEPT ![c] = r]
          /\ outdated' = outdated \union (Holding(l) \ {c})
      BY <1>2, <2>1 DEF ServePut
    <3>2. outdated' \in SUBSET Setters
      BY <3>1 DEF Holding, TypeOK
    <3>3. TypeOK'
      <4>1. pc' \in [Setters -> Waiting \union {"idle"}]
        BY <3>1 DEF TypeOK, Waiting
      <4>2. reply' \in [Setters -> Nat]
        BY <2>0, <3>1 DEF TypeOK
      <4>3. /\ arlo' \in [Locations -> Modes]
            /\ revision' \in [Locations -> Nat]
            /\ had' \in [Locations -> SUBSET Modes]
            /\ events' \in Seq(Event)
        BY <2>0, <3>1, ChangeCounts
      <4> QED
        BY <2>0, <3>2, <4>1, <4>2, <4>3 DEF TypeOK
    <3>4. /\ \A k \in Locations : revision[k] \in Nat /\ revision'[k] \in Nat
          /\ \A k \in Locations : revision[k] <= revision'[k]
          /\ revision'[l] = revision[l] + 1
      BY <2>0, <3>1, ChangeCounts DEF TypeOK
    <3>5. /\ \A k \in Locations : 1 <= revision'[k]
          /\ \A k \in Relevant : known'[k] <= revision'[k]
      BY <2>0, <3>4, ConstantsAssumption DEF TypeOK
    <3>6. reply'[c] <= revision'[l]
      BY <2>0, <3>1, <3>4 DEF TypeOK
    <3>7. ASSUME NEW d \in Setters, pc'[d] # "idle"
          PROVE  /\ job'[d] \in Job
                 /\ sent'[d] <= revision'[job'[d].location]
                 /\ reply'[d] <= revision'[job'[d].location]
      <4>1. pc[d] # "idle" /\ job[d] \in Job /\ job'[d] = job[d]
        BY <2>0, <3>1, <3>7 DEF TypeOK
      <4>2. sent[d] \in Nat /\ reply[d] \in Nat /\ sent'[d] \in {0, sent[d]}
        BY <2>0 DEF TypeOK
      <4>3. d # c => reply'[d] = reply[d]
        BY <3>1 DEF TypeOK
      <4> QED
        BY <3>4, <3>6, <4>1, <4>2, <4>3, ConstantsAssumption
    <3>8. ASSUME NEW d \in Setters, pc'[d] = "idle" PROVE reply'[d] = 0
      BY <3>1, <3>8 DEF TypeOK
    <3> QED
      BY <3>3, <3>5, <3>7, <3>8
  <2>2. CASE sent[c] # revision[l]
    <3>1. /\ pc' = [pc EXCEPT ![c] = "refused"]
          /\ UNCHANGED <<theirs, reply, outdated>>
      BY <1>2, <2>2 DEF ServePut
    <3>2. TypeOK'
      BY <2>0, <3>1 DEF TypeOK, Waiting, theirs
    <3>3. HasJob'
      BY <2>0, <3>1 DEF TypeOK
    <3>4. RevisionsGiven'
      <4>1. ASSUME NEW d \in Setters, pc'[d] # "idle"
            PROVE  /\ sent'[d] <= revision'[job'[d].location]
                   /\ reply'[d] <= revision'[job'[d].location]
        <5>1. pc[d] # "idle" /\ sent'[d] \in {0, sent[d]}
          BY <2>0, <3>1, <4>1 DEF TypeOK
        <5>2. job[d].location \in Locations
          BY <5>1, ConstantsAssumption
        <5>3. revision[job[d].location] \in Nat
          BY <5>2 DEF TypeOK
        <5> QED
          BY <2>0, <3>1, <5>1, <5>3 DEF theirs
      <4> QED
        BY <2>0, <3>1, <4>1 DEF theirs
    <3> QED
      BY <3>2, <3>3, <3>4
  <2> QED
    BY <2>1, <2>2
<1>3. ASSUME NEW c \in Setters, ServeGet(c) PROVE IInv'
  <2> DEFINE l == job[c].location
  <2>1. /\ pc[c] = "get" /\ l \in Locations
        /\ pc' = [pc EXCEPT ![c] = "got"]
        /\ retrying' = retrying \union {c}
        /\ outdated' \in SUBSET Setters
        /\ UNCHANGED <<theirs, ours, job, sent, relogged>>
    BY <1>3, ConstantsAssumption DEF ServeGet, TypeOK
  <2>2. PICK r \in {0, revision[l]} : reply' = [reply EXCEPT ![c] = r]
    BY <1>3 DEF ServeGet
  <2>3. r \in Nat /\ r <= revision[l]
    BY <2>1 DEF TypeOK
  <2>4. TypeOK'
    BY <2>1, <2>2, <2>3 DEF TypeOK, Waiting, theirs, ours
  <2> QED
    BY <2>1, <2>2, <2>3, <2>4 DEF TypeOK, theirs, ours
<1>4. ASSUME NEW c \in Setters, NEW l \in Commanded, NEW m \in Modes,
             SetActiveMode(c, l, m)
      PROVE  IInv'
  BY <1>4, ConstantsAssumption
     DEF SetActiveMode, Put, TypeOK, Waiting, theirs, ours
<1>5. ASSUME NEW c \in Setters, TokenRejected(c) PROVE IInv'
  BY <1>5, ConstantsAssumption DEF TokenRejected, TypeOK, Waiting, theirs, ours
<1>6. ASSUME NEW c \in Setters, LoggedIn(c) PROVE IInv'
  BY <1>6 DEF LoggedIn, Put, TypeOK, Waiting, theirs, ours
<1>7. ASSUME NEW c \in Setters, Raises(c) PROVE IInv'
  BY <1>7 DEF Raises, Ends, TypeOK, theirs, ours
<1>8. ASSUME NEW c \in Setters, Accepted(c) PROVE IInv'
  BY <1>8 DEF Accepted, KnownAfter, Ends, TypeOK, Waiting, theirs
<1>9. ASSUME NEW c \in Setters, RefusedOnce(c) PROVE IInv'
  BY <1>9 DEF RefusedOnce, TypeOK, Waiting, theirs, ours, calls
<1>10. ASSUME NEW c \in Setters, Retry(c) PROVE IInv'
  <2> DEFINE l == job[c].location
             r == RevisionForRetry(l, reply[c])
  <2>1. /\ pc[c] = "got" /\ l \in Relevant /\ l \in Locations
        /\ known' = [known EXCEPT ![l] = r]
        /\ pc' = [pc EXCEPT ![c] = "put"]
        /\ sent' = [sent EXCEPT ![c] = known'[l]]
        /\ reply' = [reply EXCEPT ![c] = 0]
        /\ UNCHANGED <<theirs, mode, job, retrying, relogged, outdated>>
    BY <1>10, ConstantsAssumption DEF Retry, Put, TypeOK
  <2>2. r \in Nat /\ r <= revision[l]
    BY <2>1 DEF RevisionForRetry, TypeOK
  <2> HIDE DEF r
  <2>3. known'[l] = r /\ sent' = [sent EXCEPT ![c] = r]
    BY <2>1 DEF TypeOK
  <2>4. TypeOK'
    BY <2>1, <2>2, <2>3 DEF TypeOK, Waiting, theirs
  <2>5. RevisionsGiven'
    BY <2>1, <2>2, <2>3, ConstantsAssumption DEF TypeOK, theirs
  <2>6. HasJob'
    BY <2>1 DEF TypeOK
  <2> QED
    BY <2>4, <2>5, <2>6
<1>11. ASSUME NEW c \in Setters, RefusedTwice(c) PROVE IInv'
  BY <1>11 DEF RefusedTwice, Ends, TypeOK, theirs, ours
<1>12. CASE Handle
  <2>1. Head(events) \in Event /\ Tail(events) \in Seq(Event)
    BY <1>12 DEF Handle, TypeOK
  <2>2. Usable(Head(events)) => Head(events).mode \in Modes
    BY <2>1, ConstantsAssumption DEF Usable, Event, Modes
  <2> QED
    <3> DEFINE e == Head(events)
    <3>1. mode' = [l \in Relevant |->
                     IF Usable(e) /\ l \in LocationOf(e) THEN e.mode ELSE mode[l]]
      BY <1>12 DEF Handle
    <3>2. mode' \in [Relevant -> Modes \union {None}]
      <4>1. ASSUME NEW l \in Relevant
            PROVE  (IF Usable(e) /\ l \in LocationOf(e) THEN e.mode ELSE mode[l])
                     \in Modes \union {None}
        BY <2>2 DEF TypeOK
      <4> HIDE DEF e
      <4> QED
        BY <3>1, <4>1
    <3>3. /\ events' = Tail(events)
          /\ UNCHANGED <<arlo, revision, had, known, pc, calls>>
      BY <1>12 DEF Handle
    <3> QED
      BY <2>1, <3>2, <3>3 DEF TypeOK, calls
<1>13. CASE UNCHANGED vars
  BY <1>13 DEF vars, TypeOK
<1> QED
  BY <1>1, <1>2, <1>3, <1>4, <1>5, <1>6, <1>7, <1>8, <1>9, <1>10, <1>11,
     <1>12, <1>13
     DEF Next, Served, Command, Answered

\* Type correctness of ModeSync.
THEOREM TypeCorrect == Spec => []TypeOK
<1>1. IInv => TypeOK
  BY DEF IInv
<1> QED
  BY <1>1, InitIInv, NextIInv, PTL DEF Spec

\* Whatever the answers, retries, logins and other clients interleave to, the
\* revision a command sends is one Arlo has given out: a PUT is never taken
\* for a state of the location that has not been yet.
THEOREM NeverAhead == Spec => []RevisionNeverAhead
<1>1. IInv => RevisionNeverAhead
  BY DEF IInv, RevisionsGiven, RevisionNeverAhead
<1> QED
  BY <1>1, InitIInv, NextIInv, PTL DEF Spec

----------------------------------------------------------------------------
(* What a location shows is a mode it has had, or was given by a fallback. *)
(* It comes from an event or from an accepted command, so both are about   *)
(* modes that the location they will be applied to may show.               *)

Shown(l) == had[l] \union Borrowed(l)

EventsReal ==
  \A i \in DOMAIN events : \A l \in LocationOf(events[i]) :
    Usable(events[i]) => events[i].mode \in Shown(l)

AcceptedReal ==
  \A c \in Setters : pc[c] = "accepted" => job[c].mode \in had[job[c].location]

RInv == EventsReal /\ AcceptedReal /\ ModeWasReal

\* Where one location is kept it is that one.
LEMMA SoleLocation ==
  ASSUME NEW k \in Relevant, Cardinality(Relevant) = 1
  PROVE  Relevant = {k}
<1>1. IsFiniteSet(Relevant)
  BY FS_Subset, ConstantsAssumption
<1> QED
  BY <1>1, FS_Singleton

\* An event of a change of l that is applied at all is applied to l, to the
\* first location for a device of l whose gateway none claims, or to the only
\* location there is.
LEMMA LocationOfChange ==
  ASSUME NEW l \in Locations, NEW m \in Modes,
         NEW e \in ActiveModeEvents(l, m) \union CopiesOf(l, m),
         NEW k \in LocationOf(e), Usable(e)
  PROVE  /\ k \in Relevant
         /\ e.mode = m
         /\ \/ k = l
            \/ k = First /\ l \in Strays /\ m \in Standard
            \/ Relevant = {k}
<1>1. k \in Relevant /\ (e.tag = k \/ (e.tag = None /\ Cardinality(Relevant) = 1))
  BY DEF LocationOf
<1>2. k # None
  BY <1>1, ConstantsAssumption
<1>3. e.tag = None => Relevant = {k}
  BY <1>1, <1>2, SoleLocation
<1>4. CASE e \in ActiveModeEvents(l, m)
  BY <1>1, <1>3, <1>4 DEF ActiveModeEvents
<1>5. CASE e \in CopiesOf(l, m)
  <2>1. /\ e.tag \in LocationsForDevice(l) /\ e.authority = FALSE
        /\ e.mode = IF m \in Custom THEN Key ELSE m
    BY <1>5 DEF CopiesOf
  <2>2. e.mode = m /\ m \in Standard
    BY <2>1, ConstantsAssumption DEF Usable
  <2> QED
    BY <1>1, <1>3, <2>1, <2>2 DEF LocationsForDevice
<1> QED
  BY <1>4, <1>5

\* A history only grows, and with it what a location may show.
LEMMA ShownGrows ==
  ASSUME \A k \in Locations : had[k] \subseteq had'[k], NEW l \in Relevant
  PROVE  Shown(l) \subseteq Shown(l)'
<1>1. l \in Locations /\ Strays \subseteq Locations
  BY ConstantsAssumption
<1>2. Borrowed(l) \subseteq Borrowed(l)'
  BY <1>1 DEF Borrowed
<1> QED
  BY <1>1, <1>2 DEF Shown

\* A change is in the location's history before anybody hears of it.
LEMMA ChangeReal ==
  ASSUME TypeOK, EventsReal, NEW l \in Locations, NEW m \in Modes, Change(l, m)
  PROVE  /\ EventsReal'
         /\ \A k \in Locations : had[k] \subseteq had'[k]
         /\ m \in had'[l]
<1>1. had' = [had EXCEPT ![l] = @ \union {m}] /\ had \in [Locations -> SUBSET Modes]
  BY DEF Change, TypeOK
<1>2. (\A k \in Locations : had[k] \subseteq had'[k]) /\ m \in had'[l]
  BY <1>1
<1>3. PICK e \in ActiveModeEvents(l, m), f \in CopiesOf(l, m) :
        \/ events' = Append(events, e)
        \/ events' = Append(Append(events, e), f)
  <2>1. CopiesOf(l, m) # {}
    <3>1. [tag |-> l, mode |-> IF m \in Custom THEN Key ELSE m, authority |-> FALSE]
            \in CopiesOf(l, m)
      BY DEF CopiesOf, LocationsForDevice
    <3> QED
      BY <3>1
  <2>2. PICK e \in ActiveModeEvents(l, m) :
          \/ events' = Append(events, e)
          \/ \E f \in CopiesOf(l, m) : events' = Append(Append(events, e), f)
    BY DEF Change
  <2> QED
    BY <2>1, <2>2
<1>4. e \in Event /\ f \in Event /\ events \in Seq(Event)
  <2>1. e \in Event
    BY DEF ActiveModeEvents, Event
  <2> QED
    BY <2>1, CopyTyped DEF TypeOK
<1>5. ASSUME NEW i \in DOMAIN events'
      PROVE  \/ i \in DOMAIN events /\ events'[i] = events[i]
             \/ events'[i] \in {e, f}
  <2>1. CASE events' = Append(events, e)
    BY <1>4, <1>5, <2>1
  <2>2. CASE events' = Append(Append(events, e), f)
    BY <1>4, <1>5, <2>2
  <2> QED
    BY <1>3, <2>1, <2>2
<1>6. ASSUME NEW i \in DOMAIN events', NEW k \in LocationOf(events'[i]),
             Usable(events'[i])
      PROVE  events'[i].mode \in Shown(k)'
  <2>1. CASE i \in DOMAIN events /\ events'[i] = events[i]
    <3>1. k \in Relevant
      BY <1>6 DEF LocationOf
    <3>2. events'[i].mode \in Shown(k)
      BY <1>6, <2>1 DEF EventsReal
    <3> QED
      BY <1>2, <3>1, <3>2, ShownGrows
  <2>2. CASE events'[i] \in {e, f}
    <3>1. /\ k \in Relevant /\ events'[i].mode = m
          /\ \/ k = l
             \/ k = First /\ l \in Strays /\ m \in Standard
             \/ Relevant = {k}
      BY <1>6, <2>2, LocationOfChange
    <3> QED
      BY <1>2, <3>1 DEF Shown, Borrowed
  <2> QED
    BY <1>5, <2>1, <2>2
<1>7. ASSUME NEW i \in DOMAIN events', NEW k \in LocationOf(events[i])',
             Usable(events[i])'
      PROVE  events'[i].mode \in Shown(k)'
  BY <1>6, <1>7 DEF LocationOf, Usable
<1> QED
  BY <1>2, <1>7 DEF EventsReal

LEMMA InitRInv == Init => RInv
<1> SUFFICES ASSUME Init PROVE RInv
  OBVIOUS
<1>1. EventsReal /\ AcceptedReal
  BY DEF Init, EventsReal, AcceptedReal
<1>2. ModeWasReal
  <2>1. \A l \in Relevant : mode[l] \in {arlo[l], None} /\ had[l] = {arlo[l]}
    BY ConstantsAssumption DEF Init
  <2> QED
    BY <2>1 DEF ModeWasReal
<1> QED
  BY <1>1, <1>2 DEF RInv

\* Where no event comes or goes, no mode is written and no command is
\* accepted, nothing changes for the history.
LEMMA RInvKept ==
  ASSUME TypeOK, IInv, RInv, UNCHANGED <<had, events, mode>>,
         \A c \in Setters : pc'[c] = "accepted" =>
           pc[c] = "accepted" /\ job'[c] = job[c]
  PROVE  RInv'
<1>1. EventsReal'
  BY DEF RInv, EventsReal, LocationOf, Usable, Shown, Borrowed
<1>2. AcceptedReal' /\ ModeWasReal'
  BY DEF RInv, AcceptedReal, ModeWasReal, Borrowed
<1> QED
  BY <1>1, <1>2 DEF RInv

LEMMA NextRInv == IInv /\ RInv /\ [Next]_vars => RInv'
<1> SUFFICES ASSUME TypeOK, IInv, RInv, [Next]_vars PROVE RInv'
  BY DEF IInv
<1>1. ASSUME NEW l \in Locations, NEW m \in Modes, Change(l, m),
             UNCHANGED <<mode, job>>,
             \A c \in Setters : pc'[c] = "accepted" =>
               \/ pc[c] = "accepted"
               \/ job[c] = [location |-> l, mode |-> m]
      PROVE  RInv'
  <2>1. /\ EventsReal'
        /\ \A k \in Locations : had[k] \subseteq had'[k]
        /\ m \in had'[l]
    BY <1>1, ChangeReal DEF RInv
  <2>2. ASSUME NEW c \in Setters, pc'[c] = "accepted"
        PROVE  job'[c].mode \in had'[job'[c].location]
    <3>1. CASE pc[c] = "accepted"
      <4>1. job[c].location \in Locations
        BY <3>1, ConstantsAssumption DEF IInv, HasJob, Job
      <4> QED
        BY <1>1, <2>1, <3>1, <4>1 DEF RInv, AcceptedReal
    <3>2. CASE job[c] = [location |-> l, mode |-> m]
      BY <1>1, <2>1, <3>2
    <3> QED
      BY <1>1, <2>2, <3>1, <3>2
  <2>3. ModeWasReal'
    BY <1>1, <2>1, ShownGrows DEF RInv, ModeWasReal, Shown
  <2> QED
    BY <2>1, <2>2, <2>3 DEF RInv, AcceptedReal
<1>2. ASSUME NEW l \in Locations, NEW m \in Modes, OtherClient(l, m) PROVE RInv'
  BY <1>1, <1>2 DEF OtherClient, ours
<1>3. ASSUME NEW c \in Setters, ServePut(c) PROVE RInv'
  <2> DEFINE l == job[c].location
             m == job[c].mode
  <2>0. /\ pc[c] = "put" /\ l \in Locations /\ m \in Modes
        /\ job[c] = [location |-> l, mode |-> m]
        /\ UNCHANGED <<mode, job>>
    BY <1>3, ConstantsAssumption DEF ServePut, ours, IInv, HasJob, Job
  <2>1. CASE sent[c] = revision[l]
    <3>1. Change(l, m) /\ pc' = [pc EXCEPT ![c] = "accepted"]
      BY <1>3, <2>1 DEF ServePut
    <3>2. \A d \in Setters : pc'[d] = "accepted" => d = c \/ pc[d] = "accepted"
      BY <3>1 DEF TypeOK
    <3> QED
      BY <1>1, <2>0, <3>1, <3>2
  <2>2. CASE sent[c] # revision[l]
    <3>1. pc' = [pc EXCEPT ![c] = "refused"] /\ UNCHANGED <<had, events>>
      BY <1>3, <2>2 DEF ServePut, theirs
    <3>2. \A d \in Setters : pc'[d] = "accepted" => pc[d] = "accepted"
      BY <3>1 DEF TypeOK
    <3> QED
      BY <2>0, <3>1, <3>2, RInvKept
  <2> QED
    BY <2>1, <2>2
<1>4. ASSUME NEW c \in Setters,
             \/ ServeGet(c) \/ TokenRejected(c) \/ LoggedIn(c) \/ Raises(c)
             \/ RefusedOnce(c) \/ Retry(c) \/ RefusedTwice(c)
             \/ \E l \in Commanded, m \in Modes : SetActiveMode(c, l, m)
      PROVE  RInv'
  <2>1. UNCHANGED <<had, events, mode>>
    BY <1>4
    DEF ServeGet, TokenRejected, LoggedIn, Raises, RefusedOnce, Retry,
        RefusedTwice, SetActiveMode, theirs, ours
  <2>2. /\ pc'[c] # "accepted"
        /\ \A d \in Setters \ {c} : pc'[d] = pc[d] /\ job'[d] = job[d]
    BY <1>4
    DEF ServeGet, TokenRejected, LoggedIn, Raises, RefusedOnce, Retry,
        RefusedTwice, SetActiveMode, Put, Ends, TypeOK
  <2> QED
    BY <2>1, <2>2, RInvKept
<1>5. ASSUME NEW c \in Setters, Accepted(c) PROVE RInv'
  <2> DEFINE l == job[c].location
  <2>1. /\ pc[c] = "accepted" /\ l \in Relevant
        /\ mode' = [mode EXCEPT ![l] = job[c].mode]
        /\ UNCHANGED <<had, events>>
    BY <1>5 DEF Accepted, theirs, IInv, HasJob, Job
  <2>2. \A d \in Setters : pc'[d] = "accepted" => pc[d] = "accepted" /\ job'[d] = job[d]
    BY <1>5 DEF Accepted, Ends, TypeOK
  <2>3. job[c].mode \in had[l]
    BY <2>1 DEF RInv, AcceptedReal
  <2>4. ModeWasReal'
    BY <2>1, <2>3 DEF RInv, ModeWasReal, Borrowed, TypeOK
  <2>5. EventsReal'
    BY <2>1 DEF RInv, EventsReal, LocationOf, Usable, Shown, Borrowed
  <2> QED
    BY <2>1, <2>2, <2>4, <2>5 DEF RInv, AcceptedReal
<1>6. CASE Handle
  <2> DEFINE e == Head(events)
  <2>1. /\ events \in Seq(Event) /\ events # <<>> /\ events' = Tail(events)
        /\ mode' = [l \in Relevant |->
                      IF Usable(e) /\ l \in LocationOf(e) THEN e.mode ELSE mode[l]]
        /\ UNCHANGED <<had, pc, job>>
    BY <1>6 DEF Handle, TypeOK, calls
  <2>2. /\ 1 \in DOMAIN events /\ e = events[1]
        /\ \A i \in DOMAIN events' : i + 1 \in DOMAIN events /\ events'[i] = events[i + 1]
    BY <2>1
  <2>3. EventsReal'
    BY <2>1, <2>2 DEF RInv, EventsReal, LocationOf, Usable, Shown, Borrowed
  <2>4. \A l \in LocationOf(e) : Usable(e) => e.mode \in Shown(l)
    BY <2>2 DEF RInv, EventsReal
  <2> HIDE DEF e
  <2>5. ModeWasReal'
    BY <2>1, <2>4 DEF RInv, ModeWasReal, Shown, Borrowed
  <2> QED
    BY <2>1, <2>3, <2>5 DEF RInv, AcceptedReal
<1>7. CASE UNCHANGED vars
  BY <1>7, RInvKept DEF vars
<1> QED
  BY <1>2, <1>3, <1>4, <1>5, <1>6, <1>7
  DEF Next, Served, Command, Answered

\* For any number of locations, whatever commands, answers and events of
\* whichever location interleave to, a location shows a mode it has had, or
\* one of those its two fallbacks give it: the first location the standard
\* modes of the locations with an unclaimed gateway, the only location those
\* of any other.  Never a gateway's key.
THEOREM ShowsOnlyItsOwnModes == Spec => []ModeWasReal
<1>1. Init => IInv /\ RInv
  BY InitIInv, InitRInv
<1>2. IInv /\ RInv /\ [Next]_vars => (IInv /\ RInv)'
  BY NextIInv, NextRInv
<1>3. RInv => ModeWasReal
  BY DEF RInv
<1> QED
  BY <1>1, <1>2, <1>3, PTL DEF Spec

----------------------------------------------------------------------------
(* A command is refused twice only when its fetched revision was not       *)
(* Arlo's.  A revision fetched for a retry stays Arlo's until someone      *)
(* else's change, and is the one that the retry sends unless a login comes *)
(* in between.                                                             *)

FetchedIsLive(c) ==
  /\ pc[c] = "idle" => c \notin retrying
  /\ pc[c] = "login" => c \in relogged
  /\ c \in retrying /\ c \notin outdated =>
       /\ pc[c] = "got" => reply[c] = revision[job[c].location]
       /\ pc[c] = "put" /\ c \notin relogged => sent[c] = revision[job[c].location]
       /\ pc[c] = "refused" => c \in relogged

FInv == \A c \in Setters : FetchedIsLive(c)

\* Nothing changes for a command whose variables, and whose location, are left
\* alone, or whose fetched revision counts as outdated from now on.
LEMMA LiveKept ==
  ASSUME NEW c \in Setters, FetchedIsLive(c),
         pc'[c] = pc[c], job'[c] = job[c], sent'[c] = sent[c], reply'[c] = reply[c],
         c \in retrying' <=> c \in retrying,
         c \in relogged' <=> c \in relogged,
         c \in outdated => c \in outdated',
         \/ pc[c] # "idle" => revision'[job[c].location] = revision[job[c].location]
         \/ c \in retrying => c \in outdated'
  PROVE  FetchedIsLive(c)'
BY DEF FetchedIsLive

\* A change of location l leaves the other locations' revisions alone; the
\* revisions that commands hold of l are outdated.
LEMMA ChangeOutdates ==
  ASSUME IInv, FInv, NEW l \in Locations, NEW m \in Modes, Change(l, m),
         NEW c \in Setters, pc'[c] = pc[c], reply'[c] = reply[c],
         sent'[c] = sent[c],
         UNCHANGED <<job, retrying, relogged>>,
         outdated \subseteq outdated',
         c \in Holding(l) => c \in outdated'
  PROVE  FetchedIsLive(c)'
<1>1. \A k \in Locations : k # l => revision'[k] = revision[k]
  BY DEF Change, IInv, TypeOK
<1>2. pc[c] # "idle" => job[c].location \in Locations
  BY ConstantsAssumption DEF IInv, HasJob, Job
<1>3. pc[c] = "idle" => c \notin retrying
  BY DEF FInv, FetchedIsLive
<1>4. CASE job[c].location = l
  BY <1>4, LiveKept DEF Holding, FInv
<1>5. CASE job[c].location # l
  BY <1>1, <1>2, <1>5, LiveKept DEF FInv
<1> QED BY <1>4, <1>5

LEMMA NextFInv == IInv /\ FInv /\ [Next]_vars => FInv'
<1> SUFFICES ASSUME IInv, FInv, [Next]_vars PROVE FInv'
  OBVIOUS
<1>1. ASSUME NEW l \in Locations, NEW m \in Modes, OtherClient(l, m) PROVE FInv'
  BY <1>1, ChangeOutdates DEF OtherClient, ours, FInv
<1>2. ASSUME NEW c \in Setters, ServePut(c) PROVE FInv'
  <2> DEFINE l == job[c].location
  <2>1. /\ pc[c] = "put" /\ l \in Locations /\ job[c].mode \in Modes
        /\ sent' = [sent EXCEPT ![c] = 0]
        /\ UNCHANGED <<job, retrying, relogged>>
    BY <1>2, ConstantsAssumption DEF ServePut, IInv, HasJob, Job
  <2>2. CASE sent[c] = revision[l]
    <3>1. /\ Change(l, job[c].mode)
          /\ pc' = [pc EXCEPT ![c] = "accepted"]
          /\ \E r \in {0, revision[l] + 1} : reply' = [reply EXCEPT ![c] = r]
          /\ outdated' = outdated \union (Holding(l) \ {c})
      BY <1>2, <2>2 DEF ServePut
    <3>2. FetchedIsLive(c)'
      <4>1. pc'[c] = "accepted"
        BY <3>1 DEF IInv, TypeOK
      <4> QED BY <4>1 DEF FetchedIsLive
    <3>3. ASSUME NEW d \in Setters, d # c PROVE FetchedIsLive(d)'
      <4>1. pc'[d] = pc[d] /\ reply'[d] = reply[d] /\ sent'[d] = sent[d]
        BY <2>1, <3>1, <3>3 DEF IInv, TypeOK
      <4> QED BY <2>1, <3>1, <3>3, <4>1, ChangeOutdates
    <3> QED BY <3>2, <3>3 DEF FInv
  <2>3. CASE sent[c] # revision[l]
    <3>1. /\ pc' = [pc EXCEPT ![c] = "refused"]
          /\ UNCHANGED <<revision, reply, outdated>>
      BY <1>2, <2>3 DEF ServePut, theirs
    <3>2. /\ pc'[c] = "refused"
          /\ \A d \in Setters \ {c} : pc'[d] = pc[d] /\ sent'[d] = sent[d]
      BY <2>1, <3>1 DEF IInv, TypeOK
    <3>3. FetchedIsLive(c)'
      BY <2>1, <2>3, <3>1, <3>2 DEF FInv, FetchedIsLive
    <3>4. ASSUME NEW d \in Setters \ {c} PROVE FetchedIsLive(d)'
      BY <2>1, <3>1, <3>2, <3>4, LiveKept DEF FInv
    <3> QED BY <3>3, <3>4 DEF FInv
  <2> QED BY <2>2, <2>3
<1>3. ASSUME NEW c \in Setters, UNCHANGED revision,
             \A d \in Setters \ {c} :
               /\ pc'[d] = pc[d] /\ job'[d] = job[d]
               /\ sent'[d] = sent[d] /\ reply'[d] = reply[d]
               /\ d \in retrying' <=> d \in retrying
               /\ d \in relogged' <=> d \in relogged
               /\ d \in outdated' <=> d \in outdated,
             FetchedIsLive(c)'
      PROVE  FInv'
  BY <1>3, LiveKept DEF FInv
<1>4. ASSUME NEW c \in Setters, ServeGet(c) PROVE FInv'
  BY <1>3, <1>4 DEF ServeGet, theirs, ours, FetchedIsLive, IInv, TypeOK
<1>5. ASSUME NEW c \in Setters, NEW l \in Commanded, NEW m \in Modes,
             SetActiveMode(c, l, m)
      PROVE  FInv'
  BY <1>3, <1>5 DEF SetActiveMode, Put, theirs, FInv, FetchedIsLive, IInv, TypeOK
<1>6. ASSUME NEW c \in Setters, TokenRejected(c) PROVE FInv'
  BY <1>3, <1>6 DEF TokenRejected, theirs, FetchedIsLive, IInv, TypeOK
<1>7. ASSUME NEW c \in Setters, LoggedIn(c) PROVE FInv'
  BY <1>3, <1>7 DEF LoggedIn, Put, theirs, FInv, FetchedIsLive, IInv, TypeOK
<1>8. ASSUME NEW c \in Setters, Ends(c), UNCHANGED theirs PROVE FInv'
  BY <1>3, <1>8 DEF Ends, theirs, FetchedIsLive, IInv, TypeOK
<1>9. ASSUME NEW c \in Setters, RefusedOnce(c) PROVE FInv'
  BY <1>3, <1>9 DEF RefusedOnce, theirs, FetchedIsLive, IInv, TypeOK
<1>10. ASSUME NEW c \in Setters, Retry(c) PROVE FInv'
  <2> DEFINE l == job[c].location
  <2>1. /\ pc[c] = "got" /\ l \in Relevant
        /\ known' = [known EXCEPT ![l] = RevisionForRetry(l, reply[c])]
        /\ pc' = [pc EXCEPT ![c] = "put"]
        /\ sent' = [sent EXCEPT ![c] = known'[l]]
        /\ reply' = [reply EXCEPT ![c] = 0]
        /\ UNCHANGED <<revision, job, retrying, relogged, outdated>>
    BY <1>10 DEF Retry, Put, theirs, IInv, HasJob, Job
  <2>2. /\ pc'[c] = "put" /\ sent'[c] = RevisionForRetry(l, reply[c])
        /\ \A d \in Setters \ {c} :
             pc'[d] = pc[d] /\ sent'[d] = sent[d] /\ reply'[d] = reply[d]
    BY <2>1 DEF IInv, TypeOK
  <2>3. 1 <= revision[l] /\ revision[l] \in Nat
    BY <2>1, ConstantsAssumption DEF IInv, RevisionsGiven, TypeOK
  <2>4. FetchedIsLive(c)'
    BY <2>1, <2>2, <2>3 DEF FInv, FetchedIsLive, RevisionForRetry
  <2> QED BY <1>3, <2>1, <2>2, <2>4
<1>11. CASE Handle
  BY <1>11, LiveKept DEF Handle, calls, FInv
<1>12. CASE UNCHANGED vars
  BY <1>12, LiveKept DEF vars, FInv
<1> QED
  BY <1>1, <1>2, <1>4, <1>5, <1>6, <1>7, <1>8, <1>9, <1>10, <1>11, <1>12
  DEF Next, Served, Command, Answered, Raises, Accepted, RefusedTwice

\* Whatever commands, other clients and logins interleave to: the retry of a
\* command is refused only when get_active_mode brought no revision, when
\* someone else changed its location after it answered, or when a login made
\* the retry read the revision again.
THEOREM RefusedOnlyWhenOvertakenHolds == Spec => RefusedOnlyWhenOvertaken
<1>1. Init => FInv
  BY DEF Init, FInv, FetchedIsLive
<1>2. FInv => \A c \in Setters :
                RefusedTwice(c) => c \in outdated \/ c \in relogged
  BY DEF FInv, FetchedIsLive, RefusedTwice
<1>3. FInv /\ [Next]_vars =>
        [\A c \in Setters :
           RefusedTwice(c) => c \in outdated \/ c \in relogged]_vars
  BY <1>2
<1> QED
  BY <1>1, <1>3, InitIInv, NextIInv, NextFInv, PTL DEF Spec, RefusedOnlyWhenOvertaken
=============================================================================
