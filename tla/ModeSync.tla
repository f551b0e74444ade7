------------------------------ MODULE ModeSync ------------------------------
(***************************************************************************)
(* The security mode of every location: what Arlo has, what the coordinator*)
(* believes, and the three ways the one follows the other: the command     *)
(* that sets a mode with a revision and retries once, its answer, and the  *)
(* events MQTT publishes about every change, ours and other clients'       *)
(* (coordinator.py async_set_active_mode, _apply_mode,                     *)
(* _handle_active_mode, _handle_device_states, _handle_feed; client.py      *)
(* set_active_mode, get_active_mode; models.py LocationState).             *)
(*                                                                         *)
(* Arlo is external: it accepts a PUT that carries its revision, counts the *)
(* revision up and publishes the change.  Requests, answers and events     *)
(* travel independently; the events keep their order.                      *)
(***************************************************************************)
EXTENDS FiniteSets, Integers, Sequences

CONSTANTS
  Setters,       \* commands that may be in progress together
  Locations,     \* the account's locations
  Relevant,      \* those the coordinator keeps (relevant_locations)
  First,         \* the one it keeps first
  Strays,        \* locations with a device whose gateway no kept location claims
  Standard,      \* the standard modes
  Custom,        \* the custom modes, by label
  Key,           \* a gateway's own key, where Arlo says it for a custom mode
  None,          \* Python's None
  OtherClients,  \* the locations whose mode somebody else changes, too
  StartModes,    \* bound: Arlo's modes when the integration starts
  StartRevisions, \* bound: the revisions Arlo may be at then
  MayFail,       \* bound: the locations whose first fetch may fail
  Commanded,     \* bound: the locations commands are about
  LastRevisions, \* bound: how far Arlo counts, all locations taken together
  MaxPending     \* bound: changes published and not yet handled

ASSUME ConstantsAssumption ==
  /\ Standard \intersect Custom = {}
  /\ Key \notin Standard \union Custom
  /\ None \notin Standard \union Custom \union {Key}
  /\ None \notin Locations
  /\ IsFiniteSet(Locations)
  /\ Relevant \subseteq Locations
  /\ First \in Relevant
  /\ Strays \subseteq Locations
  /\ OtherClients \subseteq Locations
  /\ StartModes \subseteq [Locations -> Standard \union Custom]
  /\ StartRevisions \subseteq Nat \ {0}
  /\ MayFail \subseteq Relevant
  /\ Commanded \subseteq Relevant
  /\ LastRevisions \subseteq [Locations -> Nat]
  /\ MaxPending \in Nat

Modes == Standard \union Custom

VARIABLES
  arlo,      \* Arlo's mode of each location
  revision,  \* Arlo's revision of each location
  had,       \* the modes each location has had
  events,    \* published and not yet handled, in order
  mode,      \* LocationState.active_mode
  known,     \* LocationState.mode_revision
  pc,        \* where each command is
  job,       \* the location and mode a command is about, or None
  sent,      \* the revision the request of a command carries to Arlo
  reply,     \* the revision on its way back to a command
  retrying,  \* commands past their one retry
  relogged,  \* commands past the silent login of the current attempt
  outdated   \* commands whose fetched revision is not Arlo's: an error body, or
             \* somebody has counted it up since

vars == <<arlo, revision, had, events, mode, known, pc, job, sent, reply,
          retrying, relogged, outdated>>

theirs == <<arlo, revision, had, events>>
ours   == <<mode, known>>
calls  == <<job, sent, reply, retrying, relogged, outdated>>

\* An event, with the location its handler finds in it, or none; only an
\* activeMode event is an authority on custom modes.
Event ==
  [tag : Locations \union {None}, mode : Modes, authority : {TRUE}]
    \union [tag : Locations \union {None}, mode : Standard \union {Key},
             authority : {FALSE}]

\* "put", "get": under way to Arlo.  "accepted", "refused", "got": on its way
\* back.  "login": the silent login after a rejected token.
Waiting == {"put", "accepted", "refused", "get", "got", "login"}

TypeOK ==
  /\ arlo \in [Locations -> Modes]
  /\ revision \in [Locations -> Nat]
  /\ had \in [Locations -> SUBSET Modes]
  /\ events \in Seq(Event)
  /\ mode \in [Relevant -> Modes \union {None}]
  /\ known \in [Relevant -> Nat]
  /\ pc \in [Setters -> Waiting \union {"idle"}]
  /\ job \in [Setters -> [location : Relevant, mode : Modes] \union {None}]
  /\ sent \in [Setters -> Nat]
  /\ reply \in [Setters -> Nat]
  /\ retrying \in SUBSET Setters
  /\ relogged \in SUBSET Setters
  /\ outdated \in SUBSET Setters

\* async_setup has asked for the mode and revision of every location it keeps;
\* where that failed the mode is None and the revision 1.
Init ==
  /\ arlo \in StartModes
  /\ revision \in [Locations -> StartRevisions]
  /\ had = [l \in Locations |-> {arlo[l]}]
  /\ events = <<>>
  /\ \E failed \in SUBSET MayFail :
       /\ mode = [l \in Relevant |-> IF l \in failed THEN None ELSE arlo[l]]
       /\ known = [l \in Relevant |-> IF l \in failed THEN 1 ELSE revision[l]]
  /\ pc = [c \in Setters |-> "idle"]
  /\ job = [c \in Setters |-> None]
  /\ sent = [c \in Setters |-> 0]
  /\ reply = [c \in Setters |-> 0]
  /\ retrying = {}
  /\ relogged = {}
  /\ outdated = {}

----------------------------------------------------------------------------
(* Arlo.                                                                   *)

\* Bound: a change is made only while Arlo can still count it, and events are
\* handled before too many wait.
ChangeBound(l) ==
  /\ \E last \in LastRevisions :
       revision[l] < last[l] /\ \A k \in Locations : revision[k] <= last[k]
  /\ Len(events) < MaxPending

\* The activeMode event of a change says which location it is about, or does
\* not.
ActiveModeEvents(l, m) == [tag : {l, None}, mode : {m}, authority : {TRUE}]

\* location_for_device: the location that claims the gateway of a device of l,
\* or the first one when none does; a device that was added later has none.
LocationsForDevice(l) ==
  {l, None} \union (IF l \in Strays THEN {First} ELSE {})

\* The copies of a change, in the feed (which names l, or nothing) and in the
\* states of a device of l, name a custom mode by a gateway's key.
CopiesOf(l, m) ==
  [tag : LocationsForDevice(l), mode : {IF m \in Custom THEN Key ELSE m},
   authority : {FALSE}]

\* The change is published on one topic or, one after the other, on two of
\* them: always in an activeMode event.
Change(l, m) ==
  /\ arlo' = [arlo EXCEPT ![l] = m]
  /\ revision' = [revision EXCEPT ![l] = @ + 1]
  /\ had' = [had EXCEPT ![l] = @ \union {m}]
  /\ \E e \in ActiveModeEvents(l, m) :
       \/ events' = Append(events, e)
       \/ \E f \in CopiesOf(l, m) : events' = Append(Append(events, e), f)

\* Commands about l that hold a revision fetched for their retry.
Holding(l) == {c \in retrying : job[c].location = l}

\* The Arlo app, another installation, a schedule.
OtherClient(l, m) ==
  /\ l \in OtherClients
  /\ ChangeBound(l)
  /\ m # arlo[l]
  /\ Change(l, m)
  /\ outdated' = outdated \union Holding(l)
  /\ UNCHANGED <<ours, pc, job, sent, reply, retrying, relogged>>

\* A PUT with Arlo's revision is taken; the new revision may be left out of
\* the answer.
ServePut(c) ==
  LET l == job[c].location IN
  /\ pc[c] = "put"
  /\ \/ /\ sent[c] = revision[l]
        /\ ChangeBound(l)
        /\ Change(l, job[c].mode)
        /\ pc' = [pc EXCEPT ![c] = "accepted"]
        /\ \E r \in {0, revision[l] + 1} :
             reply' = [reply EXCEPT ![c] = r]
        /\ outdated' = outdated \union (Holding(l) \ {c})
     \/ /\ sent[c] # revision[l]
        /\ pc' = [pc EXCEPT ![c] = "refused"]
        /\ UNCHANGED <<theirs, reply, outdated>>
  /\ sent' = [sent EXCEPT ![c] = 0]
  /\ UNCHANGED <<ours, job, retrying, relogged>>

\* get_active_mode asks for no success: a body that says why Arlo does not
\* answer (a rejected token, for one) is read as revision 0.
ServeGet(c) ==
  LET l == job[c].location IN
  /\ pc[c] = "get"
  /\ pc' = [pc EXCEPT ![c] = "got"]
  /\ \/ /\ reply' = [reply EXCEPT ![c] = revision[l]]
        /\ outdated' = outdated \ {c}
     \/ /\ reply' = [reply EXCEPT ![c] = 0]
        /\ outdated' = outdated \union {c}
  /\ retrying' = retrying \union {c}
  /\ UNCHANGED <<theirs, ours, job, sent, relogged>>

----------------------------------------------------------------------------
(* async_set_active_mode.                                                  *)

\* _do_set reads the location's revision when it is called, also when the
\* retry wrapper calls it again after a login.
Put(c, l, known_now) ==
  /\ pc' = [pc EXCEPT ![c] = "put"]
  /\ sent' = [sent EXCEPT ![c] = known_now[l]]

\* The command returns or raises: its locals are gone.
Ends(c) ==
  /\ pc' = [pc EXCEPT ![c] = "idle"]
  /\ job' = [job EXCEPT ![c] = None]
  /\ sent' = [sent EXCEPT ![c] = 0]
  /\ reply' = [reply EXCEPT ![c] = 0]
  /\ retrying' = retrying \ {c}
  /\ relogged' = relogged \ {c}
  /\ outdated' = outdated \ {c}

\* A location that is not kept raises RuntimeError, a label no gateway has any
\* more ValueError: neither changes anything.
SetActiveMode(c, l, m) ==
  /\ pc[c] = "idle"
  /\ job' = [job EXCEPT ![c] = [location |-> l, mode |-> m]]
  /\ Put(c, l, known)
  /\ UNCHANGED <<theirs, ours, reply, retrying, relogged, outdated>>

\* Mutant: every rejected token is answered with another login.
LoginAlways(c) == TRUE

\* call_with_session_retry repeats the request once.
LoginLeft(c) == c \notin relogged

\* Error 2015 instead of an answer; the request did not reach the mode.
TokenRejected(c) ==
  /\ pc[c] = "put"
  /\ LoginLeft(c)
  /\ pc' = [pc EXCEPT ![c] = "login"]
  /\ relogged' = relogged \union {c}
  /\ sent' = [sent EXCEPT ![c] = 0]
  /\ UNCHANGED <<theirs, ours, job, reply, retrying, outdated>>

LoggedIn(c) ==
  /\ pc[c] = "login"
  /\ Put(c, job[c].location, known)
  /\ UNCHANGED <<theirs, ours, job, reply, retrying, relogged, outdated>>

\* Anything but an APIError passes through to the entity: no answer, a login
\* that failed, a get_active_mode that failed.  Arlo may have taken the PUT.
Raises(c) ==
  /\ pc[c] # "idle"
  /\ Ends(c)
  /\ UNCHANGED <<theirs, ours>>

\* Mutant: an answer without a revision is taken for the next one.
KnownGuessed(l, r) == IF r = 0 THEN known[l] + 1 ELSE r

\* `if result.revision`: an answer without one leaves what is known.
KnownAfter(l, r) == IF r = 0 THEN known[l] ELSE r

Accepted(c) ==
  LET l == job[c].location IN
  /\ pc[c] = "accepted"
  /\ known' = [known EXCEPT ![l] = KnownAfter(l, reply[c])]
  /\ mode' = [mode EXCEPT ![l] = job[c].mode]
  /\ Ends(c)
  /\ UNCHANGED theirs

\* APIError: the attempt is over, ask for the live revision, once.
RefusedOnce(c) ==
  /\ pc[c] = "refused"
  /\ c \notin retrying
  /\ pc' = [pc EXCEPT ![c] = "get"]
  /\ relogged' = relogged \ {c}
  /\ UNCHANGED <<theirs, ours, job, sent, reply, retrying, outdated>>

\* Mutant: the fetched revision is not stored before the retry.
KnownBefore(l, r) == known[l]

\* `state.revision or 1`.
RevisionForRetry(l, r) == IF r = 0 THEN 1 ELSE r

Retry(c) ==
  LET l == job[c].location IN
  /\ pc[c] = "got"
  /\ known' = [known EXCEPT ![l] = RevisionForRetry(l, reply[c])]
  /\ Put(c, l, known')
  /\ reply' = [reply EXCEPT ![c] = 0]
  /\ UNCHANGED <<theirs, mode, job, retrying, relogged, outdated>>

\* The second APIError reaches the user.
RefusedTwice(c) ==
  /\ pc[c] = "refused"
  /\ c \in retrying
  /\ Ends(c)
  /\ UNCHANGED <<theirs, ours>>

----------------------------------------------------------------------------
(* The MQTT handlers.                                                      *)

\* Custom modes are left to the activeMode event (#39).
Usable(e) == e.authority \/ e.mode \in Standard

\* Mutant: an event that names no location is given to the first one.
FirstIfUnnamed(e) ==
  {l \in Relevant : e.tag = l \/ (e.tag = None /\ l = First)}

\* _apply_mode: an event without a location is only safe when there is exactly
\* one; one about a location that is not kept is ignored.
LocationOf(e) ==
  {l \in Relevant : e.tag = l \/ (e.tag = None /\ Cardinality(Relevant) = 1)}

\* Event revisions are not looked at: the event is applied, whatever is known.
Handle ==
  /\ events # <<>>
  /\ events' = Tail(events)
  /\ LET e == Head(events) IN
     mode' = [l \in Relevant |->
                IF Usable(e) /\ l \in LocationOf(e) THEN e.mode ELSE mode[l]]
  /\ UNCHANGED <<arlo, revision, had, known, pc, calls>>

----------------------------------------------------------------------------
Answered(c) == Accepted(c) \/ RefusedOnce(c) \/ Retry(c) \/ RefusedTwice(c)

Served(c) == ServePut(c) \/ ServeGet(c)

Command(c) ==
  \/ \E l \in Commanded, m \in Modes : SetActiveMode(c, l, m)
  \/ TokenRejected(c)
  \/ LoggedIn(c)
  \/ Raises(c)
  \/ Answered(c)

Next ==
  \/ \E l \in Locations, m \in Modes : OtherClient(l, m)
  \/ \E c \in Setters : Served(c) \/ Command(c)
  \/ Handle

Spec == Init /\ [][Next]_vars

\* A request is served or fails, and what has come back is acted on.
FairSpec ==
  /\ Spec
  /\ \A c \in Setters :
       WF_vars(Served(c) \/ TokenRejected(c) \/ LoggedIn(c) \/ Raises(c) \/ Answered(c))
  /\ WF_vars(Handle)

----------------------------------------------------------------------------
(* Properties.                                                             *)

\* The revision a command will send is never one Arlo has not given out, so a
\* PUT that is taken is one whose sender had seen the mode it replaces: no
\* order of answers and retries runs the count ahead of Arlo's.
RevisionNeverAhead ==
  /\ \A l \in Relevant : known[l] <= revision[l]
  /\ \A c \in Setters : pc[c] # "idle" => sent[c] <= revision[job[c].location]

\* The modes of other locations that l may be given: where a gateway is claimed
\* by none, the standard modes of its location go to the first one; and where
\* one location is kept, it takes what names none.
Borrowed(l) ==
  {m \in Modes : \E k \in Locations :
     /\ m \in had[k]
     /\ \/ l = First /\ k \in Strays /\ m \in Standard
        \/ Relevant = {l}}

\* What a location shows is a mode it has had, or one it was given by the two
\* fallbacks: an event of another location whose gateways are claimed never
\* ends up there, nor one that names none among several, nor a gateway's key.
ModeWasReal ==
  \A l \in Relevant : mode[l] \in had[l] \union Borrowed(l) \union {None}

\* A stale revision costs a command one retry, never the command: it is given
\* up after the second refusal only when the revision it fetched was none (an
\* error body, for which it sends 1), when someone else's change came between
\* the fetch and the retry, or when a login in the middle of the retry made it
\* read the location's revision once more.
RefusedOnlyWhenOvertaken ==
  [][\A c \in Setters : RefusedTwice(c) => c \in outdated \/ c \in relogged]_vars

\* Every command comes to an end, whatever everybody else does.
CommandsEnd == \A c \in Setters : pc[c] # "idle" ~> pc[c] = "idle"

\* With nothing under way the select shows what Arlo has: "that location's
\* select stays in sync if a different client changes it".
StaysInSync ==
  (events = <<>> /\ \A c \in Setters : pc[c] = "idle") =>
    \A l \in Relevant : mode[l] \in {arlo[l], None}
=============================================================================
