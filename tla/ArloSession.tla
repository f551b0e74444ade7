---------------------------- MODULE ArloSession ----------------------------
(***************************************************************************)
(* The Arlo session of one config entry: the token every request carries,  *)
(* the silent login that replaces it, the call-retry wrapper around the    *)
(* entities' commands, the block on a dead session, and the health tick    *)
(* that refreshes the token (coordinator.py call_with_session_retry,       *)
(* _mark_auth_dead, _login_silent, _async_update_data; client.py login).   *)
(*                                                                         *)
(* A token is abstracted to what Arlo thinks of it: "good"; "stale", once  *)
(* Arlo has ended its session (a login elsewhere, a later login of ours);  *)
(* "unauth", issued by /api/auth before a second factor it still wants.    *)
(* Nothing serialises the actors: each is at an await while others run.    *)
(***************************************************************************)
EXTENDS Integers

CONSTANTS
  Callers,   \* commands that may be in flight together
  Tick       \* the health tick

ASSUME ActorsAssumption == Tick \notin Callers

Actors == Callers \union {Tick}

VARIABLES
  token,     \* client.token
  sent,      \* what Arlo thinks of the token an actor's request carries
  pc,        \* where each actor is
  retried,   \* callers past their one silent login
  dead,      \* coordinator._auth_is_dead
  prompts,   \* calls of _mark_auth_dead that were acted on, since a login
  dialog,    \* is a flow open, reauth or reconfigure, in which the user can log in?
  declined   \* has a flow ended without a login, while the session is blocked?

vars == <<token, sent, pc, retried, dead, prompts, dialog, declined>>

\* The two ways a session waits for its user: calls fail, or nothing ticks.
Blocked == dead \/ pc[Tick] = "stopped"

Token == {"good", "stale", "unauth"}

\* "auth": /api/auth, getFactorId and startAuth; "establish": session/v3;
\* "factors": getFactors.
InLogin == {"auth", "establish", "factors"}

TypeOK ==
  /\ token \in Token
  /\ sent \in [Actors -> Token]
  /\ pc \in [Actors -> InLogin \union {"idle", "call", "maintain", "stopped"}]
  /\ retried \in SUBSET Callers
  /\ dead \in BOOLEAN
  /\ prompts \in Nat
  /\ dialog \in BOOLEAN
  /\ declined \in BOOLEAN

\* async_setup has logged in.
Init ==
  /\ token = "good"
  /\ sent = [a \in Actors |-> "good"]
  /\ pc = [a \in Actors |-> "idle"]
  /\ retried = {}
  /\ dead = FALSE
  /\ prompts = 0
  /\ dialog = FALSE
  /\ declined = FALSE

----------------------------------------------------------------------------
(* Arlo.                                                                   *)

\* The user logs in elsewhere: every token we hold is rejected from now on.
Invalidate ==
  /\ token = "good"
  /\ token' = "stale"
  /\ sent' = [a \in Actors |-> IF sent[a] = "good" THEN "stale" ELSE sent[a]]
  /\ UNCHANGED <<pc, retried, dead, prompts, dialog, declined>>

----------------------------------------------------------------------------
(* call_with_session_retry.                                                *)

\* A blocked call raises ConfigEntryAuthFailed and changes nothing.
CallStarts(c) ==
  /\ pc[c] = "idle"
  /\ ~dead
  /\ pc' = [pc EXCEPT ![c] = "call"]
  /\ sent' = [sent EXCEPT ![c] = token]
  /\ retried' = retried \ {c}
  /\ UNCHANGED <<token, dead, prompts, dialog, declined>>

\* A reply, an APIError or a TransientAPIError: returned or raised to the
\* entity.  So is a rejected token, the second time.
CallEnds(c) ==
  /\ pc[c] = "call"
  /\ sent[c] # "good" => c \in retried
  /\ pc' = [pc EXCEPT ![c] = "idle"]
  /\ UNCHANGED <<token, sent, retried, dead, prompts, dialog, declined>>

\* The edge may fail to answer whatever the token is.
CallUnanswered(c) ==
  /\ pc[c] = "call"
  /\ pc' = [pc EXCEPT ![c] = "idle"]
  /\ UNCHANGED <<token, sent, retried, dead, prompts, dialog, declined>>

\* Mutant: every rejection of one call spends another login.
LoginAgain(c) == TRUE

\* The wrapper is past its first attempt only once.
MayLogin(c) == c \notin retried

\* Error 2015: log in again, whatever the other actors have done meanwhile.
CallRejected(c) ==
  /\ pc[c] = "call"
  /\ sent[c] # "good"
  /\ MayLogin(c)
  /\ pc' = [pc EXCEPT ![c] = "auth"]
  /\ retried' = retried \union {c}
  /\ UNCHANGED <<token, sent, dead, prompts, dialog, declined>>

----------------------------------------------------------------------------
(* client.login: what an actor inside _login_silent may see.               *)

\* MFA complete, or disabled, or the browser trusted: the token is replaced
\* before session/v3 has been asked.  Arlo may end the older sessions.
TokenIssued(a) ==
  /\ pc[a] = "auth"
  /\ pc' = [pc EXCEPT ![a] = "establish"]
  /\ token' = "good"
  /\ \E ended \in BOOLEAN :
       sent' = [b \in Actors |->
                  IF b = a THEN "good"
                  ELSE IF ended /\ sent[b] = "good" THEN "stale" ELSE sent[b]]
  /\ UNCHANGED <<retried, dead, prompts, dialog, declined>>

\* Browser not trusted: the token that a second factor would complete takes
\* the place of the one in use, and getFactors is asked.
BrowserNotTrusted(a) ==
  /\ pc[a] = "auth"
  /\ pc' = [pc EXCEPT ![a] = "factors"]
  /\ token' = "unauth"
  /\ sent' = [sent EXCEPT ![a] = "unauth"]
  /\ UNCHANGED <<retried, dead, prompts, dialog, declined>>

\* Mutant: a login does not lift the block.
StillDead == dead

\* A session again: whatever blocked calls before no longer applies.
DeadAfterLogin == FALSE

\* The session is established: _auth_is_dead is cleared; a caller repeats its
\* request, the tick goes on.
LoginSucceeds(a) ==
  /\ pc[a] = "establish"
  /\ sent[a] = "good"
  /\ dead' = DeadAfterLogin
  /\ prompts' = 0
  /\ pc' = [pc EXCEPT ![a] = IF a = Tick THEN "maintain" ELSE "call"]
  /\ sent' = [sent EXCEPT ![a] = token]
  /\ declined' = (declined /\ pc[Tick] = "stopped")
  /\ UNCHANGED <<token, retried, dialog>>

\* An answer that is a verdict: bad credentials, a rate limit, MfaRequired, a
\* token that is not accepted.
Verdict(a) ==
  \/ pc[a] \in {"auth", "factors"}
  \/ pc[a] = "establish" /\ sent[a] # "good"

\* Mutant: every refused caller starts a flow.
MarkAgain == FALSE

AlreadyMarked == dead

\* Mutant: a refused login blocks the calls and tells nobody.
ReauthAsBefore == dialog

\* entry.async_start_reauth: Home Assistant opens a flow unless this entry has
\* one open.
ReauthAfterRefusal == TRUE

\* A caller marks the session dead and starts a reauth flow, once; the tick
\* raises ConfigEntryAuthFailed, which starts a flow and ends the ticks.
LoginRefused(a) ==
  /\ Verdict(a)
  /\ \/ /\ a # Tick
        /\ pc' = [pc EXCEPT ![a] = "idle"]
        /\ \/ /\ AlreadyMarked
              /\ UNCHANGED <<dead, prompts, dialog, declined>>
           \/ /\ ~AlreadyMarked
              /\ dead' = TRUE
              /\ prompts' = prompts + 1
              /\ dialog' = ReauthAfterRefusal
              /\ declined' = FALSE
     \/ /\ a = Tick
        /\ pc' = [pc EXCEPT ![a] = "stopped"]
        /\ dialog' = ReauthAfterRefusal
        /\ declined' = FALSE
        /\ UNCHANGED <<dead, prompts>>
  /\ UNCHANGED <<token, sent, retried>>

\* No verdict: the error passes through a caller untouched, and the tick
\* continues with its other steps.
LoginUnanswered(a) ==
  /\ pc[a] \in InLogin
  /\ pc' = [pc EXCEPT ![a] = IF a = Tick THEN "maintain" ELSE "idle"]
  /\ sent' = [sent EXCEPT ![a] = token]
  /\ UNCHANGED <<token, retried, dead, prompts, dialog, declined>>

----------------------------------------------------------------------------
(* The health tick.                                                        *)

\* The token is more than an hour old, or it is not: both can be.
TickStarts ==
  /\ pc[Tick] = "idle"
  /\ \E next \in {"auth", "maintain"} : pc' = [pc EXCEPT ![Tick] = next]
  /\ sent' = [sent EXCEPT ![Tick] = token]
  /\ UNCHANGED <<token, retried, dead, prompts, dialog, declined>>

\* The base-station renewal and the device list ask Arlo with the token, not
\* through the wrapper; what they are answered, they log.
TickEnds ==
  /\ pc[Tick] = "maintain"
  /\ pc' = [pc EXCEPT ![Tick] = "idle"]
  /\ UNCHANGED <<token, sent, retried, dead, prompts, dialog, declined>>

----------------------------------------------------------------------------
(* The user.                                                               *)

\* A reconfigure flow can be opened at any time.
UserReconfigures ==
  /\ ~dialog
  /\ dialog' = TRUE
  /\ UNCHANGED <<token, sent, pc, retried, dead, prompts, declined>>

\* The flow aborts (a rate limit, a factor that timed out) or is dismissed:
\* the coordinator is not told, and _auth_is_dead stays as it is.
DialogCloses ==
  /\ dialog
  /\ dialog' = FALSE
  /\ declined' = Blocked
  /\ UNCHANGED <<token, sent, pc, retried, dead, prompts>>

\* The user completes a flow, which reloads the entry: a new coordinator logs
\* in.  Of two flows the other one stays open.
UserReauthenticates ==
  /\ dialog
  /\ \A a \in Actors : pc[a] \in {"idle", "stopped"}
  /\ token' = "good"
  /\ sent' = [a \in Actors |-> "good"]
  /\ pc' = [a \in Actors |-> "idle"]
  /\ retried' = {}
  /\ dead' = FALSE
  /\ prompts' = 0
  /\ dialog' \in BOOLEAN
  /\ declined' = FALSE

----------------------------------------------------------------------------
Call(c) ==
  CallStarts(c) \/ CallEnds(c) \/ CallUnanswered(c) \/ CallRejected(c)

Login(a) ==
  \/ TokenIssued(a)
  \/ BrowserNotTrusted(a)
  \/ LoginSucceeds(a)
  \/ LoginRefused(a)
  \/ LoginUnanswered(a)

Next ==
  \/ Invalidate
  \/ \E c \in Callers : Call(c)
  \/ \E a \in Actors : Login(a)
  \/ TickStarts
  \/ TickEnds
  \/ UserReconfigures
  \/ DialogCloses
  \/ UserReauthenticates

Spec == Init /\ [][Next]_vars

\* A request that was sent comes back (aiohttp gives up after five minutes),
\* the tick's timer fires, and a login that is tried for ever gets an answer.
FairSpec ==
  /\ Spec
  /\ \A c \in Callers :
       WF_vars(CallEnds(c) \/ CallUnanswered(c) \/ CallRejected(c))
  /\ \A a \in Actors : WF_vars(Login(a))
  /\ WF_vars(TickStarts)
  /\ WF_vars(TickEnds)
  /\ SF_vars(TickStarts /\ pc'[Tick] = "auth")
  /\ SF_vars(TokenIssued(Tick) \/ LoginRefused(Tick))
  /\ SF_vars(LoginSucceeds(Tick) \/ LoginRefused(Tick))

----------------------------------------------------------------------------
(* Properties.                                                             *)

\* Nobody is blocked silently: a session that fails its callers, or has lost
\* its ticks, has a flow open in which the user can log in, or had one since
\* that ended without a login.  This in whatever order concurrent logins, their
\* verdicts and the ends of earlier flows come; a block that was lifted and
\* comes back is told again.
BlockIsTold == Blocked => dialog \/ declined

\* ... and the callers asked for it at most once since the last good login,
\* although several may be refused one after the other.
ToldOnce == prompts <= (IF dead THEN 1 ELSE 0)

\* One silent login per call: a caller never goes back from the repeated
\* request to another login, so no call can spend login attempts in a loop.
CallsEnd == \A c \in Callers : pc[c] # "idle" ~> pc[c] = "idle"

\* A transient rejection must not wedge the integration: a block is lifted by
\* the next token refresh that succeeds, without the user, unless Arlo refuses
\* that login too, which stops the ticks.
NotWedged == dead ~> (~dead \/ pc[Tick] = "stopped")
=============================================================================
