----------------------------- MODULE ConfigFlow -----------------------------
(***************************************************************************)
(* The dialogs that log in for the user: setup, re-authentication and      *)
(* reconfiguration of the one entry of an account (config_flow.py          *)
(* EisenbergConfigFlow; client.py login, start_mfa, try_finish_auth).      *)
(*                                                                         *)
(* A flow shows a form, takes a submit, awaits Arlo and shows the next     *)
(* form or ends.  Home Assistant (external) runs the flows, takes no        *)
(* submit while one is being answered, and when a step raises leaves the   *)
(* flow at the form it showed.                                             *)
(***************************************************************************)
EXTENDS FiniteSets

CONSTANTS
  Flows,      \* the dialogs that may be open together
  Passwords,  \* what a user may type
  None        \* Python's None

\* What an entry stores of an account; cookie: is there a trust cookie?
Credentials == [password : Passwords, cookie : BOOLEAN]

ASSUME ConstantsAssumption ==
  /\ None \notin Passwords
  /\ None \notin Credentials

VARIABLES
  flow,   \* the state of each flow
  entry,  \* the config entry's data, None before setup
  arlo,   \* the password Arlo accepts
  mfa     \* does Arlo ask for a second factor?

vars == <<flow, entry, arlo, mfa>>

Form == {"none", "user", "confirm", "password", "pick", "push", "otp", "media"}

\* source: creates the entry, or updates it (reauth and reconfigure).  form: the
\* form shown.  await: the request of the submit being answered.
\* client: is _client's session open?  jar: does _cookie_jar hold a trust
\* cookie?  code: what a finishAuth with _factor_auth_code meets.  Records of
\* what happened: proven, the password the client's login was completed with;
\* escaped, has a step raised?; lost, how sessions were left open.
Flow ==
  [source : {"setup", "update"},
   form : Form,
   await : {"none", "login", "fire", "finish"},
   client : BOOLEAN,
   password : Passwords \union {None},
   jar : BOOLEAN,
   factor : {"push", "otp", None},
   code : {"pending", "approved", "spent", None},
   proven : Passwords \union {None},
   escaped : BOOLEAN,
   lost : SUBSET {"overwritten", "ended", "removed"}]

TypeOK ==
  /\ flow \in [Flows -> Flow]
  /\ entry \in Credentials \union {None}
  /\ arlo \in Passwords
  /\ mfa \in BOOLEAN

\* __init__
NewFlow ==
  [source |-> "setup", form |-> "none", await |-> "none", client |-> FALSE,
   password |-> None, jar |-> FALSE, factor |-> None, code |-> None,
   proven |-> None, escaped |-> FALSE, lost |-> {}]

Init ==
  /\ flow = [f \in Flows |-> NewFlow]
  /\ entry = None
  /\ arlo \in Passwords
  /\ mfa \in BOOLEAN

----------------------------------------------------------------------------
(* How a step goes on, as functions of the flow's state.                   *)

\* _cleanup_client
Closed(r) == [r EXCEPT !.client = FALSE]

\* _new_client, which forgets the client it had.  The last factor and its code
\* are not read again before the next ones.
NewClient(r) ==
  [r EXCEPT !.client = TRUE, !.jar = FALSE, !.factor = None, !.code = None,
            !.proven = None,
            !.lost = @ \union (IF r.client THEN {"overwritten"} ELSE {})]

Show(form, r) == [r EXCEPT !.form = form, !.await = "none"]
Await(request, r) == [r EXCEPT !.await = request]

\* The step raises what it does not catch: TransientAPIError, APIError,
\* ClientError.  The form stays.
Escape(r) == [r EXCEPT !.await = "none", !.escaped = TRUE]

\* The flow object is gone; what happened to it is still on record.
GoneWith(reason, r) ==
  [NewFlow EXCEPT !.proven = r.proven, !.escaped = r.escaped,
                  !.lost = r.lost \union (IF r.client THEN {reason} ELSE {})]

Ended(r) == GoneWith("ended", r)

\* Mutant: aborts without _cleanup_client.
AbortOpen(r) == Ended(r)

Abort(r) == Ended(Closed(r))

Proven(r) == [r EXCEPT !.proven = r.password]

----------------------------------------------------------------------------
(* Home Assistant and Arlo.                                                *)

BeginSetup(f) ==
  /\ flow[f].form = "none"
  /\ flow' = [flow EXCEPT ![f] = Show("user", NewFlow)]
  /\ UNCHANGED <<entry, arlo, mfa>>

\* async_step_reauth, async_step_reconfigure: the stored credentials, and a
\* form without fields.
BeginUpdate(f) ==
  /\ flow[f].form = "none"
  /\ entry # None
  /\ flow' = [flow EXCEPT
               ![f] = [Show("confirm", NewFlow) EXCEPT !.source = "update",
                                                       !.password = entry.password]]
  /\ UNCHANGED <<entry, arlo, mfa>>

\* The user closes the dialog: no callback closes the client.
Remove(f) ==
  /\ flow[f].form # "none"
  /\ flow[f].await = "none"
  /\ flow' = [flow EXCEPT ![f] = GoneWith("removed", @)]
  /\ UNCHANGED <<entry, arlo, mfa>>

ChangePassword ==
  /\ arlo' \in Passwords \ {arlo}
  /\ UNCHANGED <<flow, entry, mfa>>

SwitchMfa ==
  /\ mfa' = ~mfa
  /\ UNCHANGED <<flow, entry, arlo>>

\* The push of a flow is approved on the phone.
Approve(f) ==
  /\ flow[f].factor = "push"
  /\ flow[f].code = "pending"
  /\ flow' = [flow EXCEPT ![f].code = "approved"]
  /\ UNCHANGED <<entry, arlo, mfa>>

----------------------------------------------------------------------------
(* What a user submits.                                                    *)

Creates(f) == flow[f].source = "setup"

MaySubmit(f, forms) ==
  /\ flow[f].form \in forms
  /\ flow[f].await = "none"
  /\ UNCHANGED <<entry, arlo, mfa>>

SubmitPassword(f, p) ==
  /\ MaySubmit(f, {"user", "password"})
  /\ flow' = [flow EXCEPT
               ![f] = Await("login", NewClient([@ EXCEPT !.password = p]))]

Confirm(f) ==
  /\ MaySubmit(f, {"confirm"})
  /\ flow' = [flow EXCEPT ![f] = Await("login", NewClient(@))]

PickFactor(f, factor) ==
  /\ MaySubmit(f, {"pick"})
  /\ flow' = [flow EXCEPT ![f] = Await("fire", [@ EXCEPT !.factor = factor])]

SubmitPush(f) ==
  /\ MaySubmit(f, {"push"})
  /\ flow' = [flow EXCEPT ![f] = Await("finish", @)]

\* A code is typed, the right one or a wrong one.
Typed(r, right) ==
  IF r.code = "spent" THEN "spent" ELSE IF right THEN "approved" ELSE "pending"

SubmitOtp(f, right) ==
  /\ MaySubmit(f, {"otp"})
  /\ flow' = [flow EXCEPT
               ![f] = Await("finish", [@ EXCEPT !.code = Typed(flow[f], right)])]

\* async_step_media_storage: the last form of a setup.
SubmitMedia(f) ==
  /\ flow[f].form = "media"
  /\ flow' = [flow EXCEPT ![f] = Ended(@)]
  /\ entry' = IF entry = None
              THEN [password |-> flow[f].password, cookie |-> flow[f].jar]
              ELSE entry
  /\ UNCHANGED <<arlo, mfa>>

----------------------------------------------------------------------------
(* What Arlo's answers make of it.                                         *)

\* Mutant: the cookies of this login are written, whatever they are.
OnlyNewCookie(r) == r.jar

\* "Only overwrite the stored cookie when this login actually minted one."
CookieToStore(r) == entry.cookie \/ r.jar

\* A login is complete: the client is closed, a setup asks where to store
\* media, an update writes the entry (_finalize_reauth) and is done.
Complete(f, r) ==
  IF Creates(f)
  THEN /\ flow' = [flow EXCEPT ![f] = Show("media", Closed(r))]
       /\ UNCHANGED entry
  ELSE /\ flow' = [flow EXCEPT ![f] = Ended(Closed(r))]
       /\ entry' = [password |-> r.password, cookie |-> CookieToStore(r)]

Answered(f, request) ==
  /\ flow[f].await = request
  /\ UNCHANGED <<arlo, mfa>>

GoOn(f, r) == flow' = [flow EXCEPT ![f] = r] /\ UNCHANGED entry

LoginRateLimited(f) ==
  /\ Answered(f, "login")
  /\ GoOn(f, IF Creates(f) THEN Show("user", Closed(flow[f])) ELSE Abort(flow[f]))

\* AuthenticationError: the password; no factor to verify with; or a session
\* myapi rejects, whatever the password.
LoginRejected(f) ==
  /\ Answered(f, "login")
  /\ GoOn(f, Show(IF Creates(f) THEN "user" ELSE "password", Closed(flow[f])))

\* Setup catches everything, an update nothing more.
LoginFails(f) ==
  /\ Answered(f, "login")
  /\ GoOn(f, IF Creates(f) THEN Show("user", Closed(flow[f])) ELSE Escape(flow[f]))

LoginCompletes(f) ==
  /\ Answered(f, "login")
  /\ flow[f].password = arlo
  /\ ~mfa
  /\ Complete(f, Proven(flow[f]))

\* MfaRequired: a single factor is fired without asking.  The jar is new, so no
\* trust cookie spares the factor.
LoginWantsFactor(f) ==
  /\ Answered(f, "login")
  /\ flow[f].password = arlo
  /\ mfa
  /\ \/ GoOn(f, Show("pick", flow[f]))
     \/ \E factor \in {"push", "otp"} :
          GoOn(f, Await("fire", [flow[f] EXCEPT !.factor = factor]))

\* _fire_mfa, _fire_mfa_reauth: RateLimitedError, AuthenticationError.
FireRefused(f) == Answered(f, "fire") /\ GoOn(f, Abort(flow[f]))

FireFails(f) == Answered(f, "fire") /\ GoOn(f, Escape(flow[f]))

Fired(f) ==
  /\ Answered(f, "fire")
  /\ GoOn(f, [Show(flow[f].factor, flow[f]) EXCEPT !.code = "pending"])

FinishRateLimited(f) == Answered(f, "finish") /\ GoOn(f, Abort(flow[f]))

\* Mutant: a refused code closes the client and asks again.
ClosedAndAsked(r) == Show("otp", Closed(r))

\* "invalid_otp"
AskedAgain(r) == Show("otp", r)

\* AuthenticationError.
Refused(r) == IF r.form = "push" THEN Abort(r) ELSE AskedAgain(r)

FinishRejected(f) == Answered(f, "finish") /\ GoOn(f, Refused(flow[f]))

FinishFails(f) == Answered(f, "finish") /\ GoOn(f, Escape(flow[f]))

\* "push_pending", or "invalid_otp" for a code that is not finished yet.
FinishPending(f) ==
  /\ Answered(f, "finish")
  /\ flow[f].code = "pending"
  /\ GoOn(f, Show(flow[f].form, flow[f]))

\* Mutant: any answer of finishAuth counts as an approval.
AnyAnswer(r) == r.code # "spent"

Approved(r) == r.code = "approved"

\* finishAuth is accepted and the browser paired, which mints the trust cookie
\* unless it fails; then myapi says what it thinks of the session.
FinishAccepted(f, minted) ==
  /\ Answered(f, "finish")
  /\ Approved(flow[f])
  /\ LET accepted == [flow[f] EXCEPT !.code = "spent", !.jar = @ \/ minted] IN
     \/ Complete(f, IF flow[f].code = "approved" THEN Proven(accepted) ELSE accepted)
     \/ GoOn(f, Refused(accepted))
     \/ GoOn(f, Escape(accepted))

----------------------------------------------------------------------------
Submit(f) ==
  \/ \E p \in Passwords : SubmitPassword(f, p)
  \/ Confirm(f)
  \/ \E factor \in {"push", "otp"} : PickFactor(f, factor)
  \/ SubmitPush(f)
  \/ \E right \in BOOLEAN : SubmitOtp(f, right)
  \/ SubmitMedia(f)

Answer(f) ==
  \/ LoginRateLimited(f)
  \/ LoginRejected(f)
  \/ LoginFails(f)
  \/ LoginCompletes(f)
  \/ LoginWantsFactor(f)
  \/ FireRefused(f)
  \/ FireFails(f)
  \/ Fired(f)
  \/ FinishRateLimited(f)
  \/ FinishRejected(f)
  \/ FinishFails(f)
  \/ FinishPending(f)
  \/ \E minted \in BOOLEAN : FinishAccepted(f, minted)

Next ==
  \/ \E f \in Flows : \/ BeginSetup(f)
                      \/ BeginUpdate(f)
                      \/ Remove(f)
                      \/ Approve(f)
                      \/ Submit(f)
                      \/ Answer(f)
  \/ ChangePassword
  \/ SwitchMfa

Spec == Init /\ [][Next]_vars

----------------------------------------------------------------------------
(* Properties.                                                             *)

\* A form that asks for a factor or finishes one, and a factor being fired,
\* have an open client: the assertions of _fire_mfa hold, and no form can only
\* answer "cannot_connect".
StepsHaveTheirClient ==
  \A f \in Flows :
    flow[f].form \in {"pick", "push", "otp"} \/ flow[f].await # "none" => flow[f].client

\* A flow leaves a client session open only when the user closes the dialog, or
\* when a step raised and a later submit made another client.
SessionsAreClosed ==
  \A f \in Flows :
    flow[f].lost \subseteq
      {"removed"} \union (IF flow[f].escaped THEN {"overwritten"} ELSE {})

\* What is stored is the password with which the flow that stores it has
\* completed a login, the second factor included where Arlo asked for one.
StoredWasProven ==
  [][entry' # entry
       => \E f \in Flows : /\ flow[f].form # "none" /\ flow'[f].form = "none"
                           /\ flow'[f].proven = entry'.password]_vars

\* A trust cookie, once stored, is never lost, whichever flows end in whichever
\* order and whether or not Arlo asks for a factor (issue #37).
CookieKept ==
  [][entry # None => entry' # None /\ (entry.cookie => entry'.cookie)]_vars
=============================================================================
