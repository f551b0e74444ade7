-------------------------- MODULE ConfigFlowProofs --------------------------
(***************************************************************************)
(* Proofs about the dialogs of config_flow.py, for any number of dialogs   *)
(* open together and any passwords.                                        *)
(*                                                                         *)
(* Every step replaces the state of one flow, so the invariant is a        *)
(* predicate of one flow's record (Sound) beside the types: it relates the *)
(* form and the request under way to the client, the password, the factor  *)
(* and what is on record.  Each step of a flow is shown to make a sound     *)
(* record of a sound one, and OneFlow carries that over to all of them.    *)
(***************************************************************************)
EXTENDS ConfigFlow, TLAPS

\* What the forms and the requests mean for the rest of a flow.
Sound(r) ==
  /\ r.form \in {"pick", "push", "otp"} => r.client
  /\ r.await # "none" => r.client /\ r.form \notin {"none", "media"}
  /\ r.await = "fire" => r.factor \in {"push", "otp"}
  /\ r.await = "finish" => r.form \in {"push", "otp"}
  /\ r.form \in {"confirm", "pick", "push", "otp", "media"} \/ r.await # "none"
       => r.password \in Passwords
  /\ r.form = "media" => ~r.client /\ r.proven = r.password
  /\ r.client /\ r.await = "none" /\ r.form \in {"user", "confirm", "password"}
       => r.escaped
  /\ r.lost \subseteq {"removed"} \union (IF r.escaped THEN {"overwritten"} ELSE {})

IInv ==
  /\ TypeOK
  /\ \A f \in Flows : Sound(flow[f])
  /\ \A f \in Flows : flow[f].source = "update" => entry # None

----------------------------------------------------------------------------
(* The functions of a flow's state.                                        *)

\* A flow that has not begun is sound.
LEMMA NewFlowSound == NewFlow \in Flow /\ Sound(NewFlow)
BY ConstantsAssumption DEF NewFlow, Flow, Form, Sound

\* A flow that is gone keeps what is on record, and owns up to a session it
\* left open only when the user closed the dialog.
LEMMA GoneSound ==
  ASSUME NEW r \in Flow, Sound(r), NEW reason \in {"ended", "removed"},
         reason = "ended" => ~r.client
  PROVE  /\ GoneWith(reason, r) \in Flow
         /\ Sound(GoneWith(reason, r))
         /\ GoneWith(reason, r).source = "setup"
BY ConstantsAssumption DEF GoneWith, NewFlow, Flow, Form, Sound

\* _cleanup_client, before anything is shown.
LEMMA AbortSound ==
  ASSUME NEW r \in Flow, Sound(r)
  PROVE  /\ Abort(r) \in Flow
         /\ Sound(Abort(r))
         /\ Abort(r).source = "setup"
BY ConstantsAssumption DEF Abort, Ended, Closed, GoneWith, NewFlow, Flow, Form, Sound

\* A login begins with a new client; the one it replaces was left by a step
\* that raised.
LEMMA LoginSound ==
  ASSUME NEW r \in Flow, Sound(r), r.await = "none",
         r.form \in {"user", "confirm", "password"}, NEW p \in Passwords
  PROVE  LET s == Await("login", NewClient([r EXCEPT !.password = p])) IN
         s \in Flow /\ Sound(s) /\ s.source = r.source
BY ConstantsAssumption DEF Await, NewClient, Flow, Form, Sound

\* The form stays at what raised.
LEMMA EscapeSound ==
  ASSUME NEW r \in Flow, Sound(r), r.await # "none"
  PROVE  Escape(r) \in Flow /\ Sound(Escape(r)) /\ Escape(r).source = r.source
BY ConstantsAssumption DEF Escape, Flow, Form, Sound

\* A login that ends without a client shows one of the first forms again.
LEMMA AskedFirstSound ==
  ASSUME NEW r \in Flow, Sound(r), NEW form \in {"user", "password"}
  PROVE  LET s == Show(form, Closed(r)) IN
         s \in Flow /\ Sound(s) /\ s.source = r.source
BY ConstantsAssumption DEF Show, Closed, Flow, Form, Sound

\* A refused code or approval, whatever finishAuth has changed by then.
LEMMA RefusedSound ==
  ASSUME NEW r \in Flow, Sound(r), r.await = "finish"
  PROVE  /\ Refused(r) \in Flow
         /\ Sound(Refused(r))
         /\ Refused(r).source \in {"setup", r.source}
<1>1. CASE r.form = "push"
  BY <1>1, AbortSound DEF Refused
<1>2. CASE r.form # "push"
  BY <1>2, ConstantsAssumption DEF Refused, AskedAgain, Show, Flow, Form, Sound
<1>3. QED
  BY <1>1, <1>2

----------------------------------------------------------------------------
(* The invariant.                                                          *)

\* One flow changes and the entry is not lost.
LEMMA OneFlow ==
  ASSUME IInv, NEW f \in Flows, NEW r \in Flow, Sound(r),
         flow' = [flow EXCEPT ![f] = r],
         entry' \in Credentials \union {None},
         entry # None => entry' # None,
         r.source = "update" => entry' # None,
         arlo' \in Passwords, mfa' \in BOOLEAN
  PROVE  IInv'
<1>1. TypeOK'
  BY DEF IInv, TypeOK, Credentials
<1>2. \A g \in Flows : flow'[g] = IF g = f THEN r ELSE flow[g]
  BY DEF IInv, TypeOK
<1>3. QED
  BY <1>1, <1>2 DEF IInv

\* A login is complete.
LEMMA CompleteSound ==
  ASSUME IInv, NEW f \in Flows, NEW r \in Flow, Sound(r),
         r.source = flow[f].source, r.password \in Passwords,
         r.proven = r.password, Complete(f, r), UNCHANGED <<arlo, mfa>>
  PROVE  IInv'
<1>0. /\ entry \in Credentials \union {None}
      /\ arlo \in Passwords /\ mfa \in BOOLEAN
      /\ flow[f].source = "update" => entry # None
  BY DEF IInv, TypeOK, Credentials
<1>1. CASE Creates(f)
  <2> DEFINE s == Show("media", Closed(r))
  <2>1. s \in Flow /\ Sound(s) /\ s.source = "setup"
    BY <1>1, ConstantsAssumption DEF Creates, Show, Closed, Flow, Form, Sound
  <2>2. flow' = [flow EXCEPT ![f] = s] /\ entry' = entry
    BY <1>1 DEF Complete
  <2> HIDE DEF s
  <2>3. QED
    BY <1>0, <2>1, <2>2, OneFlow
<1>2. CASE ~Creates(f)
  <2> DEFINE s == Ended(Closed(r))
  <2>1. s \in Flow /\ Sound(s) /\ s.source = "setup"
    BY AbortSound DEF Abort
  <2>2. flow' = [flow EXCEPT ![f] = s]
    BY <1>2 DEF Complete
  <2>3. entry \in Credentials
    BY <1>0, <1>2, r \in Flow DEF Creates, Flow
  <2>4. entry' \in Credentials /\ entry' # None
    <3>1. entry' = [password |-> r.password, cookie |-> entry.cookie \/ r.jar]
      BY <1>2 DEF Complete, CookieToStore
    <3>2. entry.cookie \in BOOLEAN /\ r.jar \in BOOLEAN
      BY <2>3 DEF Credentials, Flow
    <3>3. QED
      BY <3>1, <3>2, ConstantsAssumption DEF Credentials
  <2> HIDE DEF s
  <2>5. QED
    BY <1>0, <2>1, <2>2, <2>4, OneFlow
<1>3. QED
  BY <1>1, <1>2

LEMMA InitInv == Init => IInv
BY NewFlowSound DEF Init, IInv, TypeOK, NewFlow, Sound

\* The actions of Home Assistant, the account and the phone.
LEMMA OutsideKeepsInv ==
  ASSUME IInv, NEW f \in Flows
  PROVE  /\ BeginSetup(f) => IInv'
         /\ BeginUpdate(f) => IInv'
         /\ Remove(f) => IInv'
         /\ Approve(f) => IInv'
<1>0. /\ flow[f] \in Flow /\ Sound(flow[f])
      /\ entry \in Credentials \union {None}
      /\ arlo \in Passwords /\ mfa \in BOOLEAN
      /\ flow[f].source = "update" => entry # None
  BY DEF IInv, TypeOK
<1>1. ASSUME BeginSetup(f) PROVE IInv'
  <2> DEFINE s == Show("user", NewFlow)
  <2>1. s \in Flow /\ Sound(s) /\ s.source = "setup"
    BY ConstantsAssumption DEF Show, NewFlow, Flow, Form, Sound
  <2>2. flow' = [flow EXCEPT ![f] = s] /\ UNCHANGED <<entry, arlo, mfa>>
    BY <1>1 DEF BeginSetup
  <2> HIDE DEF s
  <2>3. QED
    BY <1>0, <2>1, <2>2, OneFlow
<1>2. ASSUME BeginUpdate(f) PROVE IInv'
  <2> DEFINE s == [Show("confirm", NewFlow) EXCEPT !.source = "update",
                                                   !.password = entry.password]
  <2>1. entry # None /\ entry.password \in Passwords
    BY <1>0, <1>2 DEF BeginUpdate, Credentials
  <2>2. s \in Flow /\ Sound(s)
    BY <2>1, ConstantsAssumption DEF Show, NewFlow, Flow, Form, Sound
  <2>3. flow' = [flow EXCEPT ![f] = s] /\ UNCHANGED <<entry, arlo, mfa>>
    BY <1>2 DEF BeginUpdate
  <2> HIDE DEF s
  <2>4. QED
    BY <1>0, <2>1, <2>2, <2>3, OneFlow
<1>3. ASSUME Remove(f) PROVE IInv'
  <2> DEFINE s == GoneWith("removed", flow[f])
  <2>1. s \in Flow /\ Sound(s) /\ s.source = "setup"
    BY <1>0, GoneSound
  <2>2. flow' = [flow EXCEPT ![f] = s] /\ UNCHANGED <<entry, arlo, mfa>>
    BY <1>3 DEF Remove
  <2> HIDE DEF s
  <2>3. QED
    BY <1>0, <2>1, <2>2, OneFlow
<1>4. ASSUME Approve(f) PROVE IInv'
  <2> DEFINE s == [flow[f] EXCEPT !.code = "approved"]
  <2>1. s \in Flow /\ Sound(s) /\ s.source = flow[f].source
    BY <1>0 DEF Flow, Form, Sound
  <2>2. flow' = [flow EXCEPT ![f] = s] /\ UNCHANGED <<entry, arlo, mfa>>
    BY <1>4, <1>0 DEF Approve, IInv, TypeOK
  <2> HIDE DEF s
  <2>3. QED
    BY <1>0, <2>1, <2>2, OneFlow
<1>5. QED
  BY <1>1, <1>2, <1>3, <1>4

\* What a user submits.
LEMMA SubmitKeepsInv ==
  ASSUME IInv, NEW f \in Flows, Submit(f)
  PROVE  IInv'
<1>0. /\ flow[f] \in Flow /\ Sound(flow[f])
      /\ entry \in Credentials \union {None}
      /\ arlo \in Passwords /\ mfa \in BOOLEAN
      /\ flow[f].source = "update" => entry # None
  BY DEF IInv, TypeOK
<1>1. ASSUME NEW p \in Passwords, SubmitPassword(f, p) PROVE IInv'
  <2> DEFINE s == Await("login", NewClient([flow[f] EXCEPT !.password = p]))
  <2>1. s \in Flow /\ Sound(s) /\ s.source = flow[f].source
    BY <1>0, <1>1, LoginSound DEF SubmitPassword, MaySubmit
  <2>2. flow' = [flow EXCEPT ![f] = s] /\ UNCHANGED <<entry, arlo, mfa>>
    BY <1>1 DEF SubmitPassword, MaySubmit
  <2> HIDE DEF s
  <2>3. QED
    BY <1>0, <2>1, <2>2, OneFlow
<1>2. ASSUME Confirm(f) PROVE IInv'
  <2> DEFINE s == Await("login", NewClient(flow[f]))
  <2>1. flow[f].password \in Passwords /\ flow[f].form = "confirm" /\ flow[f].await = "none"
    BY <1>0, <1>2 DEF Confirm, MaySubmit, Sound
  <2>2. s \in Flow /\ Sound(s) /\ s.source = flow[f].source
    BY <1>0, <2>1, ConstantsAssumption DEF Await, NewClient, Flow, Form, Sound
  <2>3. flow' = [flow EXCEPT ![f] = s] /\ UNCHANGED <<entry, arlo, mfa>>
    BY <1>2 DEF Confirm, MaySubmit
  <2> HIDE DEF s
  <2>4. QED
    BY <1>0, <2>2, <2>3, OneFlow
<1>3. ASSUME NEW factor \in {"push", "otp"}, PickFactor(f, factor) PROVE IInv'
  <2> DEFINE s == Await("fire", [flow[f] EXCEPT !.factor = factor])
  <2>1. s \in Flow /\ Sound(s) /\ s.source = flow[f].source
    <3>1. flow[f].form = "pick" /\ flow[f].await = "none"
      BY <1>3 DEF PickFactor, MaySubmit
    <3>2. QED
      BY <1>0, <3>1 DEF Await, Flow, Form, Sound
  <2>2. flow' = [flow EXCEPT ![f] = s] /\ UNCHANGED <<entry, arlo, mfa>>
    BY <1>3, <1>0 DEF PickFactor, MaySubmit, IInv, TypeOK
  <2> HIDE DEF s
  <2>3. QED
    BY <1>0, <2>1, <2>2, OneFlow
<1>4. ASSUME SubmitPush(f) PROVE IInv'
  <2> DEFINE s == Await("finish", flow[f])
  <2>1. s \in Flow /\ Sound(s) /\ s.source = flow[f].source
    BY <1>0, <1>4 DEF SubmitPush, MaySubmit, Await, Flow, Form, Sound
  <2>2. flow' = [flow EXCEPT ![f] = s] /\ UNCHANGED <<entry, arlo, mfa>>
    BY <1>4 DEF SubmitPush, MaySubmit
  <2> HIDE DEF s
  <2>3. QED
    BY <1>0, <2>1, <2>2, OneFlow
<1>5. ASSUME NEW right \in BOOLEAN, SubmitOtp(f, right) PROVE IInv'
  <2> DEFINE s == Await("finish", [flow[f] EXCEPT !.code = Typed(flow[f], right)])
  <2>1. s \in Flow /\ Sound(s) /\ s.source = flow[f].source
    <3>1. /\ flow[f].form = "otp"
          /\ Typed(flow[f], right) \in {"spent", "approved", "pending"}
      BY <1>5 DEF SubmitOtp, MaySubmit, Typed
    <3>2. QED
      BY <1>0, <3>1 DEF Await, Flow, Form, Sound
  <2>2. flow' = [flow EXCEPT ![f] = s] /\ UNCHANGED <<entry, arlo, mfa>>
    BY <1>5, <1>0 DEF SubmitOtp, MaySubmit
  <2> HIDE DEF s
  <2>3. QED
    BY <1>0, <2>1, <2>2, OneFlow
<1>6. ASSUME SubmitMedia(f) PROVE IInv'
  <2> DEFINE s == Ended(flow[f])
  <2>1. flow[f].form = "media" /\ ~flow[f].client /\ flow[f].password \in Passwords
    BY <1>0, <1>6 DEF SubmitMedia, Sound
  <2>2. s \in Flow /\ Sound(s) /\ s.source = "setup"
    BY <1>0, <2>1, GoneSound DEF Ended
  <2>3. flow' = [flow EXCEPT ![f] = s] /\ UNCHANGED <<arlo, mfa>>
    BY <1>6 DEF SubmitMedia
  <2>4. entry' \in Credentials \union {None} /\ (entry # None => entry' # None)
    BY <1>0, <1>6, <2>1 DEF SubmitMedia, Credentials, Flow
  <2> HIDE DEF s
  <2>5. QED
    BY <1>0, <2>2, <2>3, <2>4, OneFlow
<1>7. QED
  BY <1>1, <1>2, <1>3, <1>4, <1>5, <1>6 DEF Submit

----------------------------------------------------------------------------
(* What Arlo's answers make of it.                                         *)

\* An answer that only moves the flow on.
LEMMA GoOnKeepsInv ==
  ASSUME IInv, NEW f \in Flows, NEW r \in Flow, Sound(r),
         r.source \in {"setup", flow[f].source}, GoOn(f, r), UNCHANGED <<arlo, mfa>>
  PROVE  IInv'
<1>1. /\ entry \in Credentials \union {None}
      /\ arlo \in Passwords /\ mfa \in BOOLEAN
      /\ flow[f].source = "update" => entry # None
  BY DEF IInv, TypeOK
<1>2. flow' = [flow EXCEPT ![f] = r] /\ UNCHANGED <<entry, arlo, mfa>>
  BY DEF GoOn
<1>3. QED
  BY <1>1, <1>2, OneFlow

\* A completed login: the password it was completed with is the flow's.
LEMMA ProvenSound ==
  ASSUME NEW r \in Flow, Sound(r), r.await # "none"
  PROVE  LET s == Proven(r) IN
         /\ s \in Flow /\ Sound(s) /\ s.source = r.source
         /\ s.password \in Passwords /\ s.proven = s.password
BY DEF Proven, Flow, Form, Sound

\* The answers to a login.
LEMMA LoginKeepsInv ==
  ASSUME IInv, NEW f \in Flows
  PROVE  /\ LoginRateLimited(f) => IInv'
         /\ LoginRejected(f) => IInv'
         /\ LoginFails(f) => IInv'
         /\ LoginCompletes(f) => IInv'
         /\ LoginWantsFactor(f) => IInv'
<1>0. flow[f] \in Flow /\ Sound(flow[f])
  BY DEF IInv, TypeOK
<1>1. ASSUME LoginRateLimited(f) PROVE IInv'
  <2>1. CASE Creates(f)
    BY <1>0, <1>1, <2>1, AskedFirstSound, GoOnKeepsInv DEF LoginRateLimited, Answered
  <2>2. CASE ~Creates(f)
    BY <1>0, <1>1, <2>2, AbortSound, GoOnKeepsInv DEF LoginRateLimited, Answered
  <2>3. QED
    BY <2>1, <2>2
<1>2. ASSUME LoginRejected(f) PROVE IInv'
  <2>1. CASE Creates(f)
    BY <1>0, <1>2, <2>1, AskedFirstSound, GoOnKeepsInv DEF LoginRejected, Answered
  <2>2. CASE ~Creates(f)
    BY <1>0, <1>2, <2>2, AskedFirstSound, GoOnKeepsInv DEF LoginRejected, Answered
  <2>3. QED
    BY <2>1, <2>2
<1>3. ASSUME LoginFails(f) PROVE IInv'
  <2>1. CASE Creates(f)
    BY <1>0, <1>3, <2>1, AskedFirstSound, GoOnKeepsInv DEF LoginFails, Answered
  <2>2. CASE ~Creates(f)
    <3>1. flow[f].await # "none" /\ GoOn(f, Escape(flow[f])) /\ UNCHANGED <<arlo, mfa>>
      BY <1>3, <2>2 DEF LoginFails, Answered
    <3>2. QED
      BY <1>0, <3>1, EscapeSound, GoOnKeepsInv
  <2>3. QED
    BY <2>1, <2>2
<1>4. ASSUME LoginCompletes(f) PROVE IInv'
  <2>1. /\ flow[f].await # "none" /\ Complete(f, Proven(flow[f]))
        /\ UNCHANGED <<arlo, mfa>>
    BY <1>4 DEF LoginCompletes, Answered
  <2>2. QED
    BY <1>0, <2>1, ProvenSound, CompleteSound
<1>5. ASSUME LoginWantsFactor(f) PROVE IInv'
  <2>1. flow[f].await = "login" /\ UNCHANGED <<arlo, mfa>>
    BY <1>5 DEF LoginWantsFactor, Answered
  <2>2. CASE GoOn(f, Show("pick", flow[f]))
    <3> DEFINE s == Show("pick", flow[f])
    <3>1. s \in Flow /\ Sound(s) /\ s.source = flow[f].source
      BY <1>0, <2>1 DEF Show, Flow, Form, Sound
    <3> HIDE DEF s
    <3>2. QED
      BY <2>1, <2>2, <3>1, GoOnKeepsInv DEF s
  <2>3. ASSUME NEW factor \in {"push", "otp"},
               GoOn(f, Await("fire", [flow[f] EXCEPT !.factor = factor]))
        PROVE  IInv'
    <3> DEFINE s == Await("fire", [flow[f] EXCEPT !.factor = factor])
    <3>1. s \in Flow /\ Sound(s) /\ s.source = flow[f].source
      BY <1>0, <2>1 DEF Await, Flow, Form, Sound
    <3>2. GoOn(f, s)
      BY <2>3
    <3> HIDE DEF s
    <3>3. QED
      BY <2>1, <3>1, <3>2, GoOnKeepsInv
  <2>4. QED
    BY <1>5, <2>2, <2>3 DEF LoginWantsFactor
<1>6. QED
  BY <1>1, <1>2, <1>3, <1>4, <1>5

\* The answers to a factor that is fired.
LEMMA FireKeepsInv ==
  ASSUME IInv, NEW f \in Flows
  PROVE  /\ FireRefused(f) => IInv'
         /\ FireFails(f) => IInv'
         /\ Fired(f) => IInv'
<1>0. flow[f] \in Flow /\ Sound(flow[f])
  BY DEF IInv, TypeOK
<1>1. ASSUME FireRefused(f) PROVE IInv'
  BY <1>0, <1>1, AbortSound, GoOnKeepsInv DEF FireRefused, Answered
<1>2. ASSUME FireFails(f) PROVE IInv'
  BY <1>0, <1>2, EscapeSound, GoOnKeepsInv DEF FireFails, Answered
<1>3. ASSUME Fired(f) PROVE IInv'
  <2> DEFINE s == [Show(flow[f].factor, flow[f]) EXCEPT !.code = "pending"]
  <2>1. flow[f].await = "fire" /\ GoOn(f, s) /\ UNCHANGED <<arlo, mfa>>
    BY <1>3 DEF Fired, Answered
  <2>2. s \in Flow /\ Sound(s) /\ s.source = flow[f].source
    BY <1>0, <2>1 DEF Show, Flow, Form, Sound
  <2> HIDE DEF s
  <2>3. QED
    BY <2>1, <2>2, GoOnKeepsInv
<1>4. QED
  BY <1>1, <1>2, <1>3

\* The answers to finishAuth.
LEMMA FinishKeepsInv ==
  ASSUME IInv, NEW f \in Flows
  PROVE  /\ FinishRateLimited(f) => IInv'
         /\ FinishRejected(f) => IInv'
         /\ FinishFails(f) => IInv'
         /\ FinishPending(f) => IInv'
         /\ \A minted \in BOOLEAN : FinishAccepted(f, minted) => IInv'
<1>0. flow[f] \in Flow /\ Sound(flow[f])
  BY DEF IInv, TypeOK
<1>1. ASSUME FinishRateLimited(f) PROVE IInv'
  BY <1>0, <1>1, AbortSound, GoOnKeepsInv DEF FinishRateLimited, Answered
<1>2. ASSUME FinishRejected(f) PROVE IInv'
  BY <1>0, <1>2, RefusedSound, GoOnKeepsInv DEF FinishRejected, Answered
<1>3. ASSUME FinishFails(f) PROVE IInv'
  BY <1>0, <1>3, EscapeSound, GoOnKeepsInv DEF FinishFails, Answered
<1>4. ASSUME FinishPending(f) PROVE IInv'
  <2> DEFINE s == Show(flow[f].form, flow[f])
  <2>1. flow[f].await = "finish" /\ GoOn(f, s) /\ UNCHANGED <<arlo, mfa>>
    BY <1>4 DEF FinishPending, Answered
  <2>2. s \in Flow /\ Sound(s) /\ s.source = flow[f].source
    BY <1>0, <2>1 DEF Show, Flow, Form, Sound
  <2> HIDE DEF s
  <2>3. QED
    BY <2>1, <2>2, GoOnKeepsInv
<1>5. ASSUME NEW minted \in BOOLEAN, FinishAccepted(f, minted) PROVE IInv'
  <2> DEFINE accepted == [flow[f] EXCEPT !.code = "spent", !.jar = @ \/ minted]
  <2>1. /\ accepted \in Flow /\ Sound(accepted)
        /\ accepted.source = flow[f].source /\ accepted.await = "finish"
    BY <1>0, <1>5 DEF FinishAccepted, Answered, Flow, Form, Sound
  <2>2. \/ Complete(f, Proven(accepted))
        \/ GoOn(f, Refused(accepted))
        \/ GoOn(f, Escape(accepted))
    BY <1>5 DEF FinishAccepted, Approved
  <2>3. UNCHANGED <<arlo, mfa>>
    BY <1>5 DEF FinishAccepted, Answered
  <2> HIDE DEF accepted
  <2>4. CASE Complete(f, Proven(accepted))
    BY <2>1, <2>3, <2>4, ProvenSound, CompleteSound
  <2>5. CASE GoOn(f, Refused(accepted))
    BY <2>1, <2>3, <2>5, RefusedSound, GoOnKeepsInv
  <2>6. CASE GoOn(f, Escape(accepted))
    BY <2>1, <2>3, <2>6, EscapeSound, GoOnKeepsInv
  <2>7. QED
    BY <2>2, <2>4, <2>5, <2>6
<1>6. QED
  BY <1>1, <1>2, <1>3, <1>4, <1>5

LEMMA NextKeepsInv == IInv /\ [Next]_vars => IInv'
<1> SUFFICES ASSUME IInv, [Next]_vars PROVE IInv'
  OBVIOUS
<1>1. ASSUME NEW f \in Flows, Answer(f) PROVE IInv'
  BY <1>1, LoginKeepsInv, FireKeepsInv, FinishKeepsInv DEF Answer
<1>2. ASSUME NEW f \in Flows,
             BeginSetup(f) \/ BeginUpdate(f) \/ Remove(f) \/ Approve(f)
      PROVE  IInv'
  BY <1>2, OutsideKeepsInv
<1>3. CASE ChangePassword
  BY <1>3 DEF ChangePassword, IInv, TypeOK
<1>4. CASE SwitchMfa
  BY <1>4 DEF SwitchMfa, IInv, TypeOK
<1>5. CASE UNCHANGED vars
  BY <1>5 DEF vars, IInv, TypeOK
<1>6. QED
  BY <1>1, <1>2, <1>3, <1>4, <1>5, SubmitKeepsInv DEF Next

THEOREM Inductive == Spec => []IInv
BY InitInv, NextKeepsInv, PTL DEF Spec

----------------------------------------------------------------------------
(* What follows from it.                                                   *)

\* The flows, the entry and the account keep their types: a dialog never shows
\* a form that does not exist, and an entry is never stored without a password.
THEOREM TypeCorrect == Spec => []TypeOK
<1>1. IInv => TypeOK
  BY DEF IInv
<1>2. QED
  BY <1>1, Inductive, PTL

\* A form about a second factor, and every request, has an open client
\* (_fire_mfa's assertions, async_step_finish and the otp and push steps).
THEOREM StepsHaveClients == Spec => []StepsHaveTheirClient
<1>1. IInv => StepsHaveTheirClient
  BY DEF IInv, Sound, StepsHaveTheirClient
<1>2. QED
  BY <1>1, Inductive, PTL

\* Every path through _cleanup_client: only closing the dialog, or a submit
\* after a step that raised, leaves a client's session open.
THEOREM OnlyTheseSessionsLeak == Spec => []SessionsAreClosed
<1>1. IInv => SessionsAreClosed
  BY DEF IInv, Sound, SessionsAreClosed
<1>2. QED
  BY <1>1, Inductive, PTL

----------------------------------------------------------------------------
(* What is stored.                                                         *)

\* A login of an open flow is complete, with the password of the flow.
LoginDone(f, r) ==
  /\ r \in Flow
  /\ r.password \in Passwords /\ r.proven = r.password
  /\ flow[f].form # "none"
  /\ Complete(f, r)

\* The entry changes where a setup ends or a login is complete.
LEMMA WhatStores ==
  ASSUME IInv, Next, entry' # entry
  PROVE  \E f \in Flows : SubmitMedia(f) \/ \E r \in Flow : LoginDone(f, r)
<1>1. PICK f \in Flows : Submit(f) \/ Answer(f)
  BY DEF Next, BeginSetup, BeginUpdate, Remove, Approve, ChangePassword, SwitchMfa
<1>0. flow[f] \in Flow /\ Sound(flow[f])
  BY DEF IInv, TypeOK
<1>2. CASE Submit(f)
  BY <1>2 DEF Submit, SubmitPassword, Confirm, PickFactor, SubmitPush, SubmitOtp, MaySubmit
<1>3. CASE Answer(f)
  <2>1. \/ LoginCompletes(f)
        \/ \E minted \in BOOLEAN : FinishAccepted(f, minted)
    BY <1>3 DEF Answer, GoOn, LoginRateLimited, LoginRejected, LoginFails,
                LoginWantsFactor, FireRefused, FireFails, Fired,
                FinishRateLimited, FinishRejected, FinishFails, FinishPending
  <2>2. CASE LoginCompletes(f)
    <3>1. /\ flow[f].await # "none"
          /\ Complete(f, Proven(flow[f]))
      BY <2>2 DEF LoginCompletes, Answered
    <3>2. QED
      BY <1>0, <3>1, ProvenSound DEF LoginDone, Sound
  <2>3. ASSUME NEW minted \in BOOLEAN, FinishAccepted(f, minted)
        PROVE  \E r \in Flow : LoginDone(f, r)
    <3> DEFINE accepted == [flow[f] EXCEPT !.code = "spent", !.jar = @ \/ minted]
    <3>1. /\ accepted \in Flow /\ Sound(accepted)
          /\ accepted.await # "none" /\ flow[f].form # "none"
      BY <1>0, <2>3 DEF FinishAccepted, Answered, Flow, Form, Sound
    <3>2. Complete(f, Proven(accepted))
      BY <2>3 DEF FinishAccepted, Approved, GoOn
    <3> HIDE DEF accepted
    <3>3. QED
      BY <3>1, <3>2, ProvenSound DEF LoginDone
  <2>4. QED
    BY <2>1, <2>2, <2>3
<1>4. QED
  BY <1>1, <1>2, <1>3

\* _finalize_reauth and async_step_media_storage: what reaches the entry is the
\* password a login of that very dialog was completed with, whatever happens to
\* the account or to other dialogs between the login and the last form.
THEOREM OnlyProvenIsStored == Spec => StoredWasProven
<1>1. ASSUME IInv, [Next]_vars, entry' # entry
      PROVE  \E f \in Flows : /\ flow[f].form # "none" /\ flow'[f].form = "none"
                              /\ flow'[f].proven = entry'.password
  <2>1. Next
    BY <1>1 DEF vars
  <2>2. PICK f \in Flows : SubmitMedia(f) \/ \E r \in Flow : LoginDone(f, r)
    BY <1>1, <2>1, WhatStores
  <2>0. flow \in [Flows -> Flow] /\ Sound(flow[f])
    BY <1>1 DEF IInv, TypeOK
  <2>3. CASE SubmitMedia(f)
    <3>1. flow[f].form = "media" /\ flow[f].proven = flow[f].password
      BY <2>0, <2>3 DEF SubmitMedia, Sound
    <3>2. flow'[f] = Ended(flow[f]) /\ entry'.password = flow[f].password
      BY <1>1, <2>0, <2>3 DEF SubmitMedia
    <3>3. QED
      BY <3>1, <3>2 DEF Ended, GoneWith, NewFlow
  <2>4. ASSUME NEW r \in Flow, LoginDone(f, r)
        PROVE  /\ flow[f].form # "none" /\ flow'[f].form = "none"
               /\ flow'[f].proven = entry'.password
    <3>1. ~Creates(f)
      BY <1>1, <2>4 DEF LoginDone, Complete
    <3>2. /\ flow'[f] = Ended(Closed(r))
          /\ entry'.password = r.password
      BY <2>0, <2>4, <3>1 DEF LoginDone, Complete
    <3>3. Ended(Closed(r)).form = "none" /\ Ended(Closed(r)).proven = r.proven
      BY <2>4 DEF Ended, Closed, GoneWith, NewFlow, Flow
    <3>4. QED
      BY <2>4, <3>2, <3>3 DEF LoginDone
  <2>5. QED
    BY <2>2, <2>3, <2>4
<1>2. QED
  BY <1>1, Inductive, PTL DEF Spec, StoredWasProven

\* "Only overwrite the stored cookie when this login actually minted one."
THEOREM StoredCookieIsKept == Spec => CookieKept
<1>1. ASSUME IInv, [Next]_vars
      PROVE  [entry # None => entry' # None /\ (entry.cookie => entry'.cookie)]_vars
  <2> SUFFICES ASSUME entry # None, entry' # entry
               PROVE  entry' # None /\ (entry.cookie => entry'.cookie)
    OBVIOUS
  <2>1. Next
    BY <1>1 DEF vars
  <2>2. PICK f \in Flows : SubmitMedia(f) \/ \E r \in Flow : LoginDone(f, r)
    BY <1>1, <2>1, WhatStores
  <2>3. PICK r \in Flow : LoginDone(f, r)
    BY <2>2 DEF SubmitMedia
  <2>4. entry' = [password |-> r.password, cookie |-> CookieToStore(r)]
    BY <2>3 DEF LoginDone, Complete
  <2>5. entry \in Credentials /\ r.jar \in BOOLEAN
    BY <1>1, <2>3 DEF IInv, TypeOK, Flow
  <2>6. entry'.cookie = (entry.cookie \/ r.jar)
    BY <2>4 DEF CookieToStore
  <2>7. entry' # None
    <3>1. (entry.cookie \/ r.jar) \in BOOLEAN
      BY <2>5 DEF Credentials
    <3>2. entry' \in Credentials
      BY <2>3, <2>4, <3>1 DEF LoginDone, CookieToStore, Credentials
    <3>3. QED
      BY <3>2, ConstantsAssumption
  <2>8. QED
    BY <2>6, <2>7
<1>2. QED
  BY <1>1, Inductive, PTL DEF Spec, CookieKept
=============================================================================
