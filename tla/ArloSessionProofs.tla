------------------------- MODULE ArloSessionProofs -------------------------
(***************************************************************************)
(* Theorems about ArloSession, for any number of concurrent callers.       *)
(***************************************************************************)
EXTENDS ArloSession, TLAPS

\* Type correctness: needs no strengthening.
THEOREM TypeCorrect == Spec => []TypeOK
<1> USE ActorsAssumption DEF Actors, Token, InLogin
<1>1. Init => TypeOK
  <2> SUFFICES ASSUME Init PROVE TypeOK
    OBVIOUS
  <2>1. /\ sent \in [Actors -> Token]
        /\ pc \in [Actors ->
                   InLogin \union {"idle", "call", "maintain", "stopped"}]
    BY DEF Init
  <2>2. dead \in BOOLEAN /\ dialog \in BOOLEAN /\ declined \in BOOLEAN
    BY DEF Init
  <2> QED
    BY <2>1, <2>2 DEF Init, TypeOK
<1>2. TypeOK /\ [Next]_vars => TypeOK'
  <2> SUFFICES ASSUME TypeOK, [Next]_vars
               PROVE  TypeOK'
    OBVIOUS
  <2> USE DEF TypeOK
  <2>1. CASE Invalidate
    BY <2>1 DEF Invalidate
  <2>2. ASSUME NEW c \in Callers, Call(c) PROVE TypeOK'
    BY <2>2 DEF Call, CallStarts, CallEnds, CallUnanswered, CallRejected
  <2>3. ASSUME NEW a \in Actors, TokenIssued(a) PROVE TypeOK'
    BY <2>3 DEF TokenIssued
  <2>4. ASSUME NEW a \in Actors, BrowserNotTrusted(a) PROVE TypeOK'
    BY <2>4 DEF BrowserNotTrusted
  <2>5. ASSUME NEW a \in Actors, LoginSucceeds(a) PROVE TypeOK'
    <3>1. declined' \in BOOLEAN
      BY <2>5 DEF LoginSucceeds
    <3> QED
      BY <2>5, <3>1 DEF LoginSucceeds, DeadAfterLogin
  <2>6. ASSUME NEW a \in Actors, LoginRefused(a) PROVE TypeOK'
    <3>1. dead' \in BOOLEAN /\ dialog' \in BOOLEAN /\ declined' \in BOOLEAN
      BY <2>6 DEF LoginRefused, ReauthAfterRefusal
    <3>2. prompts' \in Nat /\ UNCHANGED <<token, sent, retried>>
      BY <2>6 DEF LoginRefused
    <3>3. pc' \in [Actors ->
                    InLogin \union {"idle", "call", "maintain", "stopped"}]
      BY <2>6 DEF LoginRefused
    <3> QED
      BY <3>1, <3>2, <3>3
  <2>7. ASSUME NEW a \in Actors, LoginUnanswered(a) PROVE TypeOK'
    BY <2>7 DEF LoginUnanswered
  <2>8. CASE TickStarts \/ TickEnds
    BY <2>8 DEF TickStarts, TickEnds
  <2>9. CASE UserReconfigures
    BY <2>9 DEF UserReconfigures
  <2>10. CASE DialogCloses
    <3>1. declined' \in BOOLEAN
      BY <2>10 DEF DialogCloses, Blocked
    <3> QED
      BY <2>10, <3>1 DEF DialogCloses
  <2>11. CASE UserReauthenticates
    BY <2>11 DEF UserReauthenticates
  <2>12. CASE UNCHANGED vars
    BY <2>12 DEF vars
  <2> QED
    BY <2>1, <2>2, <2>3, <2>4, <2>5, <2>6, <2>7, <2>8, <2>9, <2>10, <2>11,
       <2>12
       DEF Next, Login
<1>3. QED
  BY <1>1, <1>2, PTL DEF Spec

\* Blocks are told and told once.  The two are inductive together with the
\* types: a prompt is counted only in the step that sets _auth_is_dead, the step
\* that clears it clears the count, and it forgets a flow that was closed unless
\* the ticks still wait for the user.
Told == BlockIsTold /\ ToldOnce

LEMMA ToldPreserved ==
  ASSUME TypeOK, Told, [Next]_vars
  PROVE  Told'
<1> USE ActorsAssumption DEF Told, BlockIsTold, Blocked, ToldOnce, Actors, TypeOK
<1>1. CASE Invalidate
  BY <1>1 DEF Invalidate
<1>2. ASSUME NEW c \in Callers, Call(c) PROVE Told'
  <2>1. pc'[Tick] = pc[Tick] /\ UNCHANGED <<dead, prompts, dialog, declined>>
    BY <1>2 DEF Call, CallStarts, CallEnds, CallUnanswered, CallRejected
  <2> QED
    BY <2>1
<1>3. ASSUME NEW a \in Actors,
             TokenIssued(a) \/ BrowserNotTrusted(a) \/ LoginUnanswered(a)
      PROVE  Told'
  <2>1. /\ pc'[Tick] = "stopped" => pc[Tick] = "stopped"
        /\ UNCHANGED <<dead, prompts, dialog, declined>>
    BY <1>3 DEF TokenIssued, BrowserNotTrusted, LoginUnanswered, InLogin
  <2> QED
    BY <2>1
<1>4. ASSUME NEW a \in Actors, LoginSucceeds(a) PROVE Told'
  <2>1. /\ pc'[Tick] = "stopped" => pc[Tick] = "stopped"
        /\ ~dead' /\ prompts' = 0 /\ dialog' = dialog
        /\ declined' = (declined /\ pc[Tick] = "stopped")
    BY <1>4 DEF LoginSucceeds, DeadAfterLogin
  <2> QED
    BY <2>1
<1>5. ASSUME NEW a \in Actors, LoginRefused(a) PROVE Told'
  <2>1. CASE a = Tick
    BY <1>5, <2>1 DEF LoginRefused, ReauthAfterRefusal
  <2>2. CASE a # Tick
    <3>1. pc'[Tick] = pc[Tick]
      BY <1>5, <2>2 DEF LoginRefused
    <3> QED
      BY <1>5, <2>2, <3>1 DEF LoginRefused, AlreadyMarked, ReauthAfterRefusal
  <2> QED
    BY <2>1, <2>2
<1>6. CASE TickStarts \/ TickEnds
  BY <1>6 DEF TickStarts, TickEnds
<1>7. CASE UserReconfigures \/ UserReauthenticates
  BY <1>7 DEF UserReconfigures, UserReauthenticates
<1>8. CASE DialogCloses
  <2>1. /\ UNCHANGED <<pc, dead, prompts>>
        /\ declined' = Blocked
    BY <1>8 DEF DialogCloses
  <2> QED
    BY <2>1
<1>9. CASE UNCHANGED vars
  BY <1>9 DEF vars
<1> QED
  BY <1>1, <1>2, <1>3, <1>4, <1>5, <1>6, <1>7, <1>8, <1>9 DEF Next, Login

LEMMA ToldAlways == Spec => []Told
<1>1. Init => Told
  BY ActorsAssumption DEF Init, Told, BlockIsTold, Blocked, ToldOnce, Actors
<1>2. TypeOK /\ Told /\ [Next]_vars => Told'
  BY ToldPreserved
<1>3. QED
  BY <1>1, <1>2, TypeCorrect, PTL DEF Spec

\* However many calls are rejected together, in whatever order their logins end
\* and the user's flows with them: who is blocked, or has lost the ticks, has a
\* flow open, or closed the one this block had.
THEOREM BlockedUserIsTold == Spec => []BlockIsTold
<1>1. Told => BlockIsTold
  BY DEF Told
<1>2. QED
  BY <1>1, ToldAlways, PTL

\* ... and by the callers at most once since the last login that succeeded.
THEOREM UserToldOnce == Spec => []ToldOnce
<1>1. Told => ToldOnce
  BY DEF Told
<1>2. QED
  BY <1>1, ToldAlways, PTL
=============================================================================
