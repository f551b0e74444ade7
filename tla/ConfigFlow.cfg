\* Two dialogs and two passwords: a reauth beside a reconfiguration or a second
\* setup, and a password changed at Arlo between any two steps.
CONSTANTS
  None = None
  d1 = d1
  d2 = d2
  p1 = p1
  p2 = p2
  Flows <- MCFlows
  Passwords <- MCPasswords
SPECIFICATION Spec
SYMMETRY Symmetric
INVARIANTS
  StepsHaveTheirClient
  SessionsAreClosed
PROPERTIES
  StoredWasProven
  CookieKept
