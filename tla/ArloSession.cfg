\* Two commands and the health tick on one session.
CONSTANTS
  Callers = {c1, c2}
  Tick = tick
SPECIFICATION FairSpec
INVARIANTS
  BlockIsTold
  ToldOnce
PROPERTIES
  CallsEnd
  NotWedged
