\* One property the hub publishes and the list carries, one only its answer
\* holds, and up to two frames on their way.
CONSTANTS
  Fields = {activity, battery}
  Pushed = {activity}
  Reported = {battery}
  Listed = {activity}
  None = none
  MaxFeed = 2
SPECIFICATION FairSpec
CHECK_DEADLOCK FALSE
INVARIANTS
  WrongOnlyIfExcused
PROPERTIES
  NothingForgotten
  CatchesUp
  StatusSettles
