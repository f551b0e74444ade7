\* Two requests at a time, of either kind, on one camera.
CONSTANTS
  Viewers = {v1, v2}
  Kinds = {"go2rtc", "hls"}
  Sessions = {n1, n2, n3, n4}
  Streams = {s1, s2}
  None = none
SPECIFICATION FairSpec
INVARIANTS
  TypeOK
  NoSecondStart
PROPERTIES
  OnlyFinishedStreamsDropped
  ViewersServed
