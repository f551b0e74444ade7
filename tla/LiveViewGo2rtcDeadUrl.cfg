\* A house where only go2rtc watches.
CONSTANTS
  Viewers = {v1, v2}
  Kinds = {"go2rtc"}
  Sessions = {n1, n2, n3, n4}
  Streams = {s1, s2}
  None = none
SPECIFICATION Spec
PROPERTY
  NoDeadUrlHandedOut
