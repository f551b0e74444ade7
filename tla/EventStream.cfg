\* One handle, the tick, two reconnect loops and an unload; the broker may send
\* malformed packets.
CONSTANTS
  Streams = {s1, s2, s3}
  Tasks = {t1, t2}
  Main = main
  None = none
  Attempts = 2
  MalformedPackets = TRUE
SPECIFICATION FairSpec
CHECK_DEADLOCK FALSE
INVARIANTS
  NoOrphanListener
  HalfBuiltIsOwned
  NoStackedReconnects
  SseFillsTheGap
  NoSseOnClosedSession
PROPERTIES
  StreamComesBack
  ShutdownQuiesces
