\* The reconnect loop that stops at a half-built stream.
CONSTANTS
  Streams = {s1, s2, s3}
  Tasks = {t1, t2}
  Main = main
  None = none
  Attempts = 2
  MalformedPackets = FALSE
SPECIFICATION Spec
CHECK_DEADLOCK FALSE
INVARIANT
  DropIsRetried
