\* Two resources, so that an SSE connection may be open for one while the
\* other changes carrier, and three events.
CONSTANTS
  Resources = {bell, camera}
  MaxEvents = 3
  None = none
SPECIFICATION FairSpec
CHECK_DEADLOCK FALSE
INVARIANTS
  OnceAndInOrder
PROPERTIES
  EventuallyHandled
  FollowsTheVerdict
