\* Sessions of up to four packets, cut into frames everywhere.
CONSTANTS
  Base = 3
  MaxDigits = 2
  EventBodies <- MCEventBodies
  MaxPackets = 4
SPECIFICATION FairFraming
INVARIANTS
  FramingTypeOK
  FramingHolds
  NothingHeldBack
PROPERTIES
  DeliversInOrder
  EventsArrive
