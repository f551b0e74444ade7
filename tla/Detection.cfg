\* Two sensors; events with any of their categories, at most one of them
\* waiting behind the one in the handler, and four keys: one for each event
\* that the queue, the coordinator and the two sensors can refer to.
CONSTANTS
  None = None
  Person = Person
  Vehicle = Vehicle
  k1 = k1
  k2 = k2
  k3 = k3
  k4 = k4
  Categories <- MCCategories
  Keys <- MCKeys
  Timeout = 2
  MaxQueue = 1
SPECIFICATION FairSpec
INVARIANTS
  ActsOnce
  WholeWindow
PROPERTIES
  MissedOnlyIfCut
  DetectionEnds
  ActedOnInTheEnd
