\* The answer to a command arrives after the event of a later change.
CONSTANTS
  Setters = {c1}
  l1 = l1
  l2 = l2
  Locations = {l1}
  Relevant = {l1}
  First = l1
  Strays = {}
  Standard = {away, standby}
  Custom = {night}
  Key = key
  None = none
  OtherClients = {l1}
  StartModes <- MCStartModes
  StartRevisions = {1, 2}
  MayFail = {l1}
  Commanded = {l1}
  Last = 5
  LastRevisions <- MCLastRevisions
  MaxPending = 1
SPECIFICATION Spec
SYMMETRY Interchangeable
INVARIANT
  StaysInSync
