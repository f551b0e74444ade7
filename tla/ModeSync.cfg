\* Two commands and another client on two locations; the gateway of the second
\* is claimed by neither.
CONSTANTS
  Setters = {c1, c2}
  l1 = l1
  l2 = l2
  Locations = {l1, l2}
  Relevant = {l1, l2}
  First = l1
  Strays = {l2}
  Standard = {away}
  Custom = {night}
  Key = key
  None = none
  OtherClients = {l1, l2}
  StartModes <- MCStartModes
  StartRevisions = {2}
  MayFail = {l1}
  Commanded = {l1}
  Last = 3
  LastRevisions <- MCLastRevisions
  MaxPending = 1
SPECIFICATION FairSpec
INVARIANTS
  RevisionNeverAhead
  
PROPERTIES
  RefusedOnlyWhenOvertaken
  CommandsEnd
