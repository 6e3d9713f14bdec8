SPECIFICATION FairSpec
CONSTANTS
  zelda = zelda
  mario = mario
  r1 = r1
  r2 = r2
  q1 = q1
  c1 = c1
  None = None
  Systems = {1, 2}
  Games <- MCGames
  Requests = {r1, r2}
  Searches = {q1}
  Clients = {c1}
  Faults = {"open", "walk", "write", "kill"}
  MaxRequests = 2
  MaxChanges = 1
INVARIANTS
  TypeOK
  FoundIfIndexed
  StatusShown
PROPERTIES
  BuildsAtOnce
  SearchEnds
