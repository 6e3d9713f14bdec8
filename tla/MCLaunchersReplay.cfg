SPECIFICATION MCSpec
CONSTANTS
  r1 = r1
  r2 = r2
  Requests = {r1, r2}
  Paths <- MCPaths
  SystemNames <- MCNames
  SetCore <- MCSetCore
  MaxLaunches = 0
  Root = Root
  Sync = Sync
  user = user
  pong = pong
  zelda = zelda
  mario = mario
  sub = sub
  Dirs = {Root, sub}
  Names = {pong, zelda, mario}
  Users = {user}
  Games = {pong, zelda, mario}
  Arcade = {pong}
  DirOf <- MCDirOf
  Lists <- MCLists
  MaxActs = 0
  MaxFaults = 0
  MaxRuns = 2
  None = None
  g1 = g1
  g2 = g2
  g3 = g3
  g4 = g4
  RecentGames = {g1, g2}
  MaxEntries = 2
  MaxPlays = 3
  MaxCrashes = 0
  Parts = {"recent"}
INVARIANT
  PlayedIsFirst
\* The bounds end every behaviour.
CHECK_DEADLOCK FALSE
