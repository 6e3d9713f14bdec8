SPECIFICATION MCSpec
CONSTANTS
  r1 = r1
  r2 = r2
  Requests = {r1, r2}
  Paths <- MCPaths
  SystemNames <- MCNames
  SetCore <- MCSetCore
  MaxLaunches = 3
  Root = Root
  Sync = Sync
  user = user
  pong = pong
  zelda = zelda
  mario = mario
  sub = sub
  Dirs = {Root, sub}
  Names = {pong, zelda, mario}
  Users = {user}
  Games = {pong, zelda, mario}
  Arcade = {pong}
  DirOf <- MCDirOf
  Lists <- MCLists
  MaxActs = 1
  MaxFaults = 1
  MaxRuns = 2
  None = None
  g1 = g1
  g2 = g2
  g3 = g3
  g4 = g4
  RecentGames = {g1, g2, g3, g4}
  MaxEntries = 3
  MaxPlays = 6
  MaxCrashes = 2
  Parts = {"any", "pair", "sync", "recent"}
INVARIANTS
  MCTypeOK
  LastLaunchRuns
  GamesAreTaken
  RunsInItsSystem
  ArcadeCanStart
  EachGameIsShown
  WellNumbered
PROPERTIES
  ListKept
SYMMETRY MCSymmetry
\* The bounds end every behaviour.
CHECK_DEADLOCK FALSE
