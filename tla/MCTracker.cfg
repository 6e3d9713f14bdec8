SPECIFICATION FairSpec
CONSTANTS
  nes = nes
  snes = snes
  pacman = pacman
  zelda = zelda
  mario = mario
  ini = ini
  mra = mra
  zeldaId = zeldaId
  marioId = marioId
  mraId = mraId
  zeldaPath = zeldaPath
  marioPath = marioPath
  mraPath = mraPath
  NES = NES
  SNES = SNES
  Menu = Menu
  Arcade = Arcade
  None = None
  Missing = Missing
  GameId <- MCGameId
  GamePath <- MCGamePath
  SystemOf <- MCSystemOf
  NameMap <- MCNameMap
  Cores = {nes, snes}
  Contents = {zelda, mario}
  IniFiles = {}
  Ids = {zeldaId, marioId}
  Paths = {zeldaPath, marioPath}
  Systems = {NES, SNES, Arcade}
  SaveSeconds = 2
  DbMayFail = FALSE
  MaxWrites = 3
  MaxBoots = 2
  MaxTime = 3
INVARIANTS
  TypeOK
  OpenCoreIsActive
  OpenGameIsActive
  CoreStatsSaved
  GameStatsSaved
  LossBounded
  SystemFits
  CoreTimeHasNoGaps
PROPERTIES
  CoreSessions
  GameSessions
  CoreNameFollowed
  GameFileFollowed
  StopEnds
\* The bounds on writes and boots end every behaviour.
CHECK_DEADLOCK FALSE
