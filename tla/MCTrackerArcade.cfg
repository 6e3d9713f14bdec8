SPECIFICATION Spec
CONSTANTS
  nes = nes
  snes = snes
  pacman = pacman
  zelda = zelda
  mario = mario
  ini = ini
  mra = mra
  zeldaId = zeldaId
  marioId = marioId
  mraId = mraId
  zeldaPath = zeldaPath
  marioPath = marioPath
  mraPath = mraPath
  NES = NES
  SNES = SNES
  Menu = Menu
  Arcade = Arcade
  None = None
  Missing = Missing
  GameId <- MCGameId
  GamePath <- MCGamePath
  SystemOf <- MCSystemOf
  NameMap <- MCNameMapArcade
  Cores = {snes, pacman}
  Contents = {mario, mra}
  IniFiles = {}
  Ids = {marioId, mraId}
  Paths = {marioPath, mraPath}
  Systems = {SNES, Arcade}
  SaveSeconds = 2
  DbMayFail = FALSE
  MaxWrites = 4
  MaxBoots = 1
  MaxTime = 2
INVARIANTS
  GameStatsSaved
\* The bounds on writes and boots end every behaviour.
CHECK_DEADLOCK FALSE
