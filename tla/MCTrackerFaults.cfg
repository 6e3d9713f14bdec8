SPECIFICATION Spec
CONSTANTS
  nes = nes
  snes = snes
  pacman = pacman
  zelda = zelda
  mario = mario
  ini = ini
  mra = mra
  zeldaId = zeldaId
  marioId = marioId
  mraId = mraId
  zeldaPath = zeldaPath
  marioPath = marioPath
  mraPath = mraPath
  NES = NES
  SNES = SNES
  Menu = Menu
  Arcade = Arcade
  None = None
  Missing = Missing
  GameId <- MCGameId
  GamePath <- MCGamePath
  SystemOf <- MCSystemOf
  NameMap <- MCNameMapArcade
  Cores = {pacman}
  Contents = {mra, ini}
  IniFiles = {ini}
  Ids = {mraId, zeldaId}
  Paths = {mraPath, zeldaPath}
  Systems = {NES, Arcade}
  SaveSeconds = 2
  DbMayFail = TRUE
  MaxWrites = 2
  MaxBoots = 2
  MaxTime = 3
PROPERTY
  SavedTimeGrows
\* The bounds on writes and boots end every behaviour.
CHECK_DEADLOCK FALSE
