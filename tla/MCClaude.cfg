SPECIFICATION MCSpec
CONSTANTS
  r1 = r1
  r2 = r2
  zeldaNes = zeldaNes
  zeldaGb = zeldaGb
  mario = mario
  NES = NES
  GB = GB
  PSX = PSX
  zelda = zelda
  superMario = superMario
  marioName = marioName
  other = other
  theme = theme
  obscure = obscure
  nesCore = nesCore
  pacCore = pacCore
  nintendo = nintendo
  zeldaUsa = zeldaUsa
  pac = pac
  zeldaPath = zeldaPath
  usaPath = usaPath
  pacPath = pacPath
  iniPath = iniPath
  None = None
  Nothing = Nothing
  Arcade = Arcade
  SystemOf <- MCSystemOf
  NameOf <- MCNameOf
  Within <- MCWithin
  Choices <- MCChoices
  Counts = {0}
  Configs <- MCConfigs
  Answers <- MCAnswers
  Score <- MCScore
  FileName <- MCFileName
  PathName <- MCPathName
  Ext <- MCExt
  PathSystem <- MCPathSystem
  ExpectedCores <- MCExpectedCores
  Lookup <- MCLookup
  CoreNamed <- MCCoreNamed
  ArcadeName <- MCArcadeName
  Requests = {r1, r2}
  Games = {zeldaNes, zeldaGb, mario}
  Systems = {NES, GB, PSX}
  Themes = {theme, obscure}
  ActiveThemes = {theme}
  Names = {zelda, superMario, marioName, other}
  Folders = {NES, GB}
  Cores = {nesCore, pacCore}
  GameNames = {zelda, zeldaUsa, pac, other}
  Paths = {zeldaPath, usaPath, pacPath, iniPath}
  SystemNames = {nintendo, Arcade}
  MglNames = {other}
  SamSystems = {NES, Arcade}
  MaxGamesForClaude = 2
  MaxGamesPerSystem = 2
  MaxCount = 2
  DefaultCount = 1
  ChatHistory = 0
  MaxEdits = 1
  MaxChanges = 3
INVARIANTS
  MCTypeOK
  ContextFits
PROPERTIES
  PlaylistIsInstalled
  RequestsEnd
\* A bound on the edits ends every behaviour.
CHECK_DEADLOCK FALSE
