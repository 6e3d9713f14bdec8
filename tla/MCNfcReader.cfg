SPECIFICATION FairSpec
CONSTANTS
  ntag = ntag
  mifare = mifare
  v1 = v1
  v2 = v2
  None = None
  Half = Half
  Missing = Missing
  Cards = {ntag, mifare}
  Ntags = {ntag}
  Versions = {v1, v2}
  MaxEnv = 4
  MaxBoots = 2
INVARIANTS
  TypeOK
  LaunchedOnce
PROPERTIES
  NotWhileDisabled
  CardLaunched
  EditFollowed
\* The bounds on what users do and on starts end every behaviour.
CHECK_DEADLOCK FALSE
