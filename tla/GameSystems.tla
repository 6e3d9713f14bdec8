---------------------------- MODULE GameSystems ----------------------------
(***************************************************************************)
(* The table of systems (pkg/games/systems.go): for each its id, aliases,  *)
(* set name, folders below "games", the core it runs in, and the slots of  *)
(* that core with the extensions each takes.  Names for display, dates,    *)
(* delays and the folder of the core are left out.                         *)
(***************************************************************************)

Sys(id, alias, setname, folder, rbf, slots) ==
  [id |-> id, alias |-> alias, setname |-> setname, folder |-> folder,
   rbf |-> rbf, slots |-> slots]

\* Slots: a file to load or a disk to mount, or no slot for the core at all.
F(index, exts) == [exts |-> exts, mgl |-> <<"f", index>>]
S(index, exts) == [exts |-> exts, mgl |-> <<"s", index>>]
Link(exts) == [exts |-> exts, mgl |-> <<>>]

Consoles1 == {
  Sys("AdventureVision", {"AVision"}, "", {"AVision"}, "AdventureVision",
      <<F(1, {".bin"})>>),
  Sys("Arcadia", {}, "", {"Arcadia"}, "Arcadia", <<F(1, {".bin"})>>),
  Sys("Astrocade", {}, "", {"Astrocade"}, "Astrocade", <<F(1, {".bin"})>>),
  Sys("Atari2600", {}, "Atari2600", {"ATARI7800", "Atari2600"}, "Atari7800",
      <<F(1, {".a26"})>>),
  Sys("Atari5200", {}, "", {"ATARI5200"}, "Atari5200",
      <<S(1, {".car", ".a52", ".bin", ".rom"})>>),
  Sys("Atari7800", {}, "", {"ATARI7800"}, "Atari7800",
      <<F(1, {".a78", ".bin"})>>),
  Sys("AtariLynx", {}, "", {"AtariLynx"}, "AtariLynx", <<F(1, {".lnx"})>>)}

Consoles2 == {
  Sys("CasioPV1000", {"Casio_PV-1000"}, "", {"Casio_PV-1000"}, "Casio_PV-1000",
      <<F(1, {".bin"})>>),
  Sys("CDI", {}, "", {"CD-i"}, "CDi", <<S(1, {".cue", ".chd"})>>),
  Sys("ChannelF", {}, "", {"ChannelF"}, "ChannelF",
      <<F(1, {".rom", ".bin"})>>),
  Sys("ColecoVision", {"Coleco"}, "", {"Coleco"}, "ColecoVision",
      <<F(1, {".col", ".bin", ".rom"})>>),
  Sys("CreatiVision", {}, "", {"CreatiVision"}, "CreatiVision",
      <<F(1, {".rom", ".bin"}), F(3, {".bas"})>>),
  Sys("FDS", {"FamicomDiskSystem"}, "FDS", {"NES", "FDS"}, "NES",
      <<F(1, {".fds"})>>)}

Consoles3 == {
  Sys("Gamate", {}, "", {"Gamate"}, "Gamate", <<F(1, {".bin"})>>),
  Sys("Gameboy", {"GB"}, "", {"GAMEBOY"}, "Gameboy", <<F(1, {".gb"})>>),
  Sys("GameboyColor", {"GBC"}, "GBC", {"GAMEBOY", "GBC"}, "Gameboy",
      <<F(1, {".gbc"})>>),
  Sys("Gameboy2P", {}, "", {"GAMEBOY2P"}, "Gameboy2P",
      <<F(1, {".gb", ".gbc"})>>),
  Sys("GameGear", {"GG"}, "GameGear", {"SMS", "GameGear"}, "SMS",
      <<F(2, {".gg"})>>),
  Sys("GameNWatch", {}, "", {"GameNWatch"}, "GnW", <<F(1, {".bin"})>>),
  Sys("GBA", {"GameboyAdvance"}, "", {"GBA"}, "GBA", <<F(1, {".gba"})>>)}

Consoles4 == {
  Sys("GBA2P", {}, "", {"GBA2P"}, "GBA2P", <<F(1, {".gba"})>>),
  Sys("Genesis", {"MegaDrive"}, "", {"MegaDrive", "Genesis"}, "MegaDrive",
      <<F(1, {".bin", ".gen", ".md"})>>),
  Sys("Intellivision", {}, "", {"Intellivision"}, "Intellivision",
      <<F(1, {".int", ".bin"})>>),
  Sys("Jaguar", {}, "", {"Jaguar"}, "Jaguar",
      <<S(1, {".jag", ".j64", ".rom", ".bin"})>>),
  Sys("MasterSystem", {"SMS"}, "", {"SMS"}, "SMS", <<F(1, {".sms"})>>),
  Sys("MegaCD", {"SegaCD"}, "", {"MegaCD"}, "MegaCD",
      <<S(0, {".cue", ".chd"})>>),
  Sys("MegaDuck", {}, "", {"GAMEBOY", "MegaDuck"}, "Gameboy",
      <<F(1, {".bin"})>>)}

Consoles5 == {
  Sys("NeoGeo", {}, "", {"NEOGEO"}, "NeoGeo", <<F(1, {".neo"})>>),
  Sys("NeoGeoCD", {}, "", {"NeoGeo-CD"}, "NeoGeo", <<S(1, {".cue", ".chd"})>>),
  Sys("NES", {}, "", {"NES"}, "NES", <<F(1, {".nes"})>>),
  Sys("NESMusic", {}, "", {"NES"}, "NES", <<F(1, {".nsf"})>>),
  Sys("Nintendo64", {"N64"}, "", {"N64"}, "N64", <<F(1, {".n64", ".z64"})>>),
  Sys("Odyssey2", {}, "", {"ODYSSEY2"}, "Odyssey2", <<F(1, {".bin"})>>),
  Sys("PocketChallengeV2", {}, "PocketChallengeV2",
      {"WonderSwan", "PocketChallengeV2"}, "WonderSwan", <<F(1, {".pc2"})>>)}

Consoles6 == {
  Sys("PokemonMini", {}, "", {"PokemonMini"}, "PokemonMini",
      <<F(1, {".min"})>>),
  Sys("PSX", {"Playstation", "PS1"}, "", {"PSX"}, "PSX",
      <<S(1, {".cue", ".chd"}), F(1, {".exe"})>>),
  Sys("Sega32X", {"S32X", "32X"}, "", {"S32X"}, "S32X", <<F(1, {".32x"})>>),
  Sys("SG1000", {}, "SG1000", {"SG1000", "Coleco", "SMS"}, "ColecoVision",
      <<F(0, {".sg"})>>),
  Sys("SuperGameboy", {"SGB"}, "", {"SGB"}, "SGB", <<F(1, {".gb", ".gbc"})>>),
  Sys("SuperVision", {}, "", {"SuperVision"}, "SuperVision",
      <<F(1, {".bin", ".sv"})>>)}

Consoles7 == {
  Sys("Saturn", {}, "", {"Saturn"}, "Saturn", <<S(0, {".cue", ".chd"})>>),
  Sys("SNES", {"SuperNintendo"}, "", {"SNES"}, "SNES",
      <<F(0, {".sfc", ".smc", ".bin", ".bs"})>>),
  Sys("SNESMusic", {}, "", {"SNES"}, "SNES", <<F(1, {".spc"})>>),
  Sys("SuperGrafx", {}, "", {"TGFX16"}, "TurboGrafx16", <<F(1, {".sgx"})>>),
  Sys("TurboGrafx16", {"TGFX16", "PCEngine"}, "", {"TGFX16"}, "TurboGrafx16",
      <<F(0, {".bin", ".pce"})>>),
  Sys("TurboGrafx16CD", {"TGFX16-CD", "PCEngineCD"}, "", {"TGFX16-CD"},
      "TurboGrafx16", <<S(0, {".cue", ".chd"})>>),
  Sys("VC4000", {}, "", {"VC4000"}, "VC4000", <<F(1, {".bin"})>>)}

Consoles8 == {
  Sys("Vectrex", {}, "", {"VECTREX"}, "Vectrex",
      <<F(1, {".vec", ".bin", ".rom"})>>),
  Sys("WonderSwan", {}, "", {"WonderSwan"}, "WonderSwan", <<F(1, {".ws"})>>),
  Sys("WonderSwanColor", {}, "WonderSwanColor",
      {"WonderSwan", "WonderSwanColor"}, "WonderSwan", <<F(1, {".wsc"})>>)}

Computers1 == {
  Sys("AcornAtom", {}, "", {"AcornAtom"}, "AcornAtom", <<S(1, {".vhd"})>>),
  Sys("AcornElectron", {}, "", {"AcornElectron"}, "AcornElectron",
      <<S(0, {".vhd"})>>),
  Sys("AliceMC10", {}, "", {"AliceMC10"}, "AliceMC10", <<F(1, {".c10"})>>),
  Sys("Amiga", {"Minimig"}, "", {"Amiga"}, "Minimig", <<F(0, {".adf"})>>),
  Sys("AmigaCD32", {}, "", {"AmigaCD32"}, "Minimig",
      <<S(1, {".cue", ".chd"})>>),
  Sys("Amstrad", {}, "", {"Amstrad"}, "Amstrad", <<S(0, {".dsk"}),
      S(1, {".dsk"}), F(3, {".e??"}), F(4, {".cdt"})>>)}

Computers2 == {
  Sys("AmstradPCW", {"Amstrad-PCW"}, "", {"Amstrad PCW"}, "Amstrad-PCW",
      <<S(0, {".dsk"}), S(1, {".dsk"})>>),
  Sys("ao486", {}, "", {"AO486"}, "ao486", <<S(0, {".img", ".ima", ".vfd"}),
      S(2, {".vhd"})>>),
  Sys("Apogee", {}, "", {"APOGEE"}, "Apogee",
      <<F(1, {".rka", ".rkr", ".gam"})>>),
  Sys("AppleI", {"Apple-I"}, "", {"Apple-I"}, "Apple-I", <<F(1, {".txt"})>>)}

Computers3 == {
  Sys("AppleII", {"Apple-II"}, "", {"Apple-II"}, "Apple-II",
      <<S(0, {".nib", ".dsk", ".do", ".po"}), S(1, {".hdv"})>>),
  Sys("Aquarius", {}, "", {"AQUARIUS"}, "Aquarius", <<F(1, {".bin"}),
      F(2, {".caq"})>>),
  Sys("Atari800", {}, "", {"ATARI800"}, "Atari800",
      <<S(0, {".atr", ".xex", ".xfd", ".atx"}),
      S(1, {".atr", ".xex", ".xfd", ".atx"}),
      S(2, {".car", ".rom", ".bin"})>>),
  Sys("BBCMicro", {}, "", {"BBCMicro"}, "BBCMicro", <<S(0, {".vhd"}),
      S(1, {".ssd", ".dsd"}), S(2, {".ssd", ".dsd"})>>)}

Computers4 == {
  Sys("BK0011M", {}, "", {"BK0011M"}, "BK0011M", <<F(1, {".bin"}),
      S(1, {".dsk"}), S(2, {".dsk"}), S(0, {".vhd"})>>),
  Sys("C16", {}, "", {"C16"}, "C16", <<S(0, {".d64", ".g64"}),
      S(1, {".d64", ".g64"}), F(1, {".prg", ".tap", ".bin"})>>),
  Sys("C64", {}, "", {"C64"}, "C64", <<S(0, {".d64", ".g64", ".t64", ".d81"}),
      S(1, {".d64", ".g64", ".t64", ".d81"}),
      F(1, {".prg", ".crt", ".reu", ".tap"})>>),
  Sys("CasioPV2000", {"Casio_PV-2000"}, "", {"Casio_PV-2000"}, "Casio_PV-2000",
      <<F(1, {".bin"})>>)}

Computers5 == {
  Sys("CoCo2", {}, "", {"CoCo2"}, "CoCo2", <<F(1, {".rom", ".ccc"}),
      S(0, {".dsk"}), S(1, {".dsk"}), S(2, {".dsk"}), S(3, {".dsk"}),
      F(2, {".cas"})>>),
  Sys("EDSAC", {}, "", {"EDSAC"}, "EDSAC", <<F(1, {".tap"})>>),
  Sys("Galaksija", {}, "", {"Galaksija"}, "Galaksija", <<F(1, {".tap"})>>),
  Sys("Interact", {}, "", {"Interact"}, "Interact", <<F(1, {".cin", ".k7"})>>),
  Sys("Jupiter", {}, "", {"Jupiter"}, "Jupiter", <<F(1, {".ace"})>>)}

Computers6 == {
  Sys("Laser", {"Laser310"}, "", {"Laser"}, "Laser310", <<F(1, {".vz"})>>),
  Sys("Lynx48", {}, "", {"Lynx48"}, "Lynx48", <<F(1, {".tap"})>>),
  Sys("MacPlus", {}, "", {"MACPLUS"}, "MacPlus", <<F(1, {".dsk"}),
      F(2, {".dsk"}), S(0, {".img", ".vhd"}), S(1, {".img", ".vhd"})>>),
  Sys("MSX", {}, "", {"MSX"}, "MSX", <<S(1, {".vhd"})>>),
  Sys("MSX1", {}, "", {"MSX1"}, "MSX1", <<S(1, {".dsk"}), F(2, {".rom"}),
      F(3, {".rom"})>>)}

Computers7 == {
  Sys("MultiComp", {}, "", {"MultiComp"}, "MultiComp", <<S(1, {".img"})>>),
  Sys("Orao", {}, "", {"ORAO"}, "ORAO", <<F(1, {".tap"})>>),
  Sys("Oric", {}, "", {"Oric"}, "Oric", <<S(0, {".dsk"})>>),
  Sys("PCXT", {}, "", {"PCXT"}, "PCXT", <<S(0, {".img", ".ima", ".vfd"}),
      S(1, {".img", ".ima", ".vfd"}), S(2, {".vhd"}), S(3, {".vhd"})>>),
  Sys("PDP1", {}, "", {"PDP1"}, "PDP1", <<F(1, {".pdp", ".rim", ".bin"})>>),
  Sys("PET2001", {}, "", {"PET2001"}, "PET2001", <<F(1, {".prg", ".tap"})>>)}

Computers8 == {
  Sys("PMD85", {}, "", {"PMD85"}, "PMD85", <<F(1, {".rmm"})>>),
  Sys("QL", {}, "", {"QL"}, "QL", <<S(0, {".win"}), F(2, {".mdv"})>>),
  Sys("RX78", {}, "", {"RX78"}, "RX78", <<F(1, {".bin"})>>),
  Sys("SAMCoupe", {}, "", {"SAMCOUPE"}, "SAMCoupe",
      <<S(0, {".dsk", ".mgt", ".img"}), S(1, {".dsk", ".mgt", ".img"})>>),
  Sys("SordM5", {"Sord M5"}, "", {"Sord M5"}, "SordM5",
      <<F(1, {".bin", ".rom"}), F(2, {".cas"})>>),
  Sys("Specialist", {"SPMX"}, "", {"SPMX"}, "Specialist", <<F(0, {".rks"}),
      S(0, {".odi"})>>)}

Computers9 == {
  Sys("SVI328", {}, "", {"SVI328"}, "Svi328", <<F(1, {".bin", ".rom"}),
      F(2, {".cas"})>>),
  Sys("TatungEinstein", {}, "", {"TatungEinstein"}, "TatungEinstein",
      <<S(0, {".dsk"})>>),
  Sys("TI994A", {"TI-99_4A"}, "", {"TI-99_4A"}, "Ti994a",
      <<F(1, {".m99", ".bin"}), F(2, {".bin"}), F(3, {".bin"})>>),
  Sys("TomyTutor", {}, "", {"TomyTutor"}, "TomyTutor", <<F(2, {".bin"}),
      S(0, {".cas"})>>)}

Computers10 == {
  Sys("TRS80", {}, "", {"TRS-80"}, "TRS-80", <<S(0, {".dsk", ".jvi"}),
      S(1, {".dsk", ".jvi"}), F(2, {".cmd"}), F(1, {".cas"})>>),
  Sys("TSConf", {}, "", {"TSConf"}, "TSConf", <<S(0, {".vhd"})>>),
  Sys("UK101", {}, "", {"UK101"}, "UK101", <<F(1, {".txt", ".bas", ".lod"})>>),
  Sys("Vector06C", {"Vector06"}, "", {"VECTOR06"}, "Vector-06C",
      <<F(1, {".rom", ".com", ".c00", ".edd"}), S(0, {".fdd"}),
      S(1, {".fdd"})>>)}

Computers11 == {
  Sys("VIC20", {}, "", {"VIC20"}, "VIC20", <<S(0, {".d64", ".g64"}),
      S(1, {".d64", ".g64"}), F(1, {".prg", ".crt", ".ct?", ".tap"})>>),
  Sys("X68000", {}, "", {"X68000"}, "X68000", <<S(0, {".d88"}), S(1, {".d88"}),
      S(2, {".hdf"}), S(3, {".ram"})>>),
  Sys("ZX81", {}, "", {"ZX81"}, "ZX81", <<F(1, {".0", ".p"})>>),
  Sys("ZXSpectrum", {"Spectrum"}, "", {"Spectrum"}, "ZX-Spectrum",
      <<S(0, {".trd", ".img", ".dsk", ".mgt"}), F(2, {".tap", ".csw", ".tzx"}),
      F(4, {".z80", ".sna"}), S(1, {".vhd"})>>)}

Computers12 == {
  Sys("ZXNext", {}, "", {"ZXNext"}, "ZXNext", <<S(0, {".vhd"}), S(1, {".vhd"}),
      F(1, {".tzx", ".csw"})>>)}

Other == {
  Sys("Arcade", {}, "", {"_Arcade"}, "", <<Link({".mra"})>>),
  Sys("Arduboy", {}, "", {"Arduboy"}, "Arduboy", <<F(0, {".bin", ".hex"})>>),
  Sys("Chip8", {}, "", {"Chip8"}, "Chip8", <<F(1, {".ch8"})>>),
  Sys("Groovy", {}, "", {"Groovy"}, "Groovy", <<F(1, {".gmc"})>>)}

SystemTable ==
  UNION {Consoles1, Consoles2, Consoles3, Consoles4, Consoles5, Consoles6,
         Consoles7, Consoles8, Computers1, Computers2, Computers3, Computers4,
         Computers5, Computers6, Computers7, Computers8, Computers9,
         Computers10, Computers11, Computers12, Other}

\* CoreGroups, with the ids of their systems; the last of SMS is a copy of
\* SG1000 that keeps only one slot and has no id.
CoreGroups ==
  [Atari7800 |-> <<"Atari7800", "Atari2600">>,
   Coleco    |-> <<"ColecoVision", "SG1000">>,
   Gameboy   |-> <<"Gameboy", "GameboyColor">>,
   NES       |-> <<"NES", "NESMusic", "FDS">>,
   SMS       |-> <<"MasterSystem", "GameGear", "">>,
   SNES      |-> <<"SNES", "SNESMusic">>,
   TGFX16    |-> <<"TurboGrafx16", "SuperGrafx">>]

\* Folders of which the first begins the second: FolderToSystems compares
\* whole paths with HasPrefix.
FolderPrefix ==
  {<<"Amiga", "AmigaCD32">>,
   <<"Amstrad", "Amstrad PCW">>,
   <<"Apple-I", "Apple-II">>,
   <<"GAMEBOY", "GAMEBOY2P">>,
   <<"GBA", "GBA2P">>,
   <<"MSX", "MSX1">>,
   <<"NEOGEO", "NeoGeo-CD">>,
   <<"TGFX16", "TGFX16-CD">>,
   <<"WonderSwan", "WonderSwanColor">>}
=============================================================================
