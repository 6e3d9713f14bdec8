------------------------------ MODULE MCClaude ------------------------------
(***************************************************************************)
(* An instance of the Claude endpoints for TLC.  The requests and the      *)
(* context share no state: a behaviour is one of either (part).            *)
(*                                                                         *)
(* Requests: three games of two systems, two of them with the same name; a *)
(* third system has no folder.  Context: two console games, one of whose   *)
(* files is named for its region only, and an arcade game that the Tracker *)
(* and SAM play, and an .ini file.                                         *)
(***************************************************************************)
EXTENDS ClaudeRequests, ClaudeContext

CONSTANTS r1, r2,                        \* requests
          zeldaNes, zeldaGb, mario,      \* games
          NES, GB, PSX,                  \* systems
          zelda, superMario, marioName, other,
          theme, obscure,                \* of a playlist
          nesCore, pacCore,              \* cores
          nintendo,                      \* a name of NES
          zeldaUsa, pac,                 \* names of games
          zeldaPath, usaPath, pacPath, iniPath    \* paths of games

MCSystemOf == [g \in Games |-> IF g = zeldaGb THEN GB ELSE NES]

MCNameOf == [g \in Games |-> IF g = mario THEN superMario ELSE zelda]

MCWithin == {<<marioName, superMario>>}

MCConfigs ==
  {[enabled |-> TRUE, key |-> TRUE, suggestions |-> TRUE, max |-> 1],
   [enabled |-> TRUE, key |-> TRUE, suggestions |-> FALSE, max |-> 0],
   [enabled |-> FALSE, key |-> TRUE, suggestions |-> TRUE, max |-> 1]}

MCChoices == {{}, {NES}, {PSX}}

MCAnswers == {<<>>, <<other, marioName, zelda, zelda>>}

\* A very long name has a negative score; no name fits an obscure theme.
MCScore ==
  [t \in Themes |-> [g \in Games |-> CASE t = obscure -> -3
                                       [] g = mario -> 10
                                       [] g = zeldaNes -> 5
                                       [] OTHER -> -3]]

MCFileName == [p \in Paths |-> IF p = zeldaPath THEN zeldaUsa
                                 ELSE IF p = pacPath THEN pac ELSE other]

\* Nothing is left of "(USA).nes".
MCPathName == [p \in Paths |-> CASE p = zeldaPath -> zelda
                                 [] p = usaPath -> Nothing
                                 [] p = pacPath -> pac
                                 [] OTHER -> other]

MCExt == [p \in Paths |-> IF p \in {zeldaPath, usaPath} THEN "rom"
                            ELSE IF p = pacPath THEN "mra" ELSE "ini"]

MCPathSystem ==
  [p \in Paths |-> IF p \in {zeldaPath, usaPath} THEN NES ELSE Nothing]

MCLookup ==
  [x \in Cores \X Paths |->
     CASE x[1] = nesCore /\ x[2] \in {zeldaPath, usaPath} -> nintendo
       [] x = <<pacCore, pacPath>> -> Arcade
       [] OTHER -> Nothing]

MCExpectedCores == [s \in SamSystems |-> IF s = NES THEN {nesCore} ELSE {}]

MCCoreNamed == [n \in GameNames |-> IF n = pac THEN pacCore ELSE Nothing]

MCArcadeName == [c \in Cores |-> IF c = pacCore THEN pac ELSE Nothing]

VARIABLE part

MCInit ==
  /\ ClaudeInit /\ ContextInit
  /\ part \in {"requests", "context"}
  /\ part = "context" => cfg = CHOOSE c \in Configs : TRUE

MCNext ==
  /\ \/ part = "requests" /\ ClaudeNext /\ UNCHANGED contextVars
     \/ part = "context" /\ ContextNext /\ UNCHANGED claudeVars
  /\ UNCHANGED part

\* (No request is there to go on while the part is "context".)
MCSpec ==
  MCInit /\ [][MCNext]_<<claudeVars, contextVars, part>> /\ ClaudeFairness

\* Both keep their types.
MCTypeOK == ClaudeTypeOK /\ ContextTypeOK
=============================================================================
