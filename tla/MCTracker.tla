----------------------------- MODULE MCTracker -----------------------------
(***************************************************************************)
(* Instances of Tracker for TLC: console cores with their games, and an    *)
(* arcade core.                                                            *)
(***************************************************************************)
EXTENDS Tracker

CONSTANTS nes, snes, pacman,        \* core names
          zelda, mario, ini, mra,   \* texts of ACTIVEGAME
          zeldaId, marioId, mraId,
          zeldaPath, marioPath, mraPath,
          NES, SNES                 \* system ids; Arcade is the third

MCGameId ==
  [c \in Contents |-> CASE c = zelda -> zeldaId
                        [] c = mario -> marioId
                        [] OTHER -> mraId]

MCGamePath ==
  [c \in Contents |-> CASE c = zelda -> zeldaPath
                        [] c = mario -> marioPath
                        [] OTHER -> mraPath]

MCSystemOf ==
  [p \in Paths |-> CASE p = zeldaPath -> NES
                     [] p = marioPath -> SNES
                     [] OTHER -> Arcade]

\* The pairs of the instance's cores; the arcade pair needs pacman.
MCNameMap == {<<nes, NES>>, <<snes, SNES>>} \cap (Cores \X Systems)

MCNameMapArcade ==
  {<<nes, NES>>, <<snes, SNES>>, <<pacman, Arcade>>} \cap (Cores \X Systems)
=============================================================================
