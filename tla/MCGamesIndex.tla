---------------------------- MODULE MCGamesIndex ----------------------------
(***************************************************************************)
(* Instance of GamesIndex for TLC.                                         *)
(***************************************************************************)
EXTENDS GamesIndex

CONSTANTS zelda, mario,   \* names of games
          r1, r2, q1, c1

MCGames == {<<1, zelda>>, <<2, mario>>}
=============================================================================
