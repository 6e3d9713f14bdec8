----------------------------- MODULE RecentList -----------------------------
(***************************************************************************)
(* What the folder of recent games is meant to show: the last distinct     *)
(* games that were played, no more than MaxEntries of them.  A game that   *)
(* is played comes first; if there are too many then, the oldest goes.     *)
(* LastPlayed (module RecentFolder) implements this module until one of    *)
(* its calls is interrupted.  It may lose a game in one case, which is an  *)
(* action of its own here: the first game is played again.                 *)
(***************************************************************************)
EXTENDS Integers, FiniteSets

CONSTANTS Games, Times, MaxEntries

VARIABLE listed   \* a set of records of a game and the time it was played

vars == <<listed>>

-----------------------------------------------------------------------------
Init == listed = {}

Others(game) == {e \in listed : e.game # game}

\* Room for one more: the oldest goes if the list is full.
Shortened(some) ==
  IF Cardinality(some) < MaxEntries
    THEN some
    ELSE {e \in some : \E h \in some : h.time < e.time}

Later(time) == \A e \in listed : e.time < time

Play(game, time) ==
  /\ Later(time)
  /\ listed' = Shortened(Others(game)) \cup {[game |-> game, time |-> time]}

IsFirst(game) ==
  \E e \in listed : e.game = game /\ \A h \in listed : h.time <= e.time

\* The fault: the first game is lost when it is played again.
Lose(game) ==
  /\ IsFirst(game)
  /\ listed' = Others(game)

Next ==
  \E game \in Games : Lose(game) \/ \E time \in Times : Play(game, time)

Spec == Init /\ [][Next]_vars
=============================================================================
