----------------------------- MODULE SearchIndex ----------------------------
(***************************************************************************)
(* What the search index of Remote promises: one content that searches are *)
(* answered from and that a build replaces at once.  No search is answered *)
(* during a build, none is held while one begins, and a build takes        *)
(* nothing away.  One that goes well covers what was on the disk during    *)
(* all of it; one that fails, or is cut off when the server is killed, may *)
(* add less.  The job, its goroutines and the searches of Remote (module   *)
(* GamesIndex) implement this module.                                      *)
(***************************************************************************)
CONSTANTS Games, Searches

VARIABLES
  disk,      \* the games in the folders
  building,
  steady,    \* those that have been there since the last build began
  content,   \* what the index has
  indexed,   \* what the last build that went well has covered
  answer     \* answer[q]: what search q was told, a set of none or one

vars == <<disk, building, steady, content, indexed, answer>>

NoAnswers == [q \in Searches |-> {}]

-----------------------------------------------------------------------------
Init ==
  /\ disk \in SUBSET Games
  /\ ~building
  /\ steady = {} /\ content = {} /\ indexed = {}
  /\ answer = NoAnswers

\* A game comes or goes.
Change(g) ==
  /\ disk' = (disk \cup {g}) \ (disk \cap {g})
  /\ steady' = steady \ {g}
  /\ UNCHANGED <<building, content, indexed, answer>>

Begin ==
  /\ ~building
  /\ answer = NoAnswers
  /\ building' = TRUE
  /\ steady' = disk
  /\ UNCHANGED <<disk, content, indexed, answer>>

\* The build replaces the content.
Replace(games) ==
  /\ building
  /\ content \subseteq games
  /\ content' = games

Succeed(games) ==
  /\ Replace(games)
  /\ steady \subseteq games
  /\ building' = FALSE
  /\ indexed' = steady
  /\ UNCHANGED <<disk, steady, answer>>

Fail(games) ==
  /\ Replace(games)
  /\ building' = FALSE
  /\ UNCHANGED <<disk, steady, indexed, answer>>

Answer(q) ==
  /\ ~building
  /\ answer[q] = {}
  /\ answer' = [answer EXCEPT ![q] = {content}]
  /\ UNCHANGED <<disk, building, steady, content, indexed>>

Forget(q) ==
  /\ answer' = [answer EXCEPT ![q] = {}]
  /\ UNCHANGED <<disk, building, steady, content, indexed>>

\* The server is killed and started again, during a build or not.
Restart(games) ==
  /\ Replace(games) \/ (~building /\ UNCHANGED content)
  /\ building' = FALSE
  /\ answer' = NoAnswers
  /\ UNCHANGED <<disk, steady, indexed>>

Next ==
  \/ \E g \in Games : Change(g)
  \/ Begin
  \/ \E games \in SUBSET Games : Succeed(games) \/ Fail(games) \/ Restart(games)
  \/ \E q \in Searches : Answer(q) \/ Forget(q)

Spec == Init /\ [][Next]_vars
=============================================================================
