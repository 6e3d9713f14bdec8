------------------------------ MODULE MCRemote -----------------------------
(***************************************************************************)
(* An instance, for TLC, of what lets Remote run: the commands that start  *)
(* and stop its daemon (Service), and the connections of its WebSocket     *)
(* (ConnGroup).  They share no state: a behaviour is one of the parts that *)
(* the .cfg names.                                                         *)
(***************************************************************************)
EXTENDS Service

CONSTANTS
  p1, p2, p3, c1,         \* process ids, a command
  w1, w2, w3, w4,         \* clients
  tracker, index,         \* threads that send to them
  Clients, Senders, Parts

VARIABLES at, id, conns, mu, todo, got, part

groupVars == <<at, id, conns, mu, todo, got>>

Group == INSTANCE ConnGroup

ASSUME GroupAssumption == Group!ConnConstants

MCInit == Init /\ Group!Init /\ part \in Parts

MCNext ==
  /\ \/ part = "service" /\ Next /\ UNCHANGED groupVars
     \/ part = "group" /\ Group!Next /\ UNCHANGED vars
  /\ UNCHANGED part

\* (In the first state of the part that does not run nothing fair is enabled.)
MCSpec ==
  MCInit /\ [][MCNext]_<<vars, groupVars, part>> /\ Fairness /\ Group!Fairness

\* Both keep their types.
MCTypeOK == TypeOK /\ Group!TypeOK

\* The properties of the connections, which ConnGroup explains: a handler whose
\* client has left ends; a broadcast reaches every client that is connected.
HandlersEnd == Group!HandlersEnd
AllConnectedGet == Group!AllConnectedGet
=============================================================================
