----------------------------- MODULE ConnGroup -----------------------------
(***************************************************************************)
(* The WebSocket connections of Remote (cmd/remote/websocket): each client *)
(* has a handler that adds its connection to a group, answers its          *)
(* messages, and removes it by the index it was added at; threads of the   *)
(* tracker and of the search index broadcast to the group.  What a handler *)
(* sends its own client, without the mutex, is left out.                   *)
(***************************************************************************)
EXTENDS Integers, SequencesExt

CONSTANTS
  Clients,    \* connections, one for each time a client connects
  Senders,    \* threads that call Broadcast
  None

\* What the constants have to satisfy: an instance of the group assumes it.
ConnConstants == None \notin Senders /\ IsFiniteSet(Clients)

VARIABLES
  at,       \* at[c]: where the handler of c is
  id,       \* id[c]: the index that Add returned
  conns,    \* connGroup.conns
  mu,       \* the sender that holds connGroup.mu; the other calls hold it
            \* for one step
  todo,     \* the connections the holder has still to send to
  got       \* the clients that the message has been sent to

vars == <<at, id, conns, mu, todo, got>>

-----------------------------------------------------------------------------
AddIndex == Len(conns)

\* Add: the connection goes to the end.
Add(c) ==
  /\ at[c] = "new"
  /\ mu = None
  /\ conns' = Append(conns, c)
  /\ id' = [id EXCEPT ![c] = AddIndex]
  /\ at' = [at EXCEPT ![c] = "connected"]
  /\ UNCHANGED <<mu, todo, got>>

\* The client leaves, or a read or a write of its handler fails: the deferred
\* function closes the connection.
Close(c) ==
  /\ at[c] = "connected"
  /\ at' = [at EXCEPT ![c] = "closed"]
  /\ UNCHANGED <<id, conns, mu, todo, got>>

\* conns without its element at the index, counted from 0.  An index past the
\* end is a panic, which ends the handler; the mutex is unlocked.
WithoutIndex(index) ==
  IF index < Len(conns) THEN RemoveAt(conns, index + 1) ELSE conns

\* Then it removes the index it was added at.
Leave(c) ==
  /\ at[c] = "closed"
  /\ mu = None
  /\ conns' = WithoutIndex(id[c])
  /\ at' = [at EXCEPT ![c] = "gone"]
  /\ UNCHANGED <<id, mu, todo, got>>

\* Broadcast holds the mutex for the whole loop.  (Clean, before it, removes
\* the nil connections, of which there are none.)
Begin(s) ==
  /\ mu = None
  /\ mu' = s
  /\ todo' = conns
  /\ got' = {}
  /\ UNCHANGED <<at, id, conns>>

\* Mutant: the loop ends without unlocking after a write that fails.
SendOrGiveUp(s) ==
  /\ mu = s
  /\ todo # <<>>
  /\ at[Head(todo)] = "connected"
  /\ todo' = Tail(todo)
  /\ got' = got \cup {Head(todo)}
  /\ UNCHANGED <<at, id, conns, mu>>

\* A write to a closed connection fails, which is logged.
Send(s) ==
  /\ mu = s
  /\ todo # <<>>
  /\ todo' = Tail(todo)
  /\ got' = IF at[Head(todo)] = "connected" THEN got \cup {Head(todo)} ELSE got
  /\ UNCHANGED <<at, id, conns, mu>>

Done(s) ==
  /\ mu = s
  /\ todo = <<>>
  /\ mu' = None
  /\ got' = {}
  /\ UNCHANGED <<at, id, conns, todo>>

-----------------------------------------------------------------------------
Init ==
  /\ at = [c \in Clients |-> "new"]
  /\ id = [c \in Clients |-> 0]
  /\ conns = <<>>
  /\ mu = None
  /\ todo = <<>>
  /\ got = {}

Next ==
  \/ \E c \in Clients : Add(c) \/ Close(c) \/ Leave(c)
  \/ \E s \in Senders : Begin(s) \/ Send(s) \/ Done(s)

Spec == Init /\ [][Next]_vars

\* A broadcast goes on, and the mutex starves no handler.  (Writes to a client
\* that reads nothing block in the end; that is left out.)
Fairness ==
  /\ \A s \in Senders : WF_vars(Send(s) \/ Done(s))
  /\ \A c \in Clients : SF_vars(Leave(c))

FairSpec == Spec /\ Fairness

-----------------------------------------------------------------------------
TypeOK ==
  /\ at \in [Clients -> {"new", "connected", "closed", "gone"}]
  /\ id \in [Clients -> 0 .. Cardinality(Clients) - 1]
  /\ conns \in Seq(Clients)
  /\ mu \in Senders \cup {None}
  /\ todo \in Seq(Clients)
  /\ got \subseteq Clients

\* A handler whose client has left ends, however many broadcasts are made.
\* (Given that each write ends, which nothing in the code bounds.)
HandlersEnd == \A c \in Clients : at[c] = "closed" ~> at[c] = "gone"

\* docs/remote-api.md: "all clients connected to the WebSocket will be sent
\* event updates": when a broadcast is done every client that is connected
\* has got it (none is added while it is made).
AllConnectedGet ==
  mu # None /\ todo = <<>> =>
    \A c \in Clients : at[c] = "connected" => c \in got
=============================================================================
