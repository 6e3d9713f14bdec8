----------------------------- MODULE MenuFolder ----------------------------
(***************************************************************************)
(* The launchers in a folder of MiSTer's menu and its subfolders, as the   *)
(* handlers of Remote change them (cmd/remote/menu/files.go, CreateLauncher *)
(* of cmd/remote/games/launchers.go), and the link "cores" that arcade     *)
(* launchers need beside them (pkg/mister/launchers.go).  Nothing locks a  *)
(* folder: each actor first changes files, then looks whether the link is  *)
(* needed, then makes or removes it.                                       *)
(*                                                                         *)
(* A file is its folder, its name and its kind.  Renaming a folder is left *)
(* out: for the folders modelled it is as good as deleting it.             *)
(***************************************************************************)
EXTENDS Naturals, Sequences, FiniteSets

CONSTANTS
  Dirs, Root,     \* the folder and its subfolders
  Names,          \* names of launchers
  Users, Sync,    \* actors: requests of Remote, and LaunchSync
  MaxActs         \* bound on the requests

ASSUME MenuConstants ==
  /\ Root \in Dirs
  /\ Sync \notin Users
  /\ MaxActs \in Nat

VARIABLES
  files, dirs, links,   \* what exists: launchers, folders, links to the cores
  todo,     \* todo[a]: the folders in which a is to set up the link
  seen,     \* seen[a]: what it has seen in the first of them
  acts

card == <<files, dirs, links>>
setup == <<todo, seen>>
menuVars == <<card, setup, acts>>

File(dir, name, kind) == [dir |-> dir, name |-> name, kind |-> kind]

Kinds == {"mra", "mgl", "missing"}

Actors == Users \cup {Sync}

Nothing == [known |-> FALSE, link |-> FALSE, mra |-> FALSE]

HasMra(dir) == \E f \in files : f.dir = dir /\ f.kind = "mra"

-----------------------------------------------------------------------------
(* TrySetupArcadeCoresLink.  Requests only report its errors.              *)

Look(a) ==
  /\ todo[a] # <<>>
  /\ ~seen[a].known
  /\ LET dir == Head(todo[a]) IN
       IF dir \in dirs
         THEN /\ seen' = [seen EXCEPT ![a] =
                            [known |-> TRUE, link |-> dir \in links,
                             mra |-> HasMra(dir)]]
              /\ UNCHANGED todo
         ELSE todo' = [todo EXCEPT ![a] = Tail(@)] /\ UNCHANGED seen
  /\ UNCHANGED <<card, acts>>

\* The folder has gone, or the link has come or gone, since a has looked: making
\* or removing the link is an error.
Raced(a) ==
  LET dir == Head(todo[a]) IN
  /\ seen[a].known
  /\ seen[a].mra # seen[a].link
  /\ dir \notin dirs \/ seen[a].link # (dir \in links)

SetLink(a) ==
  LET dir == Head(todo[a]) IN
  /\ seen[a].known
  /\ links' = IF seen[a].mra = seen[a].link \/ Raced(a)
                THEN links
                ELSE IF seen[a].mra THEN links \cup {dir} ELSE links \ {dir}
  /\ todo' = [todo EXCEPT ![a] = Tail(@)]
  /\ seen' = [seen EXCEPT ![a] = Nothing]
  /\ UNCHANGED <<files, dirs, acts>>

-----------------------------------------------------------------------------
(* The requests.                                                           *)

Act(u) ==
  /\ todo[u] = <<>>
  /\ acts < MaxActs
  /\ acts' = acts + 1
  /\ UNCHANGED seen

SetUp(a, where) == todo' = [todo EXCEPT ![a] = where]

\* HandleCreateFile
CreateFolder(u, dir) ==
  /\ Act(u)
  /\ dir \notin dirs
  /\ dir = Root \/ Root \in dirs
  /\ dirs' = dirs \cup {dir}
  /\ UNCHANGED <<files, links, todo>>

\* CreateLauncher: a link to the .mra of an arcade game, or an .mgl file.
CreateLauncher(u, dir, name, kind) ==
  /\ Act(u)
  /\ dir \in dirs
  /\ files' = files \cup {File(dir, name, kind)}
  /\ SetUp(u, IF kind = "mra" THEN <<dir>> ELSE <<>>)
  /\ UNCHANGED <<dirs, links>>

\* HandleDeleteFile and DeleteLauncher
DeleteFile(u, f) ==
  /\ Act(u)
  /\ files' = files \ {f}
  /\ SetUp(u, <<f.dir>>)
  /\ UNCHANGED <<dirs, links>>

Below(dir) == IF dir = Root THEN Dirs ELSE {dir}

\* HandleDeleteFile: a folder with all that is in it.
DeleteFolder(u, dir) ==
  /\ Act(u)
  /\ dir \in dirs
  /\ files' = {f \in files : f.dir \notin Below(dir)}
  /\ dirs' = dirs \ Below(dir)
  /\ links' = links \ Below(dir)
  /\ SetUp(u, IF dir = Root THEN <<>> ELSE <<Root>>)

\* HandleRenameFile: the new name must be free; both folders are set up.
RenameFile(u, f, dir, name) ==
  LET new == File(dir, name, f.kind) IN
  /\ Act(u)
  /\ new \notin files
  /\ dir \in dirs
  /\ files' = (files \ {f}) \cup {new}
  /\ SetUp(u, <<f.dir, dir>>)
  /\ UNCHANGED <<dirs, links>>

Request(u) ==
  \/ \E dir \in Dirs :
       \/ CreateFolder(u, dir) \/ DeleteFolder(u, dir)
       \/ \E name \in Names, kind \in {"mra", "mgl"} :
            CreateLauncher(u, dir, name, kind)
  \/ \E f \in files :
       \/ DeleteFile(u, f)
       \/ \E dir \in Dirs, name \in Names : RenameFile(u, f, dir, name)

MenuInit ==
  /\ files = {} /\ dirs = {Root} /\ links = {}
  /\ todo = [a \in Actors |-> <<>>]
  /\ seen = [a \in Actors |-> Nothing]
  /\ acts = 0

MenuTypeOK ==
  /\ files \subseteq [dir : Dirs, name : Names, kind : Kinds]
  /\ \A f \in files : f.dir \in dirs
  /\ links \subseteq dirs /\ dirs \subseteq Dirs
  /\ todo \in [Actors -> Seq(Dirs)]
  /\ seen \in [Actors -> [known : BOOLEAN, link : BOOLEAN, mra : BOOLEAN]]
  /\ \A a \in Actors : seen[a].known => todo[a] # <<>>
  /\ acts \in 0..MaxActs
=============================================================================
