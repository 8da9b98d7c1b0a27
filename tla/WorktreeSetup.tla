--------------------------- MODULE WorktreeSetup ---------------------------
(* A worktree with a network of its own, set up as a transaction that may    *)
(* be retried: the source window makes the Git worktree, the network and the *)
(* copies of the Compose projects and opens the folder; the window of the    *)
(* new folder attaches its terminals and closes the transaction.  What was   *)
(* reached is kept in the editor's global state (the pending setups) and in  *)
(* the state of the folder.  Every await may fail, each window may die       *)
(* between two steps, and another window may remove or add a network.        *)
EXTENDS Integers, Sequences, FiniteSets

CONSTANTS
  Folders,         \* where a worktree may be put
  AttachedSources, \* the Compose attachments: [names, here], in order
  Discovered       \* the containers found: [project, inside, files], in order

ASSUME WorktreeAssumption ==
  /\ Folders # {}
  \* attached to this window's network, and of this repository
  /\ \A i \in DOMAIN AttachedSources : AttachedSources[i].here \in BOOLEAN

VARIABLES
  setups,     \* the pending setups: a set of [folder, branch, name, net], net 0 when not stored
  gitRows,    \* the worktrees Git has registered: a set of [folder, branch]
  onDisk,     \* the folders that exist
  lnets,      \* the networks: a set of [id, name, for], for is who made it
  composeCopies, \* a set of [net, source, id], the attachments made by copying
  maker,      \* the command running in the source window
  closers,    \* per folder and kind (resume, init), what its window is doing
  desks,      \* per folder: is it open, its stored network, its binding, is it
              \* initialized, did a resume and an initialization overlap, and how
              \* many setups were closed
  wtLeft      \* what may still happen

wtVars == <<setups, gitRows, onDisk, lnets, composeCopies, maker, closers, desks, wtLeft>>

\* aggregateComposeCandidates: the containers of a project are one candidate.
OnePerProject(candidates) ==
  LET First(i) == \A j \in 1..(i - 1) : candidates[j].project # candidates[i].project
  IN SelectSeq([i \in DOMAIN candidates |-> [project |-> candidates[i].project, first |-> First(i)]],
               LAMBDA c : c.first)

\* What is copied: the attachments of the window's network, and the projects of
\* the repository that are none of them and whose files are known.
discoverComposeCopySources ==
  LET mine == SelectSeq(AttachedSources, LAMBDA a : a.here)
      names == UNION {mine[i].names : i \in DOMAIN mine}
      found == SelectSeq(Discovered, LAMBDA c : c.inside /\ c.project \notin names /\ c.files)
      grouped == OnePerProject(found)
  IN [i \in DOMAIN mine |-> mine[i].names] \o [i \in DOMAIN grouped |-> {grouped[i].project}]

\* Asked for on an attachment, the command copies that one.
SourcesFor(explicit) ==
  IF explicit THEN {<<AttachedSources[i].names>> : i \in DOMAIN AttachedSources}
  ELSE {discoverComposeCopySources}

NoMaker == [pc |-> "idle", branch |-> "-", folder |-> "-", pend |-> {}, net |-> 0,
            todo |-> <<>>, wanted |-> <<>>]
NoCloser == [pc |-> "idle", net |-> 0, seen |-> {}]
BlankDesk == [open |-> FALSE, stored |-> 0, done |-> FALSE, bound |-> 0, overlap |-> FALSE,
              closed |-> 0]

WtInit(scene) ==
  /\ setups = {} /\ gitRows = {} /\ onDisk = scene.folders
  /\ lnets = {} /\ composeCopies = {}
  /\ maker = NoMaker
  /\ closers = [f \in Folders, k \in {"resume", "init"} |-> NoCloser]
  /\ desks = [f \in Folders |-> BlankDesk]
  /\ wtLeft = scene

WtSpend(what) == wtLeft[what] > 0 /\ wtLeft' = [wtLeft EXCEPT ![what] = @ - 1]

---------------------------------------------------------------------------
(* Names and lookups.                                                        *)

\* The first of base, base-2, base-3, ... that no network bears.  Every folder
\* has the same last component, as two branches or two parents may give.
UniqueName(style, networks) ==
  LET Nth(k) == IF k = 1 THEN <<"base", 1>> ELSE <<style, k>>
      Taken(k) == Nth(k) \in {n.name : n \in networks}
  IN Nth(CHOOSE k \in 1..(Cardinality(networks) + 1) : ~Taken(k) /\ \A j \in 1..(k - 1) : Taken(j))

buildUniqueNetworkName(networks) == UniqueName("-", networks)
buildUniqueWorktreeNetworkName(networks) == UniqueName("()", networks)

findPendingSetup(folder) == {p \in setups : p.folder = folder}

FindOnlyById(pending, networks) == {n \in networks : n.id = pending.net}

\* A setup that has not stored its network yet looks for it by the name.
findPendingNetwork(pending, networks) ==
  {n \in networks : IF pending.net = 0 THEN n.name = pending.name ELSE n.id = pending.net}

UpsertSetup(pending) == {p \in setups : p.folder # pending.folder} \cup {pending}

---------------------------------------------------------------------------
(* The command of the source window.                                         *)

MakerAt(pc) == maker.pc = pc
MakerTo(pc) == maker' = [maker EXCEPT !.pc = pc]

\* The branch is entered; the folder offered is the one of a pending setup of
\* the branch, else the one of its worktree, else the sibling of the source.
OfferedFolders(branch) ==
  LET pend == {p.folder : p \in {q \in setups : q.branch = branch}}
      rows == {r.folder : r \in {q \in gitRows : q.branch = branch}}
  IN IF pend # {} THEN pend ELSE IF rows # {} THEN rows ELSE Folders

\* create: while one runs, a second call joins it.
create ==
  /\ MakerAt("idle") /\ WtSpend("creates")
  /\ \E b \in wtLeft.branches : \E f \in OfferedFolders(b) :
       maker' = [NoMaker EXCEPT !.pc = "confirm", !.branch = b, !.folder = f]
  /\ UNCHANGED <<setups, gitRows, onDisk, lnets, composeCopies, closers, desks>>

\* The user may choose another parent, leave the Compose projects out, or cancel.
confirmCreation ==
  /\ MakerAt("confirm")
  /\ \/ maker' = NoMaker
     \/ \E f \in {maker.folder} \cup Folders, todo \in {<<>>} \cup SourcesFor(wtLeft.explicit) :
          maker' = [maker EXCEPT !.pc = "inspect", !.folder = f, !.todo = todo, !.wanted = todo]
  /\ UNCHANGED <<setups, gitRows, onDisk, lnets, composeCopies, closers, desks, wtLeft>>

\* createOrReuse, up to the command: the same pair again is reused, when its
\* folder is there; anything else in the way is an error.
createOrReuse ==
  /\ MakerAt("inspect")
  /\ LET here == {r \in gitRows : r.folder = maker.folder}
         elsewhere == {r \in gitRows : r.branch = maker.branch}
     IN maker' = CASE here # {} /\ here \subseteq elsewhere /\ maker.folder \in onDisk
                        -> [maker EXCEPT !.pc = "record"]
                  [] here \cup elsewhere = {} /\ maker.folder \notin onDisk
                        -> [maker EXCEPT !.pc = "add"]
                  [] OTHER -> NoMaker
  /\ UNCHANGED <<setups, gitRows, onDisk, lnets, composeCopies, closers, desks, wtLeft>>

\* git worktree add, then the pair is looked for again.  A command that fails
\* or is killed at its deadline may have done its work all the same.
worktreeAdd ==
  /\ MakerAt("add")
  /\ \/ /\ maker.folder \notin onDisk
        /\ gitRows' = gitRows \cup {[folder |-> maker.folder, branch |-> maker.branch]}
        /\ onDisk' = onDisk \cup {maker.folder}
        /\ \/ MakerTo("record") /\ UNCHANGED wtLeft
           \/ maker' = NoMaker /\ WtSpend("fails")
     \/ /\ maker.folder \in onDisk
        /\ maker' = NoMaker
        /\ UNCHANGED <<gitRows, onDisk, wtLeft>>
  /\ UNCHANGED <<setups, lnets, composeCopies, closers, desks>>

PendingAnew(folder, branch) ==
  [folder |-> folder, branch |-> branch, name |-> buildUniqueNetworkName(lnets), net |-> 0]

\* The setup is recorded before anything is made for it.
Pending(folder, branch) ==
  IF findPendingSetup(folder) # {} THEN CHOOSE p \in findPendingSetup(folder) : TRUE
  ELSE [folder |-> folder, branch |-> branch, name |-> buildUniqueNetworkName(lnets), net |-> 0]

recordPending ==
  /\ MakerAt("record")
  /\ LET p == Pending(maker.folder, maker.branch)
     IN /\ setups' = UpsertSetup(p)
        /\ maker' = [maker EXCEPT !.pc = "network", !.pend = {p}]
  /\ UNCHANGED <<gitRows, onDisk, lnets, composeCopies, closers, desks, wtLeft>>

\* The network of the setup, when it is there, else a new one.
findOrCreateNetwork ==
  /\ MakerAt("network")
  /\ \E p \in maker.pend : LET found == findPendingNetwork(p, lnets) IN
        IF found = {} THEN MakerTo("create")
        ELSE \E n \in found : maker' = [maker EXCEPT !.pc = "copy", !.net = n.id]
  /\ UNCHANGED <<setups, gitRows, onDisk, lnets, composeCopies, closers, desks, wtLeft>>

createNetwork ==
  /\ MakerAt("create") /\ WtSpend("born")
  /\ lnets' = lnets \cup {[id |-> wtLeft.born, name |-> p.name, for |-> maker.folder] : p \in maker.pend}
  /\ maker' = [maker EXCEPT !.pc = "store", !.net = wtLeft.born]
  /\ UNCHANGED <<setups, gitRows, onDisk, composeCopies, closers, desks>>

\* The id is stored at once: the record is the one the command holds.
storeNetworkId ==
  /\ MakerAt("store")
  /\ \E p \in maker.pend : setups' = UpsertSetup([p EXCEPT !.net = maker.net])
  /\ MakerTo("copy")
  /\ UNCHANGED <<gitRows, onDisk, lnets, composeCopies, closers, desks, wtLeft>>

\* One project after the other.  A network that has gone refuses the copy; an
\* equivalent attachment is taken as it is.
NoEquivalent(net, source) == FALSE

HasEquivalent(net, source) == \E c \in composeCopies : c.net = net /\ c.source = source

copyComposeSource ==
  /\ MakerAt("copy") /\ maker.todo # <<>>
  /\ IF \E n \in lnets : n.id = maker.net
     THEN /\ composeCopies' = composeCopies \cup
               IF HasEquivalent(maker.net, Head(maker.todo)) THEN {}
               ELSE {[net |-> maker.net, source |-> Head(maker.todo),
                      id |-> Cardinality(composeCopies) + 1]}
          /\ maker' = [maker EXCEPT !.todo = Tail(@)]
     ELSE maker' = NoMaker /\ UNCHANGED composeCopies
  /\ UNCHANGED <<setups, gitRows, onDisk, lnets, closers, desks, wtLeft>>

\* DNS and TLS are installed and verified, then the folder is opened.
openFolder ==
  /\ MakerAt("copy") /\ maker.todo = <<>>
  /\ desks' = [desks EXCEPT ![maker.folder].open = TRUE]
  /\ maker' = NoMaker
  /\ UNCHANGED <<setups, gitRows, onDisk, lnets, composeCopies, closers, wtLeft>>

\* Any await of the command throws, or the source window dies.
MakerFails ==
  /\ maker.pc \notin {"idle", "confirm"} /\ WtSpend("fails")
  /\ maker' = NoMaker
  /\ UNCHANGED <<setups, gitRows, onDisk, lnets, composeCopies, closers, desks>>

---------------------------------------------------------------------------
(* The window of the folder.                                                 *)

Job(f, k) == closers[f, k]
CloserTo(f, k, c) == closers' = [closers EXCEPT ![f, k] = c]

\* Each kind is joined by a second call of its own; the two kinds may overlap.
Starts(f, k, c) ==
  /\ desks[f].open /\ Job(f, k).pc = "idle"
  /\ CloserTo(f, k, c)
  /\ desks' = [desks EXCEPT ![f].overlap = @ \/ \E other \in {"resume", "init"} : Job(f, other).pc # "idle"]

\* resumePending, on activation or by command: nothing pending, nothing done;
\* no network, an error that sends the user back to the source window.
resumePending(f) ==
  /\ WtSpend("resumes")
  /\ \E p \in findPendingSetup(f) : \E n \in findPendingNetwork(p, lnets) :
       Starts(f, "resume", [NoCloser EXCEPT !.pc = "attach", !.net = n.id])
  /\ UNCHANGED <<setups, gitRows, onDisk, lnets, composeCopies, maker>>

\* initializeWorktree: the networks are looked at, then the shell is set up.
initializeWorktree(f) ==
  /\ WtSpend("inits")
  /\ Starts(f, "init", [NoCloser EXCEPT !.pc = "choose", !.seen = lnets])
  /\ UNCHANGED <<setups, gitRows, onDisk, lnets, composeCopies, maker>>

\* The stored network or the one of the binding, if it was there; else a new one.
Reusable(f, networks) ==
  LET stored == {n \in networks : n.id = desks[f].stored}
  IN IF stored # {} THEN stored ELSE {n \in networks : n.id = desks[f].bound}

chooseNetwork(f) ==
  /\ Job(f, "init").pc = "choose"
  /\ LET seen == Job(f, "init").seen
         reuse == Reusable(f, seen)
     IN IF reuse # {}
        THEN /\ \E n \in reuse : CloserTo(f, "init", [NoCloser EXCEPT !.pc = "attach", !.net = n.id])
             /\ UNCHANGED <<lnets, wtLeft>>
        ELSE /\ WtSpend("born")
             /\ lnets' = lnets \cup {[id |-> wtLeft.born, for |-> "init",
                                      name |-> buildUniqueWorktreeNetworkName(seen)]}
             /\ CloserTo(f, "init", [NoCloser EXCEPT !.pc = "persist", !.net = wtLeft.born])
  /\ UNCHANGED <<setups, gitRows, onDisk, composeCopies, maker, desks>>

persistNetwork(f) ==
  /\ Job(f, "init").pc = "persist"
  /\ desks' = [desks EXCEPT ![f].stored = Job(f, "init").net, ![f].done = FALSE]
  /\ CloserTo(f, "init", [Job(f, "init") EXCEPT !.pc = "attach"])
  /\ UNCHANGED <<setups, gitRows, onDisk, lnets, composeCopies, maker, wtLeft>>

\* attachVscodeWindowTerminalsToNetwork: the binding is set, when the network is there.
attachTerminals(f, k) ==
  /\ Job(f, k).pc = "attach"
  /\ IF \E n \in lnets : n.id = Job(f, k).net
     THEN /\ desks' = [desks EXCEPT ![f].bound = Job(f, k).net]
          /\ CloserTo(f, k, [Job(f, k) EXCEPT !.pc = "finish"])
     ELSE CloserTo(f, k, NoCloser) /\ UNCHANGED desks
  /\ UNCHANGED <<setups, gitRows, onDisk, lnets, composeCopies, maker, wtLeft>>

\* Verified: the folder is initialized, and a resume then closes its setup.
ClosesSetup(k) == IF k = "resume" THEN "remove" ELSE "idle"

storeInitialized(f, k) ==
  /\ Job(f, k).pc = "finish"
  /\ desks' = [desks EXCEPT ![f].stored = Job(f, k).net, ![f].done = TRUE]
  /\ CloserTo(f, k, [NoCloser EXCEPT !.pc = ClosesSetup(k)])
  /\ UNCHANGED <<setups, gitRows, onDisk, lnets, composeCopies, maker, wtLeft>>

removePendingSetup(f) ==
  /\ Job(f, "resume").pc = "remove"
  /\ setups' = setups \ findPendingSetup(f)
  /\ desks' = [desks EXCEPT ![f].closed = @ + 1]
  /\ CloserTo(f, "resume", NoCloser)
  /\ UNCHANGED <<gitRows, onDisk, lnets, composeCopies, maker, wtLeft>>

\* An await throws, or the window dies and is opened again.
CloserFails(f, k) ==
  /\ Job(f, k).pc # "idle" /\ WtSpend("fails")
  /\ CloserTo(f, k, NoCloser)
  /\ UNCHANGED <<setups, gitRows, onDisk, lnets, composeCopies, maker, desks>>

---------------------------------------------------------------------------
(* Others.                                                                   *)

\* Another window removes a network, and its copies with it.
OthersRemoveNetwork ==
  /\ wtLeft.removals > 0
  /\ wtLeft' = [wtLeft EXCEPT !.removals = @ - 1, !.removed = TRUE]
  /\ \E n \in lnets : /\ lnets' = lnets \ {n}
                      /\ composeCopies' = {c \in composeCopies : c.net # n.id}
  /\ UNCHANGED <<setups, gitRows, onDisk, maker, closers, desks>>

\* Another window makes a network of the name the setup would take.
OthersAddNetwork ==
  /\ wtLeft.additions > 0 /\ wtLeft.born > 0
  /\ wtLeft' = [wtLeft EXCEPT !.additions = @ - 1, !.born = @ - 1]
  /\ lnets' = lnets \cup {[id |-> wtLeft.born, name |-> <<"base", 1>>, for |-> "other"]}
  /\ UNCHANGED <<setups, gitRows, onDisk, composeCopies, maker, closers, desks>>

\* The user deletes the folder of a worktree; Git still has it registered.
FolderDeleted ==
  /\ WtSpend("deletions")
  /\ \E f \in onDisk : onDisk' = onDisk \ {f}
  /\ UNCHANGED <<setups, gitRows, lnets, composeCopies, maker, closers, desks>>

WtNext ==
  \/ create \/ confirmCreation \/ createOrReuse \/ worktreeAdd \/ recordPending
  \/ findOrCreateNetwork \/ createNetwork \/ storeNetworkId \/ copyComposeSource \/ openFolder
  \/ MakerFails
  \/ \E f \in Folders :
       \/ resumePending(f) \/ initializeWorktree(f) \/ chooseNetwork(f) \/ persistNetwork(f)
       \/ removePendingSetup(f)
       \/ \E k \in {"resume", "init"} : attachTerminals(f, k) \/ storeInitialized(f, k) \/ CloserFails(f, k)
  \/ OthersRemoveNetwork \/ OthersAddNetwork \/ FolderDeleted
---------------------------------------------------------------------------
(* Properties.                                                               *)

MadeFor(f) == {n \in lnets : n.for = f}

\* However often a setup is interrupted and asked for again, until it is closed
\* it has one network, and that one copy of each project; a folder that is open can always be finished,
\* from its pending setup or from its own state; the folder is opened with
\* everything asked for in its network; and a window about to store its network
\* has its terminals bound to it, unless a resume and an initialization overlap.
SetupsAreResumable ==
  /\ ~wtLeft.removed => \A f \in Folders : Cardinality(MadeFor(f)) <= 1 + desks[f].closed
  /\ \A c, d \in composeCopies : c.net = d.net /\ c.source \cap d.source # {} => c = d
  /\ \A f \in Folders : desks[f].open => findPendingSetup(f) # {} \/ desks[f].stored # 0
  /\ MakerAt("copy") /\ maker.net \in {n.id : n \in lnets} =>
       \A i \in 1..(Len(maker.wanted) - Len(maker.todo)) : HasEquivalent(maker.net, maker.wanted[i])
  /\ \A f \in Folders, k \in {"resume", "init"} :
       Job(f, k).pc = "finish" /\ ~desks[f].overlap => desks[f].bound = Job(f, k).net
============================================================================
