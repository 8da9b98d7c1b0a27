------------------------- MODULE ComposeAttachments -------------------------
(***************************************************************************)
(* The Compose attachments of src/extension/network-service.ts: attach,     *)
(* detach, remove and rename, the pass that reconciles the attachments with *)
(* the running containers, the convergence that re-registers their routes,  *)
(* the repair of generated override files, and the compose rows of the      *)
(* daemon all of them write.                                                *)
(*                                                                          *)
(* A step is what runs between two awaits.  The window owns the control     *)
(* plane and routes through the daemon.  A service is its logical port.     *)
(***************************************************************************)
EXTENDS Naturals, Sequences, FiniteSets, SequencesExt, Maps

VARIABLES
  composeRows,    \* the attachments of the registry: id -> row
  routeProcesses, \* the compose processes of the daemon: id -> its route
  routeView,      \* the daemon snapshot of the client
  runtimePorts,   \* project -> the host port of every service that runs
  overrideFiles,  \* the projects whose generated override is readable
  composeTasks,   \* the two shared passes and the commands
  composeTurns,   \* what may still happen; the process ids given; docker's state
  quietPass,      \* nothing but the last pass wrote since it began
  strays          \* clones that run and have lost their row
attachmentVars == <<composeRows, routeProcesses, routeView, runtimePorts, overrideFiles,
                    composeTasks, composeTurns, quietPass, strays>>

Unrouted == 0
Shared == {"pass", "converge"}
Commands == DOMAIN composeTasks \ Shared
IdleTask == [at |-> "idle", list |-> <<>>, id |-> 0, row |-> <<>>, wanted |-> <<>>, ensure |-> FALSE, forced |-> TRUE,
             todo |-> {}, got |-> <<>>, created |-> {}, doomed |-> {}, job |-> <<>>]

\* isRestorableComposeAttachment: the rows a pass works on, oldest first.
Restorable(rows) ==
  LET ids == SetToSortSeq({i \in DOMAIN rows : DOMAIN rows[i].ports # {}}, <)
  IN  [k \in DOMAIN ids |-> [id |-> ids[k], row |-> rows[ids[k]]]]

Attached(row) == row.status = "attached" /\ DOMAIN row.ports # {}
dropComposeProcessId(ports) == [p \in DOMAIN ports |-> [ports[p] EXCEPT !.pid = Unrouted]]
Actuals(ports) == [p \in DOMAIN ports |-> ports[p].actual]

-----------------------------------------------------------------------------
(* The registry                                                             *)

PortConflict(rows, id, row) ==
  \E i \in DOMAIN rows \ {id} :
    rows[i].net = row.net /\ DOMAIN rows[i].ports \cap DOMAIN row.ports # {}
OwnerConflict(rows, id, row) ==
  \E i \in DOMAIN rows \ {id} : rows[i].net # row.net /\ rows[i].project = row.project
CanAdd(rows, id, row) == ~PortConflict(rows, id, row) /\ ~OwnerConflict(rows, id, row)
CanUpdate(rows, id, row) == id \in DOMAIN rows /\ CanAdd(rows, id, row)

-----------------------------------------------------------------------------
(* The compose processes of the daemon                                      *)

\* isComposeProcessForPort, composeRouteProcessKey
KeyOf(process) == <<process.net, process.port>>
Keys(row) == {<<row.net, p>> : p \in DOMAIN row.ports}
RouteOf(row, p, actual) == [net |-> row.net, port |-> p, actual |-> actual]

\* findComposeProcessForPort, findRegisteredProcessForRoute
ProcessFor(processes, route) == {d \in DOMAIN processes : processes[d] = route}

\* removeComposeRouteProcesses: the ids of the row and every process of its keys.
StaleProcesses(view, row, preserved) ==
  ({row.ports[p].pid : p \in DOMAIN row.ports} \cup {d \in DOMAIN view : KeyOf(view[d]) \in Keys(row)})
  \ (preserved \cup {Unrouted})

\* removeOrphanComposeRouteProcesses
OrphanProcesses(view, list) ==
  {d \in DOMAIN view : \A k \in DOMAIN list : KeyOf(view[d]) \notin Keys(list[k].row)}

\* mergeComposePortsWithLiveRoutes
mergeComposePortsWithLiveRoutes(ports, wanted, got) ==
  [p \in DOMAIN ports \cup DOMAIN got |->
     IF p \in DOMAIN got THEN [actual |-> wanted[p], pid |-> got[p]]
     ELSE [ports[p] EXCEPT !.pid = Unrouted]]

-----------------------------------------------------------------------------
(* Tasks                                                                    *)

Hiccup == /\ composeTurns.faults > 0
          /\ composeTurns' = [composeTurns EXCEPT !.faults = @ - 1]
Smoothly == UNCHANGED composeTurns
Becomes(t, task) == composeTasks' = [composeTasks EXCEPT ![t] = task]
TaskAt(t, at) == composeTasks[t].at = at

\* The shared pass is over: the commands that wait for it go on.
PassOver(t) ==
  composeTasks' = [x \in DOMAIN composeTasks |->
    IF x = t THEN IdleTask
    ELSE CASE TaskAt(x, "inPass") /\ t = "pass" -> [composeTasks[x] EXCEPT !.at = "joinConverge"]
           [] TaskAt(x, "inConverge") /\ t = "converge" -> [composeTasks[x] EXCEPT !.at = "done"]
           [] OTHER -> composeTasks[x]]

\* The next attachment of a pass, or its end.
NextRow(t, list) ==
  IF list = <<>> THEN PassOver(t)
  ELSE Becomes(t, [IdleTask EXCEPT !.at = CASE t = "converge" -> "start"
                                            [] composeTasks[t].forced -> "live"
                                            [] OTHER -> "override",
                   !.forced = composeTasks[t].forced, !.list = Tail(list),
                   !.id = Head(list).id, !.row = Head(list).row, !.ensure = TRUE,
                   !.wanted = Actuals(Head(list).row.ports)])

WriteRow(id, row) ==
  composeRows' = IF CanUpdate(composeRows, id, row) THEN Put(composeRows, id, row) ELSE composeRows

\* An exception: a pass ends, a failed attach is undone, a failed rename puts
\* the row it began with back, marked.
Throws(t, task) ==
  CASE t \in Shared -> PassOver(t) /\ UNCHANGED composeRows
    [] t \notin Shared /\ task.job.kind = "attach" ->
         Becomes(t, [task EXCEPT !.at = "undo"]) /\ UNCHANGED composeRows
    [] OTHER -> /\ WriteRow(task.id, [task.job.was EXCEPT !.status = "error"])
                /\ Becomes(t, [task EXCEPT !.at = "done"])

-----------------------------------------------------------------------------
(* reconcileComposeAttachmentPublishedPorts, convergeDaemonAndRoutingState  *)

\* A pass of the background takes the endpoints from the rows, a forced one asks
\* the runtime (shouldRefreshComposePublishedPortsFromRuntime).
BeginsPass(forced) ==
  [IdleTask EXCEPT !.at = "refresh", !.list = Restorable(composeRows), !.forced = forced]
ComposePassBegins ==
  /\ TaskAt("pass", "idle") /\ composeTurns.passes > 0
  /\ composeTurns' = [composeTurns EXCEPT !.passes = @ - 1]
  /\ \E forced \in BOOLEAN : Becomes("pass", BeginsPass(forced))
  /\ UNCHANGED <<composeRows, routeProcesses, routeView, runtimePorts, overrideFiles, strays>>

\* A command waits for the pass that runs, or for a new one; the same for the
\* convergence.
JoinPass(c) ==
  /\ TaskAt(c, "joinPass")
  /\ composeTasks' = [composeTasks EXCEPT ![c].at = "inPass",
                        !["pass"] = IF @.at = "idle" THEN BeginsPass(TRUE) ELSE @]
  /\ UNCHANGED <<composeRows, routeProcesses, routeView, runtimePorts, overrideFiles, composeTurns, strays>>
JoinConverge(c) ==
  /\ TaskAt(c, "joinConverge")
  /\ LET list == Restorable(composeRows) IN
     IF TaskAt("converge", "idle") /\ list = <<>>
     THEN Becomes(c, [composeTasks[c] EXCEPT !.at = "done"])
     ELSE composeTasks' = [composeTasks EXCEPT ![c].at = "inConverge",
            !["converge"] = IF @.at # "idle" THEN @
                            ELSE [IdleTask EXCEPT !.at = "start", !.list = Tail(list), !.ensure = TRUE,
                                  !.id = list[1].id, !.row = list[1].row,
                                  !.wanted = Actuals(list[1].row.ports)]]
  /\ UNCHANGED <<composeRows, routeProcesses, routeView, runtimePorts, overrideFiles, composeTurns, strays>>

\* refreshComposeRouteProcessSnapshot; the orphans are read from the snapshot.
RefreshView ==
  /\ TaskAt("pass", "refresh")
  /\ \/ Smoothly /\ routeView' = routeProcesses
     \/ Hiccup /\ UNCHANGED routeView
  /\ Becomes("pass", [composeTasks["pass"] EXCEPT !.at = "orphans",
                      !.doomed = OrphanProcesses(routeView', composeTasks["pass"].list)])
  /\ UNCHANGED <<composeRows, routeProcesses, runtimePorts, overrideFiles, strays>>

\* listLiveComposePublishedPorts: a clone also shows the services it gained.
\* Nothing live is taken for a gap of the runtime: the ports of the row stay.
LivePorts(row) ==
  LET running == runtimePorts[row.project]
  IN  IF row.kind = "clone" THEN running
      ELSE [p \in DOMAIN running \cap DOMAIN row.ports |-> running[p]]
ReadLive(t) ==
  /\ TaskAt(t, "live")
  /\ LET task == composeTasks[t]
         live == LivePorts(task.row)
         known == Actuals(task.row.ports)
         next == IF t = "pass" THEN "override" ELSE "start"
     IN  \/ Smoothly /\ Becomes(t, [task EXCEPT !.at = next, !.ensure = live = <<>>,
                                    !.wanted = IF live = <<>> THEN known ELSE live])
         \/ Hiccup /\ Becomes(t, [task EXCEPT !.at = next, !.ensure = t = "pass", !.wanted = known])
  /\ UNCHANGED <<composeRows, routeProcesses, routeView, runtimePorts, overrideFiles, strays>>

-----------------------------------------------------------------------------
(* reconcileComposeOverrideFileForAttachment                                *)

\* The row the override is checked for: a pass holds the one it began with, a
\* command takes the current one.
Checked(t) ==
  LET task == composeTasks[t]
  IN  IF t = "pass" \/ task.id \notin DOMAIN composeRows THEN task.row ELSE composeRows[task.id]

\* The check ends with row: a pass goes on with it, a command converges.  A row
\* that is gone cannot be updated.
Settled(t, row, files) ==
  LET task == composeTasks[t]
      news == row # Checked(t)
      next == CASE t = "pass" -> "start" [] task.at = "force1" -> "force" [] OTHER -> "joinPass"
  IN  /\ overrideFiles' = files
      /\ IF news /\ ~CanUpdate(composeRows, task.id, row)
         THEN /\ UNCHANGED composeRows
              /\ IF t = "pass" THEN PassOver(t)
                 ELSE Becomes(t, [task EXCEPT !.at = IF @ = "force1" THEN "done" ELSE "joinPass"])
         ELSE /\ composeRows' = IF news THEN Put(composeRows, task.id, row) ELSE composeRows
              /\ Becomes(t,
                   IF row.status = "error" /\ (news \/ t = "pass")
                   THEN [task EXCEPT !.row = row, !.at = IF @ = "force1" THEN "erring1" ELSE "erring",
                                     !.doomed = StaleProcesses(routeView, row, {})]
                   ELSE [task EXCEPT !.row = row, !.at = next])

\* A readable file is kept unless its regeneration is forced.  Without docker a
\* readable file is left as it is; any other failure marks the row.
CheckOverride(t) ==
  /\ \E at \in {"override", "force1", "force"} : TaskAt(t, at)
  /\ LET task == composeTasks[t]
         row == Checked(t)
         readable == row.project \in overrideFiles
         forced == ~TaskAt(t, "override")
         mended == [row EXCEPT !.status = "attached", !.kind = IF @ = "plain" THEN @ ELSE "clone"]
     IN  \/ /\ \/ row.kind = "plain"
               \/ row.kind = "clone" /\ forced /\ readable /\ composeTurns.backoff
            /\ Smoothly /\ Settled(t, row, overrideFiles)
         \/ /\ row.kind = "adopted" /\ readable
            /\ Smoothly /\ Settled(t, [row EXCEPT !.status = "attached"], overrideFiles)
         \/ /\ row.kind # "plain" /\ (row.kind = "adopted" => ~readable)
            /\ \/ /\ composeTurns.docker \/ (readable /\ ~forced)
                  /\ Smoothly /\ Settled(t, mended, overrideFiles \cup {row.project})
               \/ /\ ~composeTurns.docker /\ ~(readable /\ ~forced) /\ row.kind = "clone"
                  /\ composeTurns' = [composeTurns EXCEPT !.backoff = TRUE]
                  /\ Settled(t, IF readable THEN row ELSE [row EXCEPT !.status = "error"], overrideFiles)
               \/ /\ ~composeTurns.docker /\ row.kind = "adopted"
                  /\ Smoothly /\ Settled(t, [row EXCEPT !.status = "error"], overrideFiles)
               \/ /\ ~(readable /\ ~forced)
                  /\ Hiccup /\ Settled(t, [row EXCEPT !.status = "error"], overrideFiles)
  /\ UNCHANGED <<routeProcesses, routeView, runtimePorts, strays>>

-----------------------------------------------------------------------------
(* replaceComposeRouteProcesses, ensureComposeRouteProcesses                *)

\* Every wanted port has its process: the others of the row go.
Routed(t, task) ==
  Becomes(t, IF task.todo # {} THEN [task EXCEPT !.at = "register"]
             ELSE [task EXCEPT !.at = "stale",
                   !.doomed = StaleProcesses(routeView', task.row, {task.got[p] : p \in DOMAIN task.got})])

\* Mutant: the rows of the attachment are removed first.
StartCleared(t) ==
  /\ TaskAt(t, "start") /\ UNCHANGED routeView
  /\ LET task == composeTasks[t]
     IN  /\ Smoothly
         /\ routeProcesses' = Drop(routeProcesses, StaleProcesses(routeView, task.row, {}))
         /\ Routed(t, [task EXCEPT !.got = <<>>, !.todo = DOMAIN task.wanted])
  /\ UNCHANGED <<composeRows, runtimePorts, overrideFiles, strays>>

\* start of the daemon.  What the snapshot shows already is kept when ensuring.
StartRoutes(t) ==
  /\ TaskAt(t, "start") /\ UNCHANGED routeView
  /\ LET task == composeTasks[t]
         Known(p) == ProcessFor(routeView, RouteOf(task.row, p, task.wanted[p]))
         kept == {p \in DOMAIN task.wanted : task.ensure /\ Known(p) # {}}
     IN  \/ /\ Smoothly
            /\ Routed(t, [task EXCEPT !.got = [p \in kept |-> CHOOSE d \in Known(p) : TRUE],
                                      !.todo = DOMAIN task.wanted \ kept])
            /\ UNCHANGED composeRows
         \/ Hiccup /\ Throws(t, task)
  /\ UNCHANGED <<routeProcesses, runtimePorts, overrideFiles, strays>>

\* registerExistingProcess: the daemon keeps the id of the same route.  A call
\* that fails may have been carried out; the processes of this round are taken
\* back, the ones that were there before included unless ensuring.
Register(t) ==
  /\ TaskAt(t, "register")
  /\ LET task == composeTasks[t]
         p == CHOOSE q \in task.todo : \A r \in task.todo : q <= r
         route == RouteOf(task.row, p, task.wanted[p])
         same == ProcessFor(routeProcesses, route)
         d == IF same = {} THEN composeTurns.lastId + 1 ELSE CHOOSE x \in same : TRUE
         told == [task EXCEPT !.todo = @ \ {p}, !.got = Put(@, p, d), !.created = @ \cup {d}]
         given == [composeTurns EXCEPT !.lastId = IF same = {} THEN d ELSE @]
         undone == [task EXCEPT !.at = "rollback", !.todo = {},
                      !.doomed = IF task.ensure THEN task.created ELSE {task.got[q] : q \in DOMAIN task.got}]
     IN  \/ /\ composeTurns' = given
            /\ routeProcesses' = Put(routeProcesses, d, route) /\ routeView' = Put(routeView, d, route)
            /\ Routed(t, told)
         \/ /\ composeTurns.faults > 0
            /\ \/ routeProcesses' = Put(routeProcesses, d, route) /\ composeTurns' = [given EXCEPT !.faults = @ - 1]
               \/ UNCHANGED routeProcesses /\ composeTurns' = [composeTurns EXCEPT !.faults = @ - 1]
            /\ UNCHANGED routeView
            /\ Becomes(t, undone)
  /\ UNCHANGED <<composeRows, runtimePorts, overrideFiles, strays>>

\* The row of a task that has routed it.  A convergence leaves a row alone whose
\* ports did not change; what it writes is attached.
RoutedRow(task) ==
  [task.row EXCEPT !.ports = mergeComposePortsWithLiveRoutes(@, task.wanted, task.got), !.status = "attached"]
FinishRow(t, task) ==
  LET row == RoutedRow(task)
      same == IF t = "converge" THEN row.ports = task.row.ports ELSE t = "pass" /\ row = task.row
      ids == {row.ports[p].pid : p \in DOMAIN row.ports} \ {Unrouted}
  IN  IF ~same /\ ~CanUpdate(composeRows, task.id, row)
      THEN Throws(t, [task EXCEPT !.doomed = ids])
      ELSE /\ composeRows' = IF same THEN composeRows ELSE Put(composeRows, task.id, row)
           /\ CASE t \in Shared -> NextRow(t, task.list)
                [] t \notin Shared /\ task.job.kind = "attach" -> Becomes(t, [task EXCEPT !.row = row, !.at = "force"])
                [] OTHER -> Becomes(t, [task EXCEPT !.at = "done"])

\* removeProcess of every doomed process at once; what fails is left.
Removals == {"orphans", "stale", "erring1", "erring", "rollback", "undo", "released"}
RemovalsEnd(t) ==
  /\ composeTasks[t].at \in Removals
  /\ LET task == composeTasks[t]
         clean == [task EXCEPT !.doomed = {}]
     IN  /\ \E left \in SUBSET task.doomed :
              /\ Cardinality(left) <= 1
              /\ IF left = {} THEN Smoothly ELSE Hiccup
              /\ routeProcesses' = Drop(routeProcesses, task.doomed \ left)
              /\ routeView' = Drop(routeView, task.doomed \ left)
         /\ CASE task.at = "orphans" -> NextRow(t, task.list) /\ UNCHANGED composeRows
              [] task.at = "stale" -> FinishRow(t, clean)
              [] task.at = "erring" ->
                   /\ IF t = "pass" THEN NextRow(t, task.list) ELSE Becomes(t, [clean EXCEPT !.at = "joinPass"])
                   /\ UNCHANGED composeRows
              [] task.at = "erring1" -> Becomes(t, [clean EXCEPT !.at = "force"]) /\ UNCHANGED composeRows
              [] task.at = "rollback" -> Throws(t, clean)
              [] task.at = "released" -> Becomes(t, [clean EXCEPT !.at = "joinPass"]) /\ UNCHANGED composeRows
              [] OTHER ->
                   IF task.job.made THEN Becomes(t, [clean EXCEPT !.at = "restore"]) /\ UNCHANGED composeRows
                   ELSE /\ composeRows' = Drop(composeRows, {task.id})
                        /\ Becomes(t, [clean EXCEPT !.at = "done"])
  /\ UNCHANGED <<runtimePorts, overrideFiles, strays>>

-----------------------------------------------------------------------------
(* The commands                                                             *)

\* The ports a new clone is given: the project runs again on hidden ports.
HiddenOn(ports) == [p \in ports |-> 2]
NewRow(job) ==
  [net |-> job.net, project |-> job.project, kind |-> job.row, status |-> "attached",
   ports |-> [p \in job.ports |-> [actual |-> IF p \in DOMAIN runtimePorts[job.project]
                                             THEN runtimePorts[job.project][p] ELSE 1, pid |-> Unrouted]]]

\* findEquivalentComposeAttachment
Equivalent(job) ==
  {i \in DOMAIN composeRows : LET r == composeRows[i] IN
     r.net = job.net /\ r.project = job.project /\ r.kind = job.row /\ job.ports \subseteq DOMAIN r.ports}

\* attachComposePublishedPorts: the checks, before the project is touched.  The
\* owner of the project is only asked for when its name is given.
attachComposePublishedPorts(c) ==
  /\ TaskAt(c, "asked")
  /\ LET task == composeTasks[c]
         job == task.job
         row == NewRow(job)
         i == CHOOSE x \in Equivalent(job) : TRUE
     IN  /\ job.kind = "attach"
         /\ IF Equivalent(job) # {}
            THEN /\ Becomes(c, [task EXCEPT !.at = "force1", !.id = i, !.row = composeRows[i]])
                 /\ UNCHANGED composeRows
            ELSE IF PortConflict(composeRows, job.id, row) \/ (job.named /\ OwnerConflict(composeRows, job.id, row))
            THEN Becomes(c, [task EXCEPT !.at = "done"]) /\ UNCHANGED composeRows
            ELSE IF job.row = "clone"
            THEN Becomes(c, [task EXCEPT !.at = "mutate", !.id = job.id]) /\ UNCHANGED composeRows
            ELSE IF CanAdd(composeRows, job.id, row)
            THEN /\ composeRows' = Put(composeRows, job.id, row)
                 /\ Becomes(c, [task EXCEPT !.at = "live", !.id = job.id, !.row = row])
            ELSE Throws(c, [task EXCEPT !.id = job.id])
  /\ UNCHANGED <<routeProcesses, routeView, runtimePorts, overrideFiles, composeTurns, strays>>

\* copyComposeAttachment attaches the ports of an attached row to another network: as a
\* clone, or as the endpoints of the project itself where its files are not known.
copyComposeAttachment(c) ==
  /\ TaskAt(c, "asked")
  /\ LET task == composeTasks[c]
         job == task.job
         known == job.from \in DOMAIN composeRows
         source == composeRows[job.from]
     IN  /\ job.kind = "copy"
         /\ Becomes(c, IF known /\ source.status = "attached" /\ source.net # job.net
                       THEN [task EXCEPT !.job.kind = "attach", !.job.ports = DOMAIN source.ports,
                                         !.job.project = IF job.row = "clone" THEN @ ELSE source.project]
                       ELSE [task EXCEPT !.at = "done"])
  /\ UNCHANGED <<composeRows, routeProcesses, routeView, runtimePorts, overrideFiles, composeTurns, strays>>

\* hidePublishedPorts makes a clone, restoreHiddenPortsOverride takes one that
\* runs; then the row is added.  The registry checks it again.
Mutate(c) ==
  /\ TaskAt(c, "mutate")
  /\ LET task == composeTasks[c]
         job == task.job
         fresh == ~job.existing
         row == [NewRow(job) EXCEPT !.ports = [p \in job.ports |->
                   [actual |-> IF fresh THEN HiddenOn(job.ports)[p] ELSE @[p].actual, pid |-> Unrouted]]]
         told == [task EXCEPT !.job.made = fresh, !.row = row]
     IN  \/ Hiccup /\ Becomes(c, [task EXCEPT !.at = "done"])
            /\ UNCHANGED <<composeRows, runtimePorts, overrideFiles, strays>>
         \/ /\ runtimePorts' = IF fresh THEN [runtimePorts EXCEPT ![job.project] = HiddenOn(job.ports)] ELSE runtimePorts
            /\ overrideFiles' = overrideFiles \cup {job.project}
            /\ \/ /\ Smoothly /\ CanAdd(composeRows, job.id, row)
                  /\ composeRows' = Put(composeRows, job.id, row)
                  /\ strays' = strays \ {job.project}
                  /\ Becomes(c, [told EXCEPT !.at = "live"])
               \/ /\ IF CanAdd(composeRows, job.id, row) THEN Hiccup ELSE Smoothly
                  /\ Throws(c, told) /\ UNCHANGED strays
  /\ UNCHANGED <<routeProcesses, routeView>>

\* The end of a failed attach: the clone it made is given back, the row goes.
UndoAttach(c) ==
  /\ TaskAt(c, "restore")
  /\ LET task == composeTasks[c] IN
     /\ \/ /\ Smoothly /\ UNCHANGED strays
           /\ runtimePorts' = [runtimePorts EXCEPT ![task.job.project] = <<>>]
        \/ Hiccup /\ strays' = strays \cup {task.job.project} /\ UNCHANGED runtimePorts
     /\ composeRows' = Drop(composeRows, {task.id})
     /\ Becomes(c, [task EXCEPT !.at = "done"])
  /\ UNCHANGED <<routeProcesses, routeView, overrideFiles>>

Released(c, task, row) ==
  /\ composeRows' = Drop(composeRows, {task.job.id})
  /\ Becomes(c, [task EXCEPT !.at = "released", !.id = task.job.id,
                             !.doomed = StaleProcesses(routeView, row, {})])

\* detachComposeAttachment leaves the project running.
detachComposeAttachment(c) ==
  /\ TaskAt(c, "asked")
  /\ LET task == composeTasks[c] IN
     /\ task.job.kind = "detach"
     /\ IF task.job.id \notin DOMAIN composeRows
        THEN Becomes(c, [task EXCEPT !.at = "done"]) /\ UNCHANGED <<composeRows, strays>>
        ELSE LET row == composeRows[task.job.id] IN
             Released(c, task, row) /\ strays' = IF row.kind = "clone" THEN strays \cup {row.project} ELSE strays
  /\ UNCHANGED <<routeProcesses, routeView, runtimePorts, overrideFiles, composeTurns>>

\* removeComposeAttachment and renameComposeAttachment hold the row they find.
TakeRow(c) ==
  /\ TaskAt(c, "asked")
  /\ LET task == composeTasks[c]
         job == task.job
         known == job.id \in DOMAIN composeRows
         row == composeRows[job.id]
     IN  /\ job.kind \in {"remove", "rename"}
         /\ IF known /\ job.kind = "remove" /\ row.kind # "clone" THEN Released(c, task, row)
            ELSE /\ UNCHANGED composeRows
                 /\ Becomes(c, IF known /\ row.kind = "clone"
                               THEN [task EXCEPT !.at = job.kind, !.id = job.id, !.row = row, !.job = Put(job, "was", row)]
                               ELSE [task EXCEPT !.at = "done"])
  /\ UNCHANGED <<routeProcesses, routeView, runtimePorts, overrideFiles, composeTurns, strays>>

\* removeComposeAttachment: the override is written anew and the row updated.
RewriteOverride(c) ==
  /\ TaskAt(c, "remove")
  /\ LET task == composeTasks[c]
         row == [task.row EXCEPT !.status = "attached"]
         known == CanUpdate(composeRows, task.id, row)
     IN  \/ /\ Smoothly /\ overrideFiles' = overrideFiles \cup {row.project}
            /\ WriteRow(task.id, row)
            /\ Becomes(c, [task EXCEPT !.row = row, !.at = IF known THEN "giveback" ELSE "done"])
         \/ /\ Hiccup /\ UNCHANGED overrideFiles
            /\ WriteRow(task.id, [task.row EXCEPT !.status = "error"])
            /\ Becomes(c, [task EXCEPT !.at = "done"])
  /\ UNCHANGED <<routeProcesses, routeView, runtimePorts, strays>>

\* ... and restorePublishedPorts: only then the row is removed.
GiveBack(c) ==
  /\ TaskAt(c, "giveback")
  /\ LET task == composeTasks[c] IN
     \/ /\ Smoothly /\ runtimePorts' = [runtimePorts EXCEPT ![task.row.project] = <<>>]
        /\ Released(c, task, task.row)
     \/ /\ Hiccup /\ UNCHANGED runtimePorts
        /\ WriteRow(task.id, [task.row EXCEPT !.status = "error"])
        /\ Becomes(c, [task EXCEPT !.at = "done"])
  /\ UNCHANGED <<routeProcesses, routeView, overrideFiles, strays>>

\* renameAttachedProject: the clone runs under its new name.
Rename(c) ==
  /\ TaskAt(c, "rename")
  /\ LET task == composeTasks[c]
         new == task.job.project
         hidden == HiddenOn(DOMAIN task.row.ports)
         row == [task.row EXCEPT !.project = new, !.status = "attached",
                   !.ports = [p \in DOMAIN @ |-> [actual |-> hidden[p], pid |-> Unrouted]]]
     IN  \/ /\ Smoothly
            /\ runtimePorts' = [runtimePorts EXCEPT ![task.row.project] = <<>>, ![new] = hidden]
            /\ overrideFiles' = overrideFiles \cup {new}
            /\ Becomes(c, [task EXCEPT !.at = "live", !.row = row]) /\ UNCHANGED composeRows
         \/ Hiccup /\ Throws(c, task) /\ UNCHANGED <<runtimePorts, overrideFiles>>
  /\ UNCHANGED <<routeProcesses, routeView, strays>>

-----------------------------------------------------------------------------
(* What happens outside                                                     *)

\* The daemon tells its rows, is lost and comes back without any, containers are
\* recreated, docker goes and comes, the backoff ends, a generated file is lost.
Broadcast ==
  /\ routeView # routeProcesses /\ routeView' = routeProcesses
  /\ UNCHANGED <<composeRows, routeProcesses, runtimePorts, overrideFiles, composeTasks, composeTurns, strays>>
Happens(event) == event \in composeTurns.events /\ composeTurns' = [composeTurns EXCEPT !.events = @ \ {event}]
DaemonRestarts ==
  /\ Happens("restart") /\ routeProcesses' = <<>>
  /\ UNCHANGED <<composeRows, routeView, runtimePorts, overrideFiles, composeTasks, strays>>
ContainersMove ==
  /\ \E project \in DOMAIN composeTurns.moves :
       /\ runtimePorts[project] # <<>> /\ runtimePorts' = [runtimePorts EXCEPT ![project] = composeTurns.moves[project]]
       /\ composeTurns' = [composeTurns EXCEPT !.moves = Drop(@, {project})]
  /\ UNCHANGED <<composeRows, routeProcesses, routeView, overrideFiles, composeTasks, strays>>
DockerStops ==
  /\ "outage" \in composeTurns.events
  /\ composeTurns' = [composeTurns EXCEPT !.events = @ \ {"outage"}, !.docker = FALSE]
DockerReturns == ~composeTurns.docker /\ composeTurns' = [composeTurns EXCEPT !.docker = TRUE]
BackoffEnds == composeTurns.backoff /\ composeTurns' = [composeTurns EXCEPT !.backoff = FALSE]
OverrideLost ==
  /\ Happens("cleaning") /\ overrideFiles' = {}
  /\ UNCHANGED <<composeRows, routeProcesses, routeView, runtimePorts, composeTasks, strays>>
Outside ==
  \/ Broadcast \/ DaemonRestarts \/ ContainersMove \/ OverrideLost
  \/ /\ DockerStops \/ DockerReturns \/ BackoffEnds
     /\ UNCHANGED <<composeRows, routeProcesses, routeView, runtimePorts, overrideFiles, composeTasks, strays>>

-----------------------------------------------------------------------------
CommandStep(c) ==
  \/ attachComposePublishedPorts(c) \/ copyComposeAttachment(c) \/ Mutate(c) \/ UndoAttach(c) \/ detachComposeAttachment(c) \/ TakeRow(c)
  \/ RewriteOverride(c) \/ GiveBack(c) \/ Rename(c) \/ JoinPass(c) \/ JoinConverge(c)
SharedStep(t) == ReadLive(t) \/ CheckOverride(t) \/ StartRoutes(t) \/ Register(t) \/ RemovalsEnd(t)

\* A pass is quiet while it alone writes, and nothing fails.
Quietly ==
  quietPass' =
    CASE TaskAt("pass", "idle") /\ composeTasks'["pass"].at = "refresh" ->
           /\ TaskAt("converge", "idle") /\ composeTasks'["pass"].forced
           /\ \A c \in Commands : composeTasks'[c].at \in {"asked", "done", "inPass"}
      [] ~TaskAt("pass", "idle") /\ composeTasks'["pass"] # composeTasks["pass"] ->
           quietPass /\ composeTurns'.faults = composeTurns.faults
      [] OTHER -> quietPass /\ UNCHANGED <<composeRows, routeProcesses, runtimePorts>>

AttachmentsNext ==
  /\ \/ ComposePassBegins \/ RefreshView \/ Outside
     \/ \E c \in Commands : CommandStep(c)
     \/ \E t \in DOMAIN composeTasks : SharedStep(t)
  /\ Quietly

AttachmentsInit(scene) ==
  /\ composeRows = scene.rows /\ routeProcesses = scene.processes /\ routeView = scene.processes
  /\ runtimePorts = scene.running /\ overrideFiles = scene.overrides
  /\ composeTasks = [t \in Shared \cup DOMAIN scene.jobs |->
       IF t \in Shared THEN IdleTask ELSE [IdleTask EXCEPT !.at = "asked", !.job = scene.jobs[t]]]
  /\ composeTurns = scene.turns /\ quietPass = FALSE /\ strays = scene.strays

-----------------------------------------------------------------------------
(* Properties                                                               *)

RowPids(row) == {row.ports[p].pid : p \in DOMAIN row.ports} \ {Unrouted}
Served(row) == IF LivePorts(row) = <<>> THEN Actuals(row.ports) ELSE LivePorts(row)

\* The rows have their types; a task removes processes only where it says so, and
\* never gives up the one it has just registered.
AttachmentsTypeOK ==
  /\ \A i \in DOMAIN composeRows : composeRows[i].status \in {"attached", "error"}
                                   /\ composeRows[i].kind \in {"plain", "clone", "adopted"}
  /\ \A t \in DOMAIN composeTasks : LET task == composeTasks[t] IN
       /\ task.doomed # {} => task.at \in Removals
       /\ task.at = "stale" => task.doomed \cap {task.got[p] : p \in DOMAIN task.got} = {}
  /\ DOMAIN routeProcesses \subseteq 1..composeTurns.lastId

\* No two rows of a network have a logical port in common and no project is in two
\* networks, although a command checks this, awaits docker for minutes, and adds its
\* row afterwards (addComposeAttachment and updateComposeAttachment check again).
RowsDoNotClash ==
  \A i \in DOMAIN composeRows :
    ~PortConflict(composeRows, i, composeRows[i]) /\ ~OwnerConflict(composeRows, i, composeRows[i])

\* After a pass that was not disturbed, the compose processes of the daemon are those
\* the attached rows name, and every live port of them leads to where its container
\* listens now; unless a container publishes a port of another row, which ends
\* every pass at its row.
PassAgrees ==
  LET attached == {i \in DOMAIN composeRows : Attached(composeRows[i])}
      clash == \E i, j \in DOMAIN composeRows :
                 /\ i # j /\ composeRows[i].net = composeRows[j].net
                 /\ DOMAIN Served(composeRows[i]) \cap DOMAIN composeRows[j].ports # {}
  IN  TaskAt("pass", "idle") /\ quietPass /\ ~clash =>
        /\ DOMAIN routeProcesses = UNION {RowPids(composeRows[i]) : i \in attached}
        /\ \A i \in attached : LET row == composeRows[i] IN
             \A p \in DOMAIN Served(row) :
               /\ p \in DOMAIN row.ports /\ row.ports[p].pid \in DOMAIN routeProcesses
               /\ routeProcesses[row.ports[p].pid] = RouteOf(row, p, Served(row)[p])

\* A clone that runs has a row it can be removed by, or a command that is undoing
\* it; else it was detached, its removal failed, or it was renamed.
CloneHasARow ==
  \A project \in composeTurns.clones :
    runtimePorts[project] = <<>> \/ project \in strays
    \/ (\E i \in DOMAIN composeRows : composeRows[i].project = project)
    \/ \E c \in Commands : composeTasks[c].job.project = project /\ composeTasks[c].at \in {"undo", "restore"}

\* "Publish replacement rows before deleting old rows": while a pass is not disturbed, a
\* port of an attached row that is served and routed stays routed, also while it is
\* moved to another container port.
NoEmptyWindow ==
  [][~TaskAt("pass", "idle") /\ quietPass' =>
       \A i \in DOMAIN composeRows : LET row == composeRows[i] IN
         Attached(row) /\ i \in DOMAIN composeRows' =>
           \A p \in DOMAIN Served(row) \cap DOMAIN row.ports : LET key == <<row.net, p>> IN
             (\E d \in DOMAIN routeProcesses : KeyOf(routeProcesses[d]) = key)
               => \E d \in DOMAIN routeProcesses' : KeyOf(routeProcesses'[d]) = key]_attachmentVars

\* The attachments and the routes of the daemon agree whenever a pass had the chance
\* to make them agree, no port is without route on the way, and no row or clone is lost.
AttachmentsAreRouted ==
  /\ [](AttachmentsTypeOK /\ RowsDoNotClash /\ PassAgrees /\ CloneHasARow)
  /\ NoEmptyWindow
=============================================================================
