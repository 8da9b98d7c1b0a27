----------------------- MODULE ComposePublishMutator -----------------------
(***************************************************************************)
(* ComposePublishMutator (src/platform/network/compose-publish-mutator.ts)  *)
(* and the two commands that call it (attachComposePublishedPorts and       *)
(* removeComposeAttachment of network-service.ts): a Compose project is     *)
(* rehomed into a hidden project, renamed there and restored, with one      *)
(* docker command after the other.  A command that fails may have taken     *)
(* effect all the same, as one that times out does.                         *)
(***************************************************************************)
EXTENDS Naturals

CONSTANTS NumVolumes  \* the volumes a clone copies

VARIABLES
  stack,     \* what the container runtime and the storage directory hold
  attached,  \* the mode of the persisted mutation, or "none"
  rowStatus, \* the status of its row
  job,       \* the method that runs, and how far it is
  repairing, \* a background repair of the override waits for the runtime
  faults     \* commands that may still fail, and what else may happen

mutatorVars == <<stack, attached, rowStatus, job, repairing, faults>>

NoJob == [kind |-> "none", at |-> "none", mode |-> "none", stopped |-> FALSE, started |-> FALSE,
          touched |-> FALSE, copied |-> FALSE]

HidesProject(mode) == mode \in {"clone", "copy"}

Fails == faults.commands > 0 /\ faults' = [faults EXCEPT !.commands = @ - 1, !.failed = @ + 1]

\* runCompose and runCommand: new is the effect of the command.
Runs(new, then, catch) ==
  \/ stack' = new /\ job' = then /\ UNCHANGED faults
  \/ /\ Fails
     /\ stack' \in IF faults.late THEN {stack, new} ELSE {stack}
     /\ job' = catch

\* A command on the hidden project names the override file, and fails without.
RunsHidden(new, then, catch) ==
  IF stack.override THEN Runs(new, then, catch)
  ELSE job' = catch /\ UNCHANGED <<stack, faults>>

\* .catch(() => undefined)
Tries(new, then) == Runs(new, then, then)
TriesHidden(new, then) == RunsHidden(new, then, then)

At(step) == [job EXCEPT !.at = step]
Rows == UNCHANGED <<attached, rowStatus, repairing>>

-----------------------------------------------------------------------------
\* attachComposePublishedPorts reaches hidePublishedPorts, which throws on what
\* it reads before it writes the override: no file, no service, a stateful clone
\* nobody confirmed, a project name in use.
hidePublishedPorts(mode) ==
  /\ job = NoJob /\ attached = "none" /\ faults.attaches > 0 /\ stack.hidden = "absent"
  /\ stack' = [stack EXCEPT !.override = TRUE, !.volumes = 0]
  /\ job' = [NoJob EXCEPT !.kind = "hide", !.mode = mode, !.at = "assert"]
  /\ faults' = [faults EXCEPT !.attaches = @ - 1] /\ Rows

\* assertHiddenPublishPortsAvailable, and a taken port is a failure.
AssertPorts ==
  /\ job.kind = "hide" /\ job.at = "assert" /\ Runs(stack, At("stop"), At("catch")) /\ Rows

StopOriginal ==
  /\ job.kind = "hide" /\ job.at = "stop" /\ Rows
  /\ IF job.mode = "clone"
     THEN Runs([stack EXCEPT !.original = "down"],
               [job EXCEPT !.at = "volumes", !.stopped = TRUE], At("catch"))
     ELSE job' = At("volumes") /\ UNCHANGED <<stack, faults>>

\* copyVolumes creates and fills one volume after the other.
copyVolumes ==
  /\ job.kind = "hide" /\ job.at = "volumes" /\ Rows
  /\ IF HidesProject(job.mode) /\ stack.volumes < NumVolumes
     THEN Runs([stack EXCEPT !.volumes = @ + 1], job, At("catch"))
     ELSE /\ job' = [job EXCEPT !.at = "up", !.copied = HidesProject(job.mode)]
          /\ UNCHANGED <<stack, faults>>

\* compose up of the services with routes; a copy of a stopped project has none,
\* and its services are only created.
HiddenUp(mode) ==
  IF mode = "in-place" THEN [stack EXCEPT !.original = "rehomed"]
  ELSE [stack EXCEPT !.hidden = "up"]

\* Without hiddenProjectTouched: only a successful up counts.
StartHiddenUntouched ==
  /\ job.kind = "hide" /\ job.at = "up" /\ Rows
  /\ \/ RunsHidden(HiddenUp(job.mode), [job EXCEPT !.at = "resolve", !.started = TRUE], At("catch"))
     \/ /\ job.mode = "copy"
        /\ RunsHidden([stack EXCEPT !.hidden = "stopped"],
                      [job EXCEPT !.at = "resolve", !.started = TRUE], At("catch"))

StartHidden ==
  /\ job.kind = "hide" /\ job.at = "up" /\ Rows
  /\ LET touched == [job EXCEPT !.touched = HidesProject(job.mode)]
     IN  \/ RunsHidden(HiddenUp(job.mode), [touched EXCEPT !.at = "resolve", !.started = TRUE],
                       [touched EXCEPT !.at = "catch"])
         \/ /\ job.mode = "copy"
            /\ RunsHidden([stack EXCEPT !.hidden = "stopped"],
                          [job EXCEPT !.at = "resolve", !.started = TRUE], At("catch"))

\* resolveHiddenPortsAfterComposeUp and assertHiddenPortsAreIsolated; then the
\* caller adds the row.
resolveHiddenPortsAfterComposeUp ==
  /\ job.kind = "hide" /\ job.at = "resolve"
  /\ \/ /\ stack' = stack /\ job' = NoJob /\ UNCHANGED faults
        /\ attached' = job.mode /\ rowStatus' = "attached" /\ UNCHANGED repairing
     \/ /\ Fails
        /\ job' = At("catch") /\ UNCHANGED stack /\ Rows

\* The catch block: down, up of what was stopped, the volumes, the override.
UndoHidden ==
  /\ job.kind = "hide" /\ job.at = "catch" /\ Rows
  /\ IF (job.touched \/ job.started) /\ HidesProject(job.mode)
     THEN TriesHidden([stack EXCEPT !.hidden = "absent"], At("undo-original"))
     ELSE job' = At("undo-original") /\ UNCHANGED <<stack, faults>>

UndoOriginal ==
  /\ job.kind = "hide" /\ job.at = "undo-original" /\ Rows
  /\ IF job.stopped \/ (job.started /\ job.mode = "in-place")
     THEN Tries([stack EXCEPT !.original = "up"], At("undo-files"))
     ELSE job' = At("undo-files") /\ UNCHANGED <<stack, faults>>

UndoFiles ==
  /\ job.kind = "hide" /\ job.at = "undo-files" /\ Rows /\ UNCHANGED faults
  /\ stack' = [stack EXCEPT !.override = FALSE, !.volumes = IF job.copied THEN 0 ELSE @]
  /\ job' = NoJob

-----------------------------------------------------------------------------
\* removeComposeAttachment first rewrites the override: restoreHiddenPortsOverride
\* asks the runtime for the services and writes the file.
removeComposeOf ==
  /\ job = NoJob /\ attached # "none" /\ faults.removes > 0
  /\ faults' = [faults EXCEPT !.removes = @ - 1]
  /\ job' = [NoJob EXCEPT !.kind = "remove", !.mode = attached, !.at = "override"]
  /\ UNCHANGED <<stack, attached, rowStatus, repairing>>

restoreHiddenPortsOverride ==
  /\ job.kind = "remove" /\ job.at = "override" /\ Rows
  /\ Runs([stack EXCEPT !.override = TRUE], At("restore"), At("failed"))

\* attachComposePublishedPorts fails after the mutation (the hosts, the registry
\* or the daemon) and gives it back without a row.
attachFails ==
  /\ job = NoJob /\ attached # "none" /\ rowStatus = "attached" /\ faults.attachFails > 0
  /\ faults' = [faults EXCEPT !.attachFails = @ - 1, !.failed = @ + 1]
  /\ job' = [NoJob EXCEPT !.kind = "giveback", !.mode = attached, !.at = "restore"]
  /\ UNCHANGED <<stack, attached, rowStatus, repairing>>

Restoring == job.kind \in {"remove", "giveback"}

\* restorePublishedPorts.  A clone is stopped, the original starts, the clone
\* goes; a copy is stopped and goes; an in-place project is started as it was.
RestoreBegins ==
  /\ Restoring /\ job.at = "restore" /\ Rows
  /\ IF job.mode = "in-place"
     THEN Runs([stack EXCEPT !.original = "up"], At("rm"), At("rehome"))
     ELSE RunsHidden([stack EXCEPT !.hidden = "stopped"],
                     [job EXCEPT !.at = IF job.mode = "copy" THEN "down" ELSE "original",
                                 !.stopped = TRUE], At("failed"))

RestoreOriginal ==
  /\ Restoring /\ job.at = "original" /\ Rows
  /\ Runs([stack EXCEPT !.original = "up"], At("down"), At("restart"))

RestoreDown ==
  /\ Restoring /\ job.at = "down" /\ Rows
  /\ RunsHidden([stack EXCEPT !.hidden = "absent"], At("rm"), At("restart"))

\* The catch blocks: the clone, or the rehomed project, is started again.
RestoreUndone ==
  /\ Restoring /\ job.at \in {"restart", "rehome"} /\ Rows
  /\ IF job.at = "rehome"
     THEN TriesHidden([stack EXCEPT !.original = "rehomed"], At("failed"))
     ELSE TriesHidden([stack EXCEPT !.hidden = IF @ = "stopped" THEN "up" ELSE @], At("failed"))

\* The override goes with the row; after a failure the row stays with an error,
\* unless the attach gives up.
RestoreEnds ==
  /\ Restoring /\ job.at \in {"rm", "failed"} /\ job' = NoJob /\ UNCHANGED <<repairing, faults>>
  /\ stack' = IF job.at = "rm" THEN [stack EXCEPT !.override = FALSE] ELSE stack
  /\ IF job.at = "rm" \/ job.kind = "giveback" THEN attached' = "none" /\ rowStatus' = "none"
     ELSE rowStatus' = "error" /\ UNCHANGED attached

-----------------------------------------------------------------------------
\* renameAttachedProject of renameComposeAttachment: what it reads fails early,
\* then the override of the new project is written.
renameAttachedProject ==
  /\ job = NoJob /\ attached = "clone" /\ faults.renames > 0 /\ stack.next = "absent"
  /\ faults' = [faults EXCEPT !.renames = @ - 1, !.renamed = TRUE]
  /\ job' = [NoJob EXCEPT !.kind = "rename", !.mode = attached, !.at = "stop"]
  /\ UNCHANGED <<stack, attached, rowStatus, repairing>>

RenameStop ==
  /\ job.kind = "rename" /\ job.at = "stop" /\ Rows
  /\ RunsHidden([stack EXCEPT !.hidden = "stopped"],
                [job EXCEPT !.at = "up", !.stopped = TRUE], At("undo"))

\* up and resolveHiddenPortsAfterComposeUp
RenameUp ==
  /\ job.kind = "rename" /\ job.at \in {"up", "resolve"} /\ Rows
  /\ IF job.at = "up"
     THEN Runs([stack EXCEPT !.next = "up"],
               [job EXCEPT !.at = "resolve", !.started = TRUE], At("undo"))
     ELSE Runs(stack, At("down"), At("undo"))

\* The old project goes, whether or not its down succeeds.
RenameDone ==
  /\ job.kind = "rename" /\ job.at = "down"
  /\ \E removed \in BOOLEAN :
       /\ IF removed THEN UNCHANGED faults ELSE Fails
       /\ stack' = [stack EXCEPT !.hidden = "up", !.next = "absent", !.override = TRUE,
                                 !.strays = IF removed THEN @ ELSE @ + 1]
  /\ job' = NoJob /\ rowStatus' = "attached" /\ UNCHANGED <<attached, repairing>>

\* The catch block: the new project goes, the old one starts again.
RenameUndo ==
  /\ job.kind = "rename" /\ job.at \in {"undo", "undo-start"}
  /\ \/ /\ job.at = "undo" /\ Rows
        /\ IF job.started THEN Tries([stack EXCEPT !.next = "absent"], At("undo-start"))
           ELSE job' = At("undo-start") /\ UNCHANGED <<stack, faults>>
     \/ /\ job.at = "undo-start" /\ rowStatus' = "error" /\ UNCHANGED <<attached, repairing>>
        /\ IF job.stopped THEN TriesHidden([stack EXCEPT !.hidden = "up"], NoJob)
           ELSE job' = NoJob /\ UNCHANGED <<stack, faults>>

-----------------------------------------------------------------------------
\* reconcileComposeOverrideFileForAttachment, in the background: it asks the
\* runtime for what the row says and writes the file when the answer comes.
RepairBegins ==
  /\ ~repairing /\ attached # "none" /\ faults.repairs > 0
  /\ faults' = [faults EXCEPT !.repairs = @ - 1] /\ repairing' = TRUE
  /\ UNCHANGED <<stack, attached, rowStatus, job>>

\* Without the runtime a readable override is left as it is, and the row too.
RepairEnds ==
  /\ repairing /\ repairing' = FALSE /\ UNCHANGED <<attached, job>>
  /\ \/ /\ stack' = [stack EXCEPT !.override = TRUE] /\ UNCHANGED faults
        /\ rowStatus' = IF attached = "none" THEN rowStatus ELSE "attached"
     \/ /\ Fails
        /\ rowStatus' = IF attached = "none" \/ stack.override THEN rowStatus ELSE "error"
        /\ UNCHANGED stack

\* VS Code's globalStorage is cleaned, while no command runs.
StorageCleaned ==
  /\ faults.cleanings > 0 /\ stack.override /\ job = NoJob
  /\ faults' = [faults EXCEPT !.cleanings = @ - 1]
  /\ stack' = [stack EXCEPT !.override = FALSE]
  /\ UNCHANGED <<attached, rowStatus, job, repairing>>

-----------------------------------------------------------------------------
MutatorStep ==
  \/ AssertPorts \/ StopOriginal \/ copyVolumes \/ StartHidden \/ resolveHiddenPortsAfterComposeUp
  \/ UndoHidden \/ UndoOriginal \/ UndoFiles \/ restoreHiddenPortsOverride \/ RestoreBegins
  \/ RestoreOriginal \/ RestoreDown \/ RestoreUndone \/ RestoreEnds
  \/ RenameStop \/ RenameUp \/ RenameDone \/ RenameUndo \/ RepairEnds

MutatorNext ==
  \/ MutatorStep
  \/ \E mode \in {"clone", "copy", "in-place"} : hidePublishedPorts(mode)
  \/ removeComposeOf \/ attachFails \/ renameAttachedProject \/ RepairBegins \/ StorageCleaned

MutatorInit(scene) ==
  /\ stack = [original |-> "up", hidden |-> "absent", next |-> "absent", override |-> FALSE,
              volumes |-> 0, strays |-> 0]
  /\ attached = "none" /\ rowStatus = "none" /\ job = NoJob /\ repairing = FALSE
  /\ faults = scene

-----------------------------------------------------------------------------
\* The original is only ever down for a clone, and a job belongs to the mode of
\* the row it works on.
MutatorTypeOK ==
  /\ stack.original \in {"up", "down", "rehomed"} /\ stack.volumes \in 0..NumVolumes
  /\ stack.hidden \in {"absent", "up", "stopped"} /\ stack.next \in {"absent", "up"}
  /\ stack.original = "down" => job.mode = "clone" \/ attached = "clone" \/ faults.failed > 0
  /\ attached # "none" /\ job # NoJob => job.mode = attached

\* "If the original cannot start, the hidden clone is restarted so the attachment
\* remains testable and removable": whatever single command fails, between two
\* commands of the user a row has its project running, and without a row the
\* original is up.
OneProjectServes ==
  job = NoJob /\ ~faults.late /\ faults.failed <= 1 =>
    CASE attached = "none" -> stack.original = "up"
      [] attached = "in-place" -> stack.original = "rehomed"
      [] attached = "clone" -> stack.hidden = "up"
      [] OTHER -> stack.hidden # "absent"

\* An attach that fails leaves no hidden project running, also when the command
\* that failed had taken effect.
FailedAttachLeavesNothing ==
  job = NoJob /\ attached = "none" /\ faults.failed <= 1 => stack.hidden # "up"

\* A cleaned storage directory does not keep a row from being removed: a
\* row shows an error only when a command has failed.  (A rename does not write
\* the override first, and needs a repair before it.)
RemovableAfterCleaning ==
  rowStatus = "error" => faults.failed > 0 \/ faults.renamed

\* An attachment is made, or undone, whole: some project serves after any one failure,
\* a failed attach leaves no clone behind, and a row stays removable.
AttachIsAllOrNothing ==
  /\ MutatorTypeOK
  /\ OneProjectServes
  /\ FailedAttachLeavesNothing
  /\ RemovableAfterCleaning
=============================================================================
