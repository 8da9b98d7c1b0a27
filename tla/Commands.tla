------------------------------ MODULE Commands ------------------------------
(***************************************************************************)
(* The commands of the extension (src/extension/commands.ts).  A handler is *)
(* a sequence of prompts and service calls, with an await at each of them;  *)
(* a definition below lists the ways a handler can go, in its order.  The   *)
(* user may cancel every prompt, a call may fail, and the catch block of    *)
(* registerCommand turns an error into a message.  While a prompt is open   *)
(* another window removes rows or takes the control-plane lease.            *)
(***************************************************************************)
EXTENDS Naturals, Sequences, FiniteSets

CONSTANTS
    DrawnRows,      \* the rows of the sidebar when the command is invoked
    NewRowId          \* the id of the row a command adds

VARIABLES
    rows,           \* the rows that exist
    leaseOf,        \* who holds the control-plane lease: "me", "other" or "nobody"
    invoked,        \* the run of the command
    meddling        \* how often another window may still interfere

commandVars == <<rows, leaseOf, invoked, meddling>>

\* A row, and the ids of the network and the terminal window it belongs to.
Row(kind, id, of) == [kind |-> kind, id |-> id, of |-> of]

(***************************************************************************)
(* The steps of a handler.                                                  *)
(***************************************************************************)
Owner == [do |-> "owner", what |-> "lease"]
IfOwner == [do |-> "if owner", what |-> "lease"]
Pick(kind) == [do |-> "pick", what |-> kind]
Take(kind) == [do |-> "take", what |-> kind]
Ask(what) == [do |-> "ask", what |-> what]
Confirm == [do |-> "confirm", what |-> "the rows picked"]
Calls(op) == [do |-> "call", what |-> op]
CallsOr(op, fallback) == [do |-> "call", what |-> op, fallback |-> fallback]

resolveProcessArgument == Pick("process")
resolveNetworkArgument == Pick("network")
resolveTerminalWindowArgument == Take("window")
resolveActiveTerminalWindow == Pick("window")
resolveContainerServiceCandidateArgument == Pick("candidate")
resolveTerminalAttachmentArgument == Pick("attachment")
resolveExposureArgument == Pick("exposure")
resolveHostAccessBindingArgument == Pick("binding")
resolveComposeAttachmentArgument == Pick("compose")
resolveComposeAttachmentForCopy == Pick("compose of another network")
resolveComposeCopyTargetNetwork == Pick("another network")
resolveProcessAttachTarget == <<Calls("start"), Ask("pid or port")>>
promptForPort == Ask("port")
promptForInteger == Ask("pid")
promptForInjectionMode == Ask("injection mode")
promptForRuntimeKind == Ask("runtime")
promptForComposeProjectName == Ask("project name")
promptForComposeAttachMode == Ask("attach mode")
confirmStatefulComposeClone == Confirm

(***************************************************************************)
(* The handlers.                                                            *)
(***************************************************************************)
createLogicalNetwork ==
    {<<Owner, Calls("ensureContainerRuntimeDetected"), promptForRuntimeKind, Ask("name"),
       Calls("createNetwork")>>}
removeLogicalNetwork ==
    {<<Owner, resolveNetworkArgument, Confirm, Calls("removeNetwork")>>}
refreshTerminals == {<<Owner, Calls("refresh")>>}
refreshContainerServices == {<<Owner, Calls("refresh"), Calls("refresh")>>}
openNetworkTerminal ==
    {<<Owner, resolveNetworkArgument, Calls("createTerminalRoutingScript")>>}
openNetworkSettings ==
    {<<resolveNetworkArgument, Ask("folder"), Calls("scaffold")>>,
     <<resolveNetworkArgument, Calls("scaffold")>>}

\* What is offered when the terminal could not be written to.
offerTerminalRoutingScriptFallback ==
    <<Ask("copy script"), Calls("createTerminalRoutingScript")>>

attachTerminalToNetwork ==
    {<<Owner, resolveTerminalWindowArgument, Take("network"),
       CallsOr("attachTerminalWindow", offerTerminalRoutingScriptFallback)>>}
attachActiveTerminalToNetwork ==
    {<<Owner, resolveNetworkArgument, resolveActiveTerminalWindow,
       CallsOr("attachTerminalWindow", offerTerminalRoutingScriptFallback)>>}
attachProcessToNetwork ==
    {<<Owner, network>> \o resolveProcessAttachTarget \o <<Calls("attachProcessToNetwork")>> :
        network \in {Take("network"), resolveNetworkArgument}}
attachVscodeWindowTerminalsToNetwork ==
    {<<resolveNetworkArgument, Calls("attachVscodeWindowTerminalsToNetwork")>>}
detachVscodeWindowTerminalsFromNetwork ==
    {<<Calls("detachVscodeWindowTerminalsFromNetwork")>>}
copyTerminalRoutingScript ==
    {<<Owner, resolveNetworkArgument, Calls("createTerminalRoutingScript")>>}

\* A clone of a stateful service has to be confirmed; the other ways to
\* attach a service leave its containers or its data alone.
attachContainerToNetwork ==
    LET start == <<Owner, resolveContainerServiceCandidateArgument, Take("network")>>
        mode == <<promptForComposeAttachMode>>
        name == <<promptForComposeProjectName>>
        attach == <<Calls("attachComposePublishedPorts")>>
        stateful == <<confirmStatefulComposeClone>>
        clone == <<Calls("cloneStatefulService")>>
    IN  {start \o attach, start \o mode \o attach, start \o mode \o name \o attach,
         start \o mode \o stateful \o clone, start \o mode \o stateful \o name \o clone}

resetTerminalNetworkSettings ==
    {<<Owner, Take("attachment"), Calls("detachTerminal")>>,
     <<Owner, Take("attachment"), Calls("resetTerminalNetworkSettings")>>,
     <<Owner, resolveTerminalWindowArgument, Calls("resetTerminalNetworkSettings")>>}
resolveTerminalWindowForReveal == {Take("window"), Pick("attachment")}
revealTerminalWindow ==
    {<<Owner, resolve, Calls("revealTerminalWindow")>> : resolve \in resolveTerminalWindowForReveal}
detachTerminalFromNetwork ==
    {<<Owner, resolveTerminalAttachmentArgument, Calls("detachTerminal")>>}
addHostPortExposure ==
    {<<Owner, resolveNetworkArgument, Ask("address"), promptForPort, Ask("target"), promptForPort,
       Calls("start"), Calls("createExposure")>>}
addHostAccessBinding ==
    {<<Owner, resolveNetworkArgument, promptForPort, Ask("address"), promptForPort,
       Calls("createHostAccessBinding")>>}
addComposePublishedPort ==
    {<<Owner, resolveNetworkArgument, Ask("project"), Ask("service"), promptForPort,
       Ask("address"), promptForPort, Calls("attachComposePublishedPorts")>>}
copyComposeAttachmentCommand ==
    {<<Owner, Pick("compose"), resolveComposeCopyTargetNetwork, Calls("copyComposeAttachment")>>,
     <<Owner, Take("network"), resolveComposeAttachmentForCopy, Calls("copyComposeAttachment")>>}
detachComposeAttachmentCommand ==
    {<<Owner, resolveComposeAttachmentArgument, Calls("detachComposeAttachment")>>}
renameComposeAttachment ==
    {<<Owner, resolveComposeAttachmentArgument, promptForComposeProjectName,
       Calls("renameComposeAttachment")>>}
removeComposeAttachment ==
    {<<Owner, resolveComposeAttachmentArgument, Calls("removeComposeAttachment")>>}
removeHostPortExposure == {<<Owner, resolveExposureArgument, Calls("removeExposure")>>}
removeHostAccessBinding ==
    {<<Owner, resolveHostAccessBindingArgument, Calls("removeHostAccessBinding")>>}
saveBindingPreset ==
    {<<Owner, resolveNetworkArgument, Ask("name"), Calls("saveBindingPreset")>>}

\* The bindings of a preset are created first, and then its exposures.
applyBindingPreset ==
    LET start == <<Owner, resolveNetworkArgument, Ask("preset")>>
    IN  {start \o <<Calls("createHostAccessBinding")>>,
         start \o <<Calls("createHostAccessBinding"), Calls("createExposure")>>}
copyHostPortExposureUrl == {<<resolveExposureArgument>>}
openHostPortExposureUrl == {<<resolveExposureArgument, Calls("openBrowserUrl")>>}

restartDaemonConfirmed ==
    <<Calls("restartDaemon"), Calls("resetAllTerminalNetworkSettings")>>
startDaemon ==
    {<<Calls("start")>>, <<Calls("start"), Confirm, Owner>> \o restartDaemonConfirmed}
restartDaemon == {<<Owner, Confirm>> \o restartDaemonConfirmed}
stopDaemon == {<<Owner, Confirm, Calls("stopDaemon")>>}
showDaemonStatus == {<<Calls("refresh")>>}
fixStaleRouting == {<<Owner, Calls("fixStaleRouting"), Calls("refresh")>>}
clearRoutingFiles == {<<Owner, Confirm, Calls("clearRoutingFiles"), Calls("refresh")>>}
clearGlobalStorageFiles ==
    {<<Owner, Confirm, Calls("clearGlobalStorageFiles"), Calls("refresh")>>}
clearNetworkCache ==
    {<<Owner, resolveNetworkArgument, Confirm, Calls("clearNetworkRoutingFiles"),
       Calls("refresh")>>}

startFromProfile == <<Calls("startManagedProcess"), Calls("openBrowserUrl")>>
startManagedProcess ==
    {<<Owner, Ask("command"), promptForPort, Ask("directory"), promptForInjectionMode, Ask("name")>>
         \o startFromProfile}
addExistingProcess ==
    {<<Owner, promptForInteger, promptForPort, promptForPort, Ask("name"),
       Calls("registerExistingProcess")>>}
refreshAll == {<<Owner, Calls("refresh"), Calls("refresh")>>}
stopProcess == {<<Owner, resolveProcessArgument, Calls("stopProcess")>>}
restartProcessCommand ==
    {<<Owner, resolveProcessArgument, Calls("restartProcess"), Calls("openBrowserUrl")>>}
stopAllProcesses == {<<Owner>>, <<Owner, Calls("stopProcess"), Calls("stopProcess")>>}
copyRoutedUrl == {<<resolveProcessArgument, Calls("getBrowserIsolatedUrl")>>}
openRoutedUrl ==
    {<<resolveProcessArgument, Calls("getBrowserIsolatedUrl"), Calls("openBrowserUrl")>>}
removeProcess == {<<Owner, resolveProcessArgument, Calls("removeProcess")>>}

installBrowserDnsResolvers == {<<Owner, Calls("installBrowserDnsResolvers")>>}
\* A repair that fails without privileges offers the privileged one.
repairLocalDns ==
    {<<Owner, CallsOr("repairLocalDns", <<Confirm, Calls("repairLocalDns with privileges")>>)>>}
renewBrowserTlsCertificate == {<<Owner, Calls("renewBrowserTlsCertificate")>>}
repairBrowserDnsRecord == {<<Owner, Calls("repairBrowserDnsAlias")>>}
cleanupBrowserDnsResolvers == {<<Owner, Calls("cleanupBrowserDnsResolvers")>>}
installExternalCli == {<<Calls("write shim"), Ask("copy")>>}
installShellHook ==
    {<<Calls("writeShellHookAssets"), Calls("upsertManagedShellProfile"), Ask("copy")>>}
restoreShellProfiles ==
    {<<Confirm, Calls("writeShellHookAssets"), Calls("restoreManagedShellProfile")>>}
switchControlOwnerToThisWindow == {<<Owner, Calls("refresh")>>, <<Owner>>}
showStatusMenu ==
    {<<Ask("action")>> \o way :
        way \in {<<>>, <<Calls("refresh"), Calls("refresh")>>}
                  \union attachVscodeWindowTerminalsToNetwork
                  \union detachVscodeWindowTerminalsFromNetwork
                  \union switchControlOwnerToThisWindow}
    \union {<<IfOwner, Ask("action"), resolveTerminalAttachmentArgument, Calls("detachTerminal")>>}

\* What register binds to the ids of package.json.
Registered ==
    createLogicalNetwork \union removeLogicalNetwork \union refreshTerminals
    \union refreshContainerServices \union openNetworkTerminal \union openNetworkSettings
    \union attachTerminalToNetwork \union attachActiveTerminalToNetwork
    \union attachProcessToNetwork \union attachVscodeWindowTerminalsToNetwork
    \union detachVscodeWindowTerminalsFromNetwork \union copyTerminalRoutingScript
    \union attachContainerToNetwork \union detachTerminalFromNetwork \union revealTerminalWindow
    \union resetTerminalNetworkSettings \union addHostPortExposure \union addHostAccessBinding
    \union addComposePublishedPort \union copyComposeAttachmentCommand
    \union detachComposeAttachmentCommand \union renameComposeAttachment
    \union removeComposeAttachment \union saveBindingPreset \union applyBindingPreset
    \union removeHostAccessBinding \union removeHostPortExposure \union copyHostPortExposureUrl
    \union openHostPortExposureUrl \union startDaemon
    \union restartDaemon \union stopDaemon \union showDaemonStatus \union fixStaleRouting
    \union clearRoutingFiles \union clearGlobalStorageFiles \union clearNetworkCache
    \union startManagedProcess \union addExistingProcess \union refreshAll \union showStatusMenu
    \union stopProcess \union restartProcessCommand \union stopAllProcesses \union copyRoutedUrl
    \union openRoutedUrl \union removeProcess \union installBrowserDnsResolvers
    \union repairLocalDns \union cleanupBrowserDnsResolvers \union renewBrowserTlsCertificate
    \union repairBrowserDnsRecord \union installShellHook \union restoreShellProfiles
    \union installExternalCli \union switchControlOwnerToThisWindow

(***************************************************************************)
(* What the services do with a call: whether it needs the lease, the kinds  *)
(* of picked rows it looks up first, and the kind it adds or removes.       *)
(***************************************************************************)
Leased == {"createNetwork", "removeNetwork", "createExposure", "removeExposure",
           "attachComposePublishedPorts", "cloneStatefulService", "copyComposeAttachment",
           "detachComposeAttachment", "renameComposeAttachment", "removeComposeAttachment",
           "attachTerminalWindow"}
Requires(op) ==
    CASE op = "attachTerminalWindow" -> {"network", "window"}
      [] op = "copyComposeAttachment" -> {"network", "compose"}
      [] op = "resetTerminalNetworkSettings" -> {"window"}
      [] op \in {"createExposure", "createHostAccessBinding", "attachComposePublishedPorts",
                 "cloneStatefulService", "attachProcessToNetwork", "createTerminalRoutingScript",
                 "attachVscodeWindowTerminalsToNetwork", "saveBindingPreset",
                 "clearNetworkRoutingFiles"} -> {"network"}
      [] OTHER -> {}
Adds(op) ==
    CASE op = "createNetwork" -> {"network"}
      [] op = "createExposure" -> {"exposure"}
      [] op = "createHostAccessBinding" -> {"binding"}
      [] op \in {"attachComposePublishedPorts", "cloneStatefulService", "copyComposeAttachment"} ->
            {"compose"}
      [] op \in {"attachTerminalWindow", "attachProcessToNetwork"} -> {"attachment"}
      [] op \in {"startManagedProcess", "registerExistingProcess"} -> {"process"}
      [] OTHER -> {}
Removes(op) ==
    CASE op = "removeNetwork" -> {"network"}
      [] op = "removeExposure" -> {"exposure"}
      [] op = "removeHostAccessBinding" -> {"binding"}
      [] op \in {"detachComposeAttachment", "removeComposeAttachment"} -> {"compose"}
      [] op = "detachTerminal" -> {"attachment"}
      [] op = "removeProcess" -> {"process"}
      [] OTHER -> {}

\* These change the registry before they return to the event loop.
Synchronous ==
    {"createHostAccessBinding", "removeHostAccessBinding", "saveBindingPreset", "scaffold"}

\* What cannot be undone, or changes the machine, is asked for once more.
Drastic == {"removeNetwork", "cloneStatefulService", "restartDaemon", "stopDaemon",
            "clearRoutingFiles", "clearGlobalStorageFiles", "clearNetworkRoutingFiles",
            "repairLocalDns with privileges", "restoreManagedShellProfile"}

(***************************************************************************)
(* The registry.                                                            *)
(***************************************************************************)
Picked(kind) == {r \in invoked.picks : r.kind = kind}
IdsOf(rs) == {r.id : r \in rs}
Within(rs) == {r \in rows : r.of \intersect IdsOf(rs) # {}}

\* A network is removed with the rows that belong to it, and a reset takes the
\* attachments of its terminal window or, after a restart, all of them.
RemovedBy(op) ==
    LET picked == UNION {Picked(kind) : kind \in Removes(op)}
    IN  CASE op = "removeNetwork" -> picked \union Within(picked)
          [] op = "resetTerminalNetworkSettings" ->
                {r \in Within(Picked("window")) : r.kind = "attachment"} \union Picked("attachment")
          [] op = "resetAllTerminalNetworkSettings" -> {r \in rows : r.kind = "attachment"}
          [] OTHER -> picked

AddedBy(op) ==
    LET owners == IdsOf(Picked("network") \union Picked("window"))
    IN  {Row(kind, NewRowId, IF kind \in {"network", "process"} THEN {} ELSE owners) :
            kind \in Adds(op)}

\* The registry refuses a row of a network that is gone by now.
AdmitsEveryRow(op) == TRUE
AdmitsRow(op) == Adds(op) \subseteq {"network", "process"} \/ Picked("network") \subseteq rows

(***************************************************************************)
(* A run.                                                                   *)
(***************************************************************************)
Idle == [todo |-> <<>>, argument |-> {}, picks |-> {}, agreed |-> {}, asked |-> FALSE,
         calling |-> "nothing", said |-> "nothing"]

Step == Head(invoked.todo)
Doing(kind) == invoked.todo # <<>> /\ invoked.calling = "nothing" /\ Step.do = kind
Says(what) == [Idle EXCEPT !.said = what]
CommandGoes(run) ==
    IF Len(run.todo) = 1 THEN Says("done") ELSE [run EXCEPT !.todo = Tail(@), !.calling = "nothing"]

CommandsInit(scene) ==
    /\ rows = scene.rows
    /\ leaseOf = scene.lease
    /\ meddling = scene.meddling
    /\ invoked = IF scene.rows = {} THEN Says("done") ELSE Idle

\* A command comes from the palette, or from a row that was drawn earlier.
\* Other extensions pass two rows at once.
Invoke ==
    /\ invoked = Idle
    /\ \E way \in Registered, argument \in SUBSET DrawnRows :
        /\ Cardinality(argument) <= 2
        /\ \A r, q \in argument :
              r # q => {r.kind, q.kind} \in {{"window", "network"}, {"candidate", "network"}}
        /\ \A r \in argument : \E i \in 1..Len(way) : way[i].what = r.kind
        /\ invoked' = [Idle EXCEPT !.todo = way, !.argument = argument]
    /\ UNCHANGED <<rows, leaseOf, meddling>>

\* A window that does not hold the lease takes it, or says that it could not.
ensureControlPlaneOwnerForCommand ==
    /\ Doing("owner")
    /\ \/ leaseOf' = "me" /\ invoked' = CommandGoes(invoked)
       \/ leaseOf # "me" /\ invoked' = Says("no lease") /\ UNCHANGED leaseOf
    /\ UNCHANGED <<rows, meddling>>

LooksWhetherOwner ==
    /\ Doing("if owner")
    /\ invoked' = IF leaseOf = "me" THEN CommandGoes(invoked) ELSE Says("done")
    /\ UNCHANGED <<rows, leaseOf, meddling>>

\* A row that was passed is looked up, or used as it is; otherwise the user
\* chooses one of the rows there are.
Offered(kind) ==
    CASE kind = "another network" ->
            {r \in rows : r.kind = "network" /\ r.id \notin UNION {c.of : c \in Picked("compose")}}
      [] kind = "compose of another network" ->
            {r \in rows : r.kind = "compose" /\ r.of \intersect IdsOf(Picked("network")) = {}}
      [] OTHER -> {r \in rows : r.kind = kind}
RowChoices ==
    LET given == {r \in invoked.argument : r.kind = Step.what}
    IN  CASE given = {} -> Offered(Step.what)
          [] Step.do = "take" -> given
          [] OTHER -> given \intersect rows

Resolves ==
    /\ Doing("pick") \/ Doing("take")
    /\ \/ \E r \in RowChoices : invoked' = CommandGoes([invoked EXCEPT !.picks = @ \union {r}])
       \/ invoked' = Says("canceled")
    /\ UNCHANGED <<rows, leaseOf, meddling>>

CommandAsks ==
    /\ Doing("ask") \/ Doing("confirm")
    /\ invoked' \in {Says("canceled"),
                     CommandGoes(IF Step.do = "ask" THEN invoked
                          ELSE [invoked EXCEPT !.agreed = invoked.picks, !.asked = TRUE])}
    /\ UNCHANGED <<rows, leaseOf, meddling>>

\* The lease is looked at first: a free one is acquired, another window's
\* ends the call.
LeaseHeld(op) == op \in Leased => leaseOf # "other"
RowsThere(op) == \A kind \in Requires(op) : Picked(kind) \subseteq rows
CallRefused(op) == ~LeaseHeld(op) \/ ~RowsThere(op)

Begins ==
    /\ Doing("call")
    /\ Step.what \notin Synchronous
    /\ ~CallRefused(Step.what)
    /\ leaseOf' = IF Step.what \in Leased THEN "me" ELSE leaseOf
    /\ invoked' = [invoked EXCEPT !.calling = Step.what]
    /\ UNCHANGED <<rows, meddling>>

Returns ==
    /\ \/ invoked.calling # "nothing"
       \/ Doing("call") /\ Step.what \in Synchronous /\ ~CallRefused(Step.what)
    /\ AdmitsRow(Step.what)
    /\ rows' = (rows \ RemovedBy(Step.what)) \union AddedBy(Step.what)
    /\ invoked' = CommandGoes(invoked)
    /\ UNCHANGED <<leaseOf, meddling>>

\* An error ends the command with a message, or with the offer of another way.
CommandFails ==
    /\ \/ Doing("call") /\ CallRefused(Step.what)
       \/ invoked.calling # "nothing"
    /\ \/ invoked' = Says("error")
       \/ /\ "fallback" \in DOMAIN Step
          /\ invoked' = [invoked EXCEPT !.todo = Step.fallback, !.calling = "nothing"]
    /\ UNCHANGED <<rows, leaseOf, meddling>>

\* Another window removes a row, or takes the lease and may close.
OtherWindow ==
    /\ invoked.todo # <<>>
    /\ meddling > 0
    /\ meddling' = meddling - 1
    /\ \/ \E r \in rows :
             rows' = rows \ ({r} \union (IF r.kind = "network" THEN Within({r}) ELSE {}))
          /\ UNCHANGED leaseOf
       \/ leaseOf' \in {"other", "nobody"} /\ UNCHANGED rows
    /\ UNCHANGED invoked

CommandsNext ==
    \/ Invoke \/ ensureControlPlaneOwnerForCommand \/ LooksWhetherOwner \/ Resolves \/ CommandAsks
    \/ Begins \/ Returns \/ CommandFails \/ OtherWindow

NetworkIds(rs) == IdsOf({r \in rs : r.kind = "network"})
WindowIds == IdsOf({r \in DrawnRows : r.kind = "window"})

\* Prompts stay open while other windows go on: by the time the service is
\* called, the rows and the lease a command looked at may have changed
\* (commands.ts, every handler).  A drastic call is made only after the user
\* agreed to it, for the very rows that are passed; a call of the owner begins
\* with the lease in hand; a command removes no row but the picked one and what
\* belongs to it, and leaves no row behind whose network is gone.
CommandsDoWhatWasAgreed ==
    [][/\ invoked'.calling \in Drastic => invoked'.asked /\ invoked'.agreed = invoked'.picks
       /\ invoked.calling = "nothing" /\ invoked'.calling \in Leased => leaseOf' = "me"
       /\ \A r \in rows \ rows' :
            \/ meddling' # meddling
            \/ r \in invoked.picks
            \/ r.of \intersect IdsOf(invoked.picks) # {}
            \/ invoked.calling = "resetAllTerminalNetworkSettings" /\ invoked.asked
       /\ \A r \in rows' : r.of \subseteq NetworkIds(rows') \union WindowIds]_commandVars
=============================================================================
