------------------------- MODULE SharedNetworkState -------------------------
(***************************************************************************)
(* The networks every VS Code window shows: each window holds a registry,   *)
(* saves the whole of it in one shared document on every change, and adopts *)
(* the document when another window saved (network-service.ts with          *)
(* shared-network-state-store.ts).  Commands read a registry, await the     *)
(* container runtime, a terminal or a listener, and change the registry     *)
(* after that; their continuations are the tasks.                           *)
(***************************************************************************)
EXTENDS LogicalNetworkRegistry, FiniteSets

CONSTANTS
  Windows,       \* the extension hosts of one user
  Nobody,        \* no window
  BrowserHosts,  \* the endpoints served by the browser proxy: loopback TCP
  NoNetwork,     \* no window binding
  Unused         \* nothing listens on an endpoint

ASSUME WindowsNameRows == Windows \subseteq Ids \cap Keys

VARIABLES
  doc,       \* shared-network-state.json
  reg,       \* each window's LogicalNetworkRegistry
  running,   \* whether a window's service is new, up or gone
  synced,    \* sharedNetworkStateRevision: the windows that hold doc's revision
  binding,   \* vscodeWindowTerminalBinding
  tasks,     \* continuations of commands that wait
  listener,  \* which window's exposure listens on an endpoint
  reopening, \* refreshSharedNetworkRoutingState: queued, and the pass in flight
  aborted,   \* windows in which such a pass has thrown
  director,  \* the control-plane owner
  broker,    \* the browser proxy owner
  preset,    \* the saved binding preset
  commands   \* commands the user may still give

sharedVars == <<doc, reg, running, synced, binding, tasks, listener, reopening,
                aborted, director, broker, preset, commands>>

NoBinding == [net |-> NoNetwork, status |-> "none"]
Idle == [queued |-> FALSE, todo |-> {}, at |-> "idle"]
Up == {w \in Windows : running[w] = "up"}

Now == 10 - commands.left

Give(kind, ids) ==
  /\ kind \in commands.kinds /\ commands.left > 0
  /\ commands' = [commands EXCEPT !.left = @ - 1, !.ids = @ \ ids]

\* createId: ids are not given twice.
NewId(id) == commands.ids # {} /\ id = CHOOSE i \in commands.ids : TRUE

-----------------------------------------------------------------------------
\* The listener of the registry in network-service.ts: saveState, and a binding
\* whose network is gone is dropped.
Reconciled(b, r) == IF b.net \in r.networks THEN b ELSE NoBinding

Save(w, r) ==
  IF r = reg[w] THEN UNCHANGED <<doc, synced>> ELSE doc' = r /\ synced' = {w}

Change(w, r) ==
  /\ reg' = [reg EXCEPT ![w] = r] /\ Save(w, r)
  /\ binding' = IF r = reg[w] THEN binding ELSE [binding EXCEPT ![w] = Reconciled(@, r)]

\* syncVscodeWindowProcessAttachment: the row of the window's own process.
ProcessRow(id, b, r) ==
  LET old == {a \in r.attachments : a.id = id}
  IN  IF b.status = "attached" /\ b.net \in r.networks
      THEN IF \E a \in old : a.net = b.net THEN r
           ELSE setAttachment(r, [id |-> id, net |-> b.net, keys |-> {id},
                                  at |-> IF old = {} THEN b.at ELSE (CHOOSE a \in old : TRUE).at])
      ELSE removeAttachment(r, id)

\* A row whose id does not tell the windows apart.
WindowRowOfAll(w, b, r) == ProcessRow(CHOOSE v \in Windows : TRUE, b, r)

\* createVscodeWindowProcessAttachmentId
WindowRow(w, b, r) == ProcessRow(w, b, r)


\* refreshSharedNetworkRoutingState, taking the pass in flight for its own.
RefreshOnce(w) ==
  [reopening EXCEPT ![w] = IF @.at = "idle" THEN [@ EXCEPT !.at = "start"] ELSE @]

refreshSharedNetworkRoutingState(w) ==
  [reopening EXCEPT ![w].queued = TRUE, ![w].at = IF @ = "idle" THEN "start" ELSE @]

\* openHostExposureListener: does it return, and which window listens then.
Opens(w, e) ==
  \/ e.host \in BrowserHosts /\ broker \notin {w, Nobody}
  \/ listener[e.host] \in {Unused, <<w, e.id>>}

openHostExposureListener(w, e) ==
  IF e.host \in BrowserHosts /\ broker \notin {w, Nobody} THEN listener
  ELSE [listener EXCEPT ![e.host] = <<w, e.id>>]

closeHostExposureListener(w, id) ==
  [h \in Endpoints |-> IF listener[h] = <<w, id>> THEN Unused ELSE listener[h]]

-----------------------------------------------------------------------------
\* The constructor loads and normalises the document; start() adds the row of
\* the window, and the control-plane owner reopens the exposures.
Start(w) ==
  /\ running[w] = "new"
  /\ running' = [running EXCEPT ![w] = "up"]
  /\ LET loaded == replacePersistedState(doc)
         b == Reconciled(binding[w], loaded)
         r == WindowRow(w, b, loaded)
     IN  /\ reg' = [reg EXCEPT ![w] = r] /\ binding' = [binding EXCEPT ![w] = b]
         /\ IF r = doc THEN doc' = doc /\ synced' = synced \cup {w}
            ELSE doc' = r /\ synced' = {w}
  /\ reopening' = IF director = w THEN refreshSharedNetworkRoutingState(w) ELSE reopening
  /\ UNCHANGED <<tasks, listener, aborted, director, broker, preset, commands>>

\* reloadSharedNetworkState up to its first await.
Adopt(w) ==
  IF w \in synced THEN UNCHANGED <<doc, reg, synced, binding, reopening>>
  ELSE IF doc = reg[w] THEN synced' = synced \cup {w} /\ UNCHANGED <<doc, reg, binding, reopening>>
  ELSE LET loaded == replacePersistedState(doc)
           b == Reconciled(binding[w], loaded)
           r == WindowRow(w, b, loaded)
       IN  /\ reg' = [reg EXCEPT ![w] = r] /\ binding' = [binding EXCEPT ![w] = b]
           /\ IF r = doc THEN doc' = doc /\ synced' = synced \cup {w}
              ELSE doc' = r /\ synced' = {w}
           /\ reopening' = IF director = w THEN refreshSharedNetworkRoutingState(w) ELSE reopening

\* The watcher of the shared document fires.
reloadSharedNetworkState(w) ==
  /\ w \in Up \ synced /\ Adopt(w)
  /\ UNCHANGED <<running, tasks, listener, aborted, director, broker, preset, commands>>

\* refreshSharedNetworkRoutingStateSerially: one turn of its loop up to
\* reopenPersistedExposures, which goes through a snapshot.
PassStarts(w) ==
  /\ w \in Up /\ reopening[w].at = "start"
  /\ reopening' = [reopening EXCEPT ![w] =
       IF director # w THEN Idle
       ELSE [queued |-> FALSE, at |-> "reopen",
             todo |-> {e \in reg[w].exposures : e.status = "active"}]]
  /\ UNCHANGED <<doc, reg, running, synced, binding, tasks, listener, aborted, director,
                 broker, preset, commands>>

\* updateExposure throws when the row is gone, and the pass ends there; a queued
\* revision still gets its own pass.
Reopen(w) ==
  /\ w \in Up /\ reopening[w].at = "reopen"
  /\ \E e \in reopening[w].todo :
       LET failed == [e EXCEPT !.status = "error"]
           onward == [reopening EXCEPT ![w].todo = @ \ {e}]
       IN  IF Opens(w, e)
           THEN /\ listener' = openHostExposureListener(w, e) /\ reopening' = onward
                /\ UNCHANGED <<doc, reg, synced, binding, aborted>>
           ELSE IF CanUpdateExposure(reg[w], e)
           THEN /\ Change(w, updateExposure(reg[w], failed)) /\ reopening' = onward
                /\ UNCHANGED <<listener, aborted>>
           ELSE /\ aborted' = aborted \cup {w}
                /\ reopening' = [reopening EXCEPT ![w] =
                     IF @.queued /\ director = w THEN [@ EXCEPT !.at = "start", !.todo = {}] ELSE Idle]
                /\ UNCHANGED <<doc, reg, synced, binding, listener>>
  /\ UNCHANGED <<running, tasks, director, broker, preset, commands>>

\* The rest of the turn only writes files; another turn when one is queued.
PassEnds(w) ==
  /\ w \in Up /\ reopening[w].at = "reopen" /\ reopening[w].todo = {}
  /\ reopening' = [reopening EXCEPT ![w] =
       IF @.queued /\ director = w THEN [@ EXCEPT !.at = "start"] ELSE Idle]
  /\ UNCHANGED <<doc, reg, running, synced, binding, tasks, listener, aborted, director,
                 broker, preset, commands>>

-----------------------------------------------------------------------------
Await(t) == tasks' = tasks \cup {t}
Ends(t) == tasks' = tasks \ {t}
Quiet == UNCHANGED <<running, aborted, director, broker, preset>>
Waits == UNCHANGED <<doc, reg, synced, binding, listener, reopening>> /\ Quiet

\* allocateNetworkIdWithUniqueAddresses, then the container runtime is asked.
CreateNetwork(w) ==
  /\ w \in Up /\ director = w /\ Give("networks", {})
  /\ \E n \in Networks :
       /\ \A m \in reg[w].networks \cup {t.net : t \in {u \in tasks : u.w = w /\ u.kind = "create"}} :
            m # n /\ AddressesOf[m] \cap AddressesOf[n] = {}
       /\ Await([kind |-> "create", w |-> w, net |-> n, id |-> w])
  /\ Waits

\* addNetwork, or the container is given back.
NetworkCreated(t) ==
  /\ t.kind = "create" /\ Ends(t)
  /\ Change(t.w, IF CanAddNetwork(reg[t.w], t.net) THEN addNetwork(reg[t.w], t.net) ELSE reg[t.w])
  /\ UNCHANGED <<listener, reopening, commands>> /\ Quiet

\* removeNetwork: the exposures of its first snapshot are closed one by one.
RemoveNetwork(w) ==
  /\ w \in Up /\ director = w /\ Give("networks", {})
  /\ \E n \in reg[w].networks :
       Await([kind |-> "remove", w |-> w, net |-> n, id |-> w,
              todo |-> {e.id : e \in InNetwork(reg[w].exposures, n)}])
  /\ Waits

NetworkRemoval(t) ==
  /\ t.kind = "remove"
  /\ \/ \E id \in t.todo :
          /\ tasks' = (tasks \ {t}) \cup {[t EXCEPT !.todo = @ \ {id}]}
          /\ listener' = closeHostExposureListener(t.w, id)
          /\ UNCHANGED <<doc, reg, synced, binding>>
     \/ /\ t.todo = {} /\ Ends(t) /\ Change(t.w, removeNetwork(reg[t.w], t.net))
        /\ UNCHANGED listener
  /\ UNCHANGED <<reopening, commands>> /\ Quiet

Exposure(id, n, h) == [id |-> id, net |-> n, host |-> h, status |-> "active"]

CreateExposure(w) ==
  /\ w \in Up /\ director = w
  /\ \E n \in reg[w].networks, h \in Endpoints, id \in commands.ids :
       /\ NewId(id) /\ Give("exposures", {id}) /\ CanAddExposure(reg[w], Exposure(id, n, h))
       /\ Await([kind |-> "expose", w |-> w, net |-> n, id |-> id, todo |-> {h}])
  /\ Waits

\* saveBindingPreset keeps what a network has; bindings are shared through
\* globalState.
SaveBindingPreset(w) ==
  /\ w \in Up /\ Give("presets", {})
  /\ \E n \in reg[w].networks :
       preset' = [hosts |-> {e.host : e \in InNetwork(reg[w].exposures, n)},
                  ports |-> {b.port : b \in InNetwork(reg[w].bindings, n)}]
  /\ UNCHANGED <<doc, reg, running, synced, binding, tasks, listener, reopening, aborted,
                 director, broker>>

\* applyBindingPreset: the missing bindings, then one createExposure after the
\* other for the hosts the network does not have.
ApplyBindingPreset(w) ==
  /\ w \in Up
  /\ \E n \in reg[w].networks, ids \in [preset.ports -> commands.ids] :
       /\ Give("presets", {ids[p] : p \in preset.ports})
       /\ \A p, q \in preset.ports : p # q => ids[p] # ids[q]
       /\ LET rows == {[id |-> ids[p], net |-> n, port |-> p] :
                         p \in {q \in preset.ports : \A b \in InNetwork(reg[w].bindings, n) : b.port # q}}
          IN  Change(w, [reg[w] EXCEPT !.bindings = @ \cup rows])
       /\ Await([kind |-> "expose", w |-> w, net |-> n, id |-> w,
                 todo |-> {h \in preset.hosts : \A e \in InNetwork(reg[w].exposures, n) : e.host # h}])
  /\ UNCHANGED <<listener, reopening>> /\ Quiet

\* The listener answers and the row is added; either may fail, and then the
\* listener is closed again and the command ends.
ExposureOpened(t) ==
  /\ t.kind = "expose"
  /\ \/ t.todo = {} /\ Ends(t) /\ UNCHANGED <<doc, reg, synced, binding, listener, commands>>
     \/ \E h \in t.todo, id \in commands.ids \cup {t.id} :
          /\ IF t.id = t.w THEN NewId(id) ELSE id = t.id
          /\ commands' = [commands EXCEPT !.ids = @ \ {id}]
          /\ LET e == Exposure(id, t.net, h)
                 added == (t.id = t.w => director = t.w) /\ Opens(t.w, e) /\ CanAddExposure(reg[t.w], e)
             IN  /\ tasks' = (tasks \ {t}) \cup
                      IF added /\ t.todo # {h} THEN {[t EXCEPT !.todo = @ \ {h}]} ELSE {}
                 /\ listener' = IF added THEN openHostExposureListener(t.w, e) ELSE listener
                 /\ Change(t.w, IF added THEN addExposure(reg[t.w], e) ELSE reg[t.w])
  /\ UNCHANGED reopening /\ Quiet

RemoveExposure(w) ==
  /\ w \in Up /\ director = w /\ Give("exposures", {})
  /\ \E e \in reg[w].exposures : Await([kind |-> "unexpose", w |-> w, net |-> e.net, id |-> e.id])
  /\ Waits

ExposureClosed(t) ==
  /\ t.kind = "unexpose" /\ Ends(t)
  /\ listener' = closeHostExposureListener(t.w, t.id)
  /\ Change(t.w, removeExposure(reg[t.w], t.id))
  /\ UNCHANGED <<reopening, commands>> /\ Quiet

\* createHostAccessBinding and removeHostAccessBinding need no ownership and do
\* not wait.
CreateHostAccessBinding(w) ==
  /\ w \in Up
  /\ \E n \in reg[w].networks, p \in LogicalPorts, id \in commands.ids :
       LET b == [id |-> id, net |-> n, port |-> p]
       IN  /\ NewId(id) /\ Give("bindings", {id}) /\ CanAddHostAccessBinding(reg[w], b)
           /\ Change(w, addHostAccessBinding(reg[w], b))
  /\ UNCHANGED <<tasks, listener, reopening>> /\ Quiet

RemoveHostAccessBinding(w) ==
  /\ w \in Up /\ Give("bindings", {})
  /\ \E b \in reg[w].bindings : Change(w, removeHostAccessBinding(reg[w], b.id))
  /\ UNCHANGED <<tasks, listener, reopening>> /\ Quiet

-----------------------------------------------------------------------------
Terminals == Keys \ Windows

\* attachTerminalWindow needs ownership, attachProcessToNetwork does not; both
\* look the network up before they wait for the terminal.
AttachTerminal(w) ==
  /\ w \in Up
  /\ \E n \in reg[w].networks, k \in Terminals, id \in commands.ids :
       /\ NewId(id) /\ Give("terminals", {id})
       /\ Await([kind |-> "attach", w |-> w, net |-> n, id |-> id, key |-> k])
  /\ Waits

\* The rows of the terminal are removed, and the new one is added when its
\* network is still there.
TerminalAttached(t) ==
  /\ t.kind = "attach" /\ Ends(t)
  /\ LET row == [id |-> t.id, net |-> t.net, keys |-> {t.key}, at |-> Now]
         cleared == [reg[t.w] EXCEPT !.attachments = {a \in @ : t.key \notin a.keys}]
     IN  Change(t.w, IF CanAddAttachment(cleared, row) THEN addAttachment(cleared, row) ELSE cleared)
  /\ UNCHANGED <<listener, reopening, commands>> /\ Quiet

\* detachTerminal and resetTerminalNetworkSettings: the rows read first are
\* removed after the shell was told.
DetachTerminal(w) ==
  /\ w \in Up /\ Give("terminals", {})
  /\ \E a \in reg[w].attachments :
       a.id \notin Windows /\ Await([kind |-> "detach", w |-> w, net |-> a.net, id |-> a.id])
  /\ Waits

TerminalDetached(t) ==
  /\ t.kind = "detach" /\ Ends(t) /\ Change(t.w, removeAttachment(reg[t.w], t.id))
  /\ UNCHANGED <<listener, reopening, commands>> /\ Quiet

\* resetAllTerminalNetworkSettings: every row goes, and the window's binding.
ResetAllTerminals(w) ==
  /\ w \in Up /\ Give("terminals", {})
  /\ LET r == [reg[w] EXCEPT !.attachments = {}]
     IN  reg' = [reg EXCEPT ![w] = r] /\ Save(w, r)
  /\ binding' = [binding EXCEPT ![w] = NoBinding]
  /\ UNCHANGED <<tasks, listener, reopening>> /\ Quiet

\* attachVscodeWindowTerminalsToNetwork: adopts the document, then waits twice.
AttachWindow(w) ==
  /\ w \in Up /\ Give("window", {}) /\ Adopt(w)
  /\ \E n \in reg'[w].networks :
       Await([kind |-> "bind", w |-> w, net |-> n, id |-> w, stage |-> "prepare", at |-> Now])
  /\ UNCHANGED listener /\ Quiet

\* The binding and the row are set; the shells are told; the binding is set
\* again, with the count or with the error.
WindowAttached(t) ==
  /\ t.kind = "bind"
  /\ LET b == [net |-> t.net, status |-> "attached", at |-> t.at]
         r == WindowRow(t.w, b, reg[t.w])
     IN  \/ /\ t.stage = "prepare" /\ tasks' = (tasks \ {t}) \cup {[t EXCEPT !.stage = "inject"]}
            /\ reg' = [reg EXCEPT ![t.w] = r] /\ Save(t.w, r)
            /\ binding' = [binding EXCEPT ![t.w] = IF r = reg[t.w] THEN b ELSE Reconciled(b, r)]
         \/ /\ t.stage = "inject" /\ Ends(t)
            /\ \E status \in {"attached", "error"} :
                 binding' = [binding EXCEPT ![t.w] = [b EXCEPT !.status = status]]
            /\ UNCHANGED <<doc, reg, synced>>
  /\ UNCHANGED <<listener, reopening, commands>> /\ Quiet

DetachWindow(w) ==
  /\ w \in Up /\ binding[w] # NoBinding /\ Give("window", {})
  /\ binding' = [binding EXCEPT ![w] = NoBinding]
  /\ Await([kind |-> "unbind", w |-> w, net |-> NoNetwork, id |-> w])
  /\ UNCHANGED <<doc, reg, synced, listener, reopening>> /\ Quiet

\* syncVscodeWindowProcessAttachment with the binding of that moment.
WindowDetached(t) ==
  /\ t.kind = "unbind" /\ Ends(t) /\ Change(t.w, WindowRow(t.w, binding[t.w], reg[t.w]))
  /\ UNCHANGED <<listener, reopening, commands>> /\ Quiet

\* refreshVscodeWindowTerminalEnvironment reads the binding and waits for the
\* loopback host.
RefreshWindow(w) ==
  /\ w \in Up /\ Give("refresh", {})
  /\ Await([kind |-> "ready", w |-> w, net |-> binding[w].net, id |-> w, b |-> binding[w]])
  /\ Waits

\* An error is noted or cleared in the binding that was read; the row follows
\* the binding of this moment.
WindowRefreshed(t) ==
  /\ t.kind = "ready" /\ Ends(t)
  /\ \E ready \in IF t.b = NoBinding THEN {TRUE} ELSE BOOLEAN :
       LET b == IF ~ready THEN [t.b EXCEPT !.status = "error"]
                ELSE IF t.b.status = "error" THEN [t.b EXCEPT !.status = "attached"]
                ELSE binding[t.w]
           r == WindowRow(t.w, b, reg[t.w])
       IN  /\ reg' = [reg EXCEPT ![t.w] = r] /\ Save(t.w, r)
           /\ binding' = [binding EXCEPT ![t.w] = IF r = reg[t.w] THEN b ELSE Reconciled(b, r)]
  /\ UNCHANGED <<listener, reopening, commands>> /\ Quiet

-----------------------------------------------------------------------------
\* Another window becomes the control-plane owner: it reopens the exposures, and
\* the window that was keeps its listeners.
HandOver ==
  /\ Give("handover", {})
  /\ \E w \in Up \ {director} :
       /\ director' = w
       /\ reopening' = [refreshSharedNetworkRoutingState(w) EXCEPT ![director].queued = FALSE]
  /\ UNCHANGED <<doc, reg, running, synced, binding, tasks, listener, aborted, broker, preset>>

\* dispose() closes what the window listens on.
CloseWindow(w) ==
  /\ w \in Up \ {director} /\ Give("close", {})
  /\ running' = [running EXCEPT ![w] = "gone"]
  /\ tasks' = {t \in tasks : t.w # w}
  /\ reopening' = [reopening EXCEPT ![w] = Idle]
  /\ listener' = [h \in Endpoints |->
       IF \E id \in Ids : listener[h] = <<w, id>> THEN Unused ELSE listener[h]]
  /\ broker' = IF broker = w THEN Nobody ELSE broker
  /\ UNCHANGED <<doc, reg, synced, binding, aborted, director, preset>>

-----------------------------------------------------------------------------
Continues(t) ==
  \/ NetworkCreated(t) \/ NetworkRemoval(t) \/ ExposureOpened(t) \/ ExposureClosed(t)
  \/ TerminalAttached(t) \/ TerminalDetached(t) \/ WindowAttached(t) \/ WindowDetached(t)
  \/ WindowRefreshed(t)

Command(w) ==
  \/ CreateNetwork(w) \/ RemoveNetwork(w) \/ CreateExposure(w) \/ RemoveExposure(w)
  \/ SaveBindingPreset(w) \/ ApplyBindingPreset(w)
  \/ CreateHostAccessBinding(w) \/ RemoveHostAccessBinding(w)
  \/ AttachTerminal(w) \/ DetachTerminal(w) \/ ResetAllTerminals(w)
  \/ AttachWindow(w) \/ DetachWindow(w) \/ RefreshWindow(w) \/ CloseWindow(w)

SharedProgress ==
  \/ \E w \in Windows : Start(w) \/ reloadSharedNetworkState(w) \/ PassStarts(w) \/ Reopen(w) \/ PassEnds(w)
  \/ \E t \in tasks : Continues(t)

SharedNext == SharedProgress \/ HandOver \/ \E w \in Windows : Command(w)

SharedInit(scene) ==
  /\ doc = scene.doc /\ commands = scene.commands
  /\ reg = [w \in Windows |-> NoRows]
  /\ running = [w \in Windows |-> IF w \in scene.windows THEN "new" ELSE "gone"]
  /\ synced = {} /\ binding = [w \in Windows |-> NoBinding] /\ tasks = {}
  /\ listener = scene.listener /\ reopening = [w \in Windows |-> Idle] /\ aborted = {}
  /\ director = scene.director /\ broker = scene.broker
  /\ preset = [hosts |-> {}, ports |-> {}]

-----------------------------------------------------------------------------
\* The rows are well formed, a pass has work only while it runs, and a window
\* that holds the revision of the document shows what the document says.
SharedTypeOK ==
  /\ \A w \in Up : reg[w] \in Registry
  /\ synced \subseteq Windows /\ aborted \subseteq Windows
  /\ \A w \in Up : reopening[w].todo # {} => reopening[w].at = "reopen"
  /\ \A w \in synced \cap Up : reg[w] = doc

RowsAreSound(r) ==
  /\ AddressesAreUnique(r.networks)
  /\ \A row \in r.attachments \cup r.exposures \cup r.bindings : row.net \in r.networks
  /\ \A e, f \in r.exposures : e.host = f.host => e = f
  /\ \A b, c \in r.bindings : b.net = c.net /\ b.port = c.port => b = c

TerminalsOnce(r) == \A a, b \in r.attachments : a.keys \cap b.keys # {} => a = b

\* A document an earlier version may have saved: rows that share a terminal were at
\* least made one after the other, and ids still to be given are not in use.
TerminalsDated(r) ==
  \A a, b \in r.attachments : a.keys \cap b.keys # {} => a = b \/ a.at # b.at

LoadableScene(scene) ==
  /\ scene.doc \in Registry /\ RowsAreSound(scene.doc) /\ TerminalsDated(scene.doc)
  /\ \A e, f \in scene.doc.exposures : e.id = f.id => e.net = f.net /\ e.host = f.host
  /\ scene.commands \in [kinds : SUBSET STRING, left : 0..10, ids : SUBSET Ids]
  /\ \A e \in scene.doc.exposures : e.id \notin scene.commands.ids

\* Every row of a registry belongs to a network of it, and no endpoint or port
\* is given away twice, although rows are added after an await, removed with
\* their network, and replaced by documents of other windows.
RowsBelongToNetworks == \A w \in Up : RowsAreSound(reg[w])

\* A terminal belongs to one network: no two rows of a registry share a session,
\* window, root process or process group, also not after a load of rows an older
\* version saved.
OneNetworkPerTerminal == \A w \in Up : TerminalsOnce(reg[w])

\* Once the user is done, every window shows the same networks and rows: windows
\* that add a row of their own while they adopt a document do not keep
\* overwriting each other.
EventuallyShared == <>[](\A w \in Up : reg[w] = doc)

\* The control-plane owner ends up serving every exposure that is shown as
\* active, however revisions and passes overlap, unless a pass has thrown
\* because its row was removed under it.
EventuallyListening ==
  <>[](\A e \in reg[director].exposures :
         \/ e.status = "error" \/ director \notin Up \/ director \in aborted
         \/ e.host \in BrowserHosts /\ broker # director
         \/ listener[e.host] = <<director, e.id>>)

\* In every window, after any interleaving of commands and adopted documents, the rows
\* of the registry are typed, belong to networks, and bind a terminal once.
RegistryIsSound == SharedTypeOK /\ RowsBelongToNetworks /\ OneNetworkPerTerminal
=============================================================================
