---------------------- MODULE SharedNetworkStateProofs ----------------------
(***************************************************************************)
(* The registries of all windows stay sound, for any number of windows,     *)
(* networks, rows and commands, and from any document an earlier version    *)
(* may have saved.                                                          *)
(*                                                                          *)
(* RegistryIsSound is not inductive: what a continuation adds after its     *)
(* await must be typed (TasksOK), the document a window adopts must itself  *)
(* be sound (RegsOK), and updateExposure, which looks at the id alone, is   *)
(* right only because an id names one network and endpoint wherever it      *)
(* occurs: in a registry, the document or the snapshot of a pass (IdsOK).   *)
(***************************************************************************)
EXTENDS SharedNetworkState, TLAPS

BindingSet == {NoBinding} \cup [net : Networks, status : {"attached", "error"}, at : Nat]

TaskRows ==
  [kind : {"create", "unexpose", "detach"}, w : Windows, net : Networks, id : Ids]
    \cup [kind : {"remove"}, w : Windows, net : Networks, id : Ids, todo : SUBSET Ids]
    \cup [kind : {"expose"}, w : Windows, net : Networks, id : Ids, todo : SUBSET Endpoints]
    \cup [kind : {"attach"}, w : Windows, net : Networks, id : Ids, key : Keys]
    \cup [kind : {"bind"}, w : Windows, net : Networks, id : Ids, stage : {"prepare", "inject"}, at : Nat]
    \cup [kind : {"unbind"}, w : Windows, net : {NoNetwork}, id : Ids]
    \cup [kind : {"ready"}, w : Windows, net : Networks \cup {NoNetwork}, id : Ids, b : BindingSet]

PassStates ==
  [queued : BOOLEAN, todo : SUBSET ExposureRows, at : {"idle", "start", "reopen"}]

\* One registry: typed, its rows in its networks, each terminal once.
Good(r) == r \in Registry /\ RowsAreSound(r) /\ TerminalsOnce(r)

RegsOK ==
  /\ doc \in Registry /\ RowsAreSound(doc) /\ TerminalsDated(doc)
  /\ reg \in [Windows -> Registry] /\ \A w \in Windows : Good(reg[w])
  /\ synced \subseteq Windows /\ \A w \in synced : reg[w] = doc

BindingsOK == binding \in [Windows -> BindingSet]

TasksOK ==
  /\ tasks \subseteq TaskRows
  /\ commands \in [kinds : SUBSET STRING, left : 0..10, ids : SUBSET Ids]
  /\ preset \in [hosts : SUBSET Endpoints, ports : SUBSET LogicalPorts]

PassesOK ==
  /\ reopening \in [Windows -> PassStates]
  /\ \A w \in Windows : reopening[w].todo # {} => reopening[w].at = "reopen"
  /\ aborted \subseteq Windows

\* The exposures somebody holds, and the calls that will add one under their own id.
Held(e) ==
  e \in doc.exposures \/ \E w \in Windows : e \in reg[w].exposures \/ e \in reopening[w].todo
Adding(t) == t \in tasks /\ t.kind = "expose" /\ t.id # t.w
SameExposure(e, f) == e.id = f.id /\ e.net = f.net /\ e.host = f.host

IdsOK ==
  /\ \A e, f : Held(e) /\ Held(f) /\ e.id = f.id => SameExposure(e, f)
  /\ \A e : Held(e) => e.id \notin commands.ids
  /\ \A t : Adding(t) =>
       /\ t.id \notin commands.ids
       /\ \A e : Held(e) => e.id # t.id
       /\ \A u : Adding(u) /\ u.id = t.id => u = t
       /\ \E h : t.todo = {h}

SharedInv == RegsOK /\ BindingsOK /\ TasksOK /\ PassesOK /\ IdsOK

-----------------------------------------------------------------------------
(* The methods of LogicalNetworkRegistry keep a registry good.              *)

LEMMA NoRowsGood == Good(NoRows)
BY DEF Good, NoRows, Registry, RowsAreSound, TerminalsOnce, AddressesAreUnique

LEMMA AddNetworkGood ==
  ASSUME NEW r, Good(r), NEW n \in Networks, CanAddNetwork(r, n)
  PROVE  Good(addNetwork(r, n)) /\ addNetwork(r, n).exposures = r.exposures
<1> DEFINE s == addNetwork(r, n)
<1>1. s \in Registry /\ s.networks = r.networks \cup {n} /\ s.attachments = r.attachments
        /\ s.exposures = r.exposures /\ s.bindings = r.bindings
  BY DEF Good, Registry, addNetwork
<1> HIDE DEF s
<1>2. AddressesAreUnique(s.networks)
  BY <1>1 DEF Good, RowsAreSound, AddressesAreUnique, CanAddNetwork
<1> QED BY <1>1, <1>2 DEF Good, RowsAreSound, TerminalsOnce, s

\* removeNetwork takes all dependent rows with it.
LEMMA RemoveNetworkGood ==
  ASSUME NEW r, Good(r), NEW n
  PROVE  Good(removeNetwork(r, n)) /\ removeNetwork(r, n).exposures \subseteq r.exposures
<1> DEFINE s == removeNetwork(r, n)
<1>1. s \in Registry /\ s.networks = r.networks \ {n}
        /\ s.attachments = {a \in r.attachments : a.net # n}
        /\ s.exposures = {e \in r.exposures : e.net # n}
        /\ s.bindings = {b \in r.bindings : b.net # n}
  BY DEF Good, Registry, removeNetwork, InNetwork
<1> HIDE DEF s
<1> QED BY <1>1 DEF Good, RowsAreSound, TerminalsOnce, AddressesAreUnique, s

\* Fewer attachments.
LEMMA FewerAttachmentsGood ==
  ASSUME NEW r \in Registry, RowsAreSound(r), NEW rows, rows \subseteq r.attachments,
         \A a, b \in rows : a.keys \cap b.keys # {} => a = b
  PROVE  LET s == [r EXCEPT !.attachments = rows]
         IN  Good(s) /\ s.exposures = r.exposures /\ s.networks = r.networks
<1> DEFINE s == [r EXCEPT !.attachments = rows]
<1>1. s \in Registry /\ s.networks = r.networks /\ s.attachments = rows
        /\ s.exposures = r.exposures /\ s.bindings = r.bindings
  BY DEF Registry
<1> HIDE DEF s
<1>2. Good(s)
  BY <1>1 DEF Good, RowsAreSound, TerminalsOnce
<1> QED BY <1>1, <1>2 DEF s

LEMMA RemoveAttachmentGood ==
  ASSUME NEW r, Good(r), NEW id
  PROVE  Good(removeAttachment(r, id)) /\ removeAttachment(r, id).exposures = r.exposures
<1>1. Without(r.attachments, id) \subseteq r.attachments
  BY DEF Without
<1> QED BY <1>1, FewerAttachmentsGood DEF removeAttachment, Good, TerminalsOnce

\* setAttachment removes the rows its row conflicts with.
LEMMA SetAttachmentGood ==
  ASSUME NEW r, Good(r), NEW a \in AttachmentRows, a.net \in r.networks
  PROVE  Good(setAttachment(r, a)) /\ setAttachment(r, a).exposures = r.exposures
<1> DEFINE left == {b \in Without(r.attachments, a.id) : ~terminalAttachmentsShareIdentity(a, b)}
           s == setAttachment(r, a)
<1>1. s \in Registry /\ s.networks = r.networks /\ s.attachments = left \cup {a}
        /\ s.exposures = r.exposures /\ s.bindings = r.bindings
  BY DEF Good, Registry, setAttachment, Without
<1>2. \A b \in left : b \in r.attachments /\ a.keys \cap b.keys = {}
  BY DEF Without, terminalAttachmentsShareIdentity
<1> HIDE DEF s, left
<1>3. TerminalsOnce(s)
  BY <1>1, <1>2 DEF Good, TerminalsOnce
<1>4. RowsAreSound(s)
  BY <1>1, <1>2 DEF Good, RowsAreSound
<1> QED BY <1>1, <1>3, <1>4 DEF Good, s

\* addExposure under CanAddExposure: nobody else has the endpoint.
LEMMA AddExposureGood ==
  ASSUME NEW r, Good(r), NEW e \in ExposureRows, CanAddExposure(r, e)
  PROVE  /\ Good(addExposure(r, e))
         /\ \A f \in addExposure(r, e).exposures : f = e \/ f \in r.exposures
<1> DEFINE s == addExposure(r, e)
<1>1. s \in Registry /\ s.networks = r.networks /\ s.attachments = r.attachments
        /\ s.exposures = Without(r.exposures, e.id) \cup {e} /\ s.bindings = r.bindings
  BY DEF Good, Registry, addExposure, Without
<1> HIDE DEF s
<1>2. Without(r.exposures, e.id) \subseteq r.exposures
  BY DEF Without
<1>3. \A f, g \in s.exposures : f.host = g.host => f = g
  BY <1>1, <1>2 DEF Good, RowsAreSound, CanAddExposure
<1>4. RowsAreSound(s)
  BY <1>1, <1>2, <1>3 DEF Good, RowsAreSound, CanAddExposure
<1> QED BY <1>1, <1>2, <1>4 DEF Good, TerminalsOnce, s

LEMMA RemoveExposureGood ==
  ASSUME NEW r, Good(r), NEW id
  PROVE  Good(removeExposure(r, id)) /\ removeExposure(r, id).exposures \subseteq r.exposures
<1> DEFINE s == removeExposure(r, id)
<1>1. s \in Registry /\ s.networks = r.networks /\ s.attachments = r.attachments
        /\ s.exposures = Without(r.exposures, id) /\ s.bindings = r.bindings
  BY DEF Good, Registry, removeExposure, Without
<1> HIDE DEF s
<1>2. s.exposures \subseteq r.exposures
  BY <1>1 DEF Without
<1> QED BY <1>1, <1>2 DEF Good, RowsAreSound, TerminalsOnce, s

\* More or fewer bindings, each port of a network bound once.
LEMMA BindingsGood ==
  ASSUME NEW r, Good(r), NEW rows, rows \subseteq BindingRows, \A b \in rows : b.net \in r.networks,
         \A b, c \in rows : b.net = c.net /\ b.port = c.port => b = c
  PROVE  LET s == [r EXCEPT !.bindings = rows]
         IN  Good(s) /\ s.exposures = r.exposures
<1> DEFINE s == [r EXCEPT !.bindings = rows]
<1>1. s \in Registry /\ s.networks = r.networks /\ s.attachments = r.attachments
        /\ s.exposures = r.exposures /\ s.bindings = rows
  BY DEF Good, Registry
<1> HIDE DEF s
<1>2. Good(s)
  BY <1>1 DEF Good, RowsAreSound, TerminalsOnce
<1> QED BY <1>1, <1>2 DEF s

\* Of rows an older version saved for one terminal, a load keeps the latest.
LEMMA LoadGood ==
  ASSUME NEW r \in Registry, RowsAreSound(r), TerminalsDated(r)
  PROVE  Good(replacePersistedState(r)) /\ replacePersistedState(r).exposures = r.exposures
<1> DEFINE rows == LatestAttachments(r.attachments)
           kept == LatestComposes(r.composes)
           s == replacePersistedState(r)
<1>1. rows \subseteq r.attachments /\ kept \subseteq r.composes
  BY DEF LatestAttachments, LatestComposes
<1>2. \A a \in r.attachments : a.at \in Nat
  BY DEF Registry, AttachmentRows
<1>3. ASSUME NEW a \in rows, NEW b \in rows, a.keys \cap b.keys # {} PROVE a = b
  <2>1. a \in r.attachments /\ b \in r.attachments /\ b.keys \cap a.keys # {}
    BY <1>1, <1>3
  <2>2. ~(b.at > a.at) /\ ~(a.at > b.at)
    BY <1>3, <2>1 DEF LatestAttachments, terminalAttachmentsShareIdentity
  <2>3. a.at = b.at
    BY <1>2, <2>1, <2>2
  <2> QED BY <1>3, <2>1, <2>3 DEF TerminalsDated
<1> HIDE DEF rows, kept
<1>4. s \in Registry /\ s.networks = r.networks /\ s.attachments = rows
        /\ s.exposures = r.exposures /\ s.bindings = r.bindings
  BY <1>1 DEF Registry, replacePersistedState, rows, kept
<1> HIDE DEF s
<1>5. Good(s)
  BY <1>1, <1>3, <1>4 DEF Good, RowsAreSound, TerminalsOnce
<1> QED BY <1>4, <1>5 DEF s

\* The row of a window's own process follows its binding.
LEMMA WindowRowGood ==
  ASSUME NEW w \in Windows, NEW b \in BindingSet, NEW r, Good(r)
  PROVE  Good(WindowRow(w, b, r)) /\ WindowRow(w, b, r).exposures = r.exposures
<1> DEFINE old == {a \in r.attachments : a.id = w}
           some == CHOOSE a \in old : TRUE
           at == IF old = {} THEN b.at ELSE some.at
           row == [id |-> w, net |-> b.net, keys |-> {w}, at |-> at]
<1>1. CASE b.status = "attached" /\ b.net \in r.networks /\ ~\E a \in old : a.net = b.net
  <2>1. b.at \in Nat
    BY <1>1 DEF BindingSet, NoBinding
  <2>2. old # {} => some \in old
    OBVIOUS
  <2>3. \A a \in old : a.at \in Nat
    BY DEF Good, Registry, AttachmentRows
  <2> HIDE DEF some
  <2>4. at \in Nat
    BY <2>1, <2>2, <2>3
  <2>5. b.net \in Networks
    BY <1>1 DEF Good, Registry
  <2> HIDE DEF at
  <2>6. row \in AttachmentRows /\ row.net \in r.networks
    BY <1>1, <2>4, <2>5, WindowsNameRows DEF AttachmentRows
  <2>7. WindowRow(w, b, r) = setAttachment(r, row)
    BY <1>1 DEF WindowRow, ProcessRow, at, some
  <2> HIDE DEF row
  <2> QED BY <2>6, <2>7, SetAttachmentGood
<1>2. CASE b.status = "attached" /\ b.net \in r.networks /\ \E a \in old : a.net = b.net
  BY <1>2 DEF WindowRow, ProcessRow
<1>3. CASE ~(b.status = "attached" /\ b.net \in r.networks)
  BY <1>3, RemoveAttachmentGood DEF WindowRow, ProcessRow
<1> QED BY <1>1, <1>2, <1>3

-----------------------------------------------------------------------------
(* A window's change, and what it does to the document and the binding.     *)

LEMMA ReconciledOK ==
  ASSUME NEW b \in BindingSet, NEW r
  PROVE  Reconciled(b, r) \in BindingSet
BY DEF Reconciled, BindingSet

\* saveState publishes what the window now holds.
LEMMA SaveOK ==
  ASSUME RegsOK, NEW w \in Windows, NEW r, Good(r), reg' = [reg EXCEPT ![w] = r], Save(w, r)
  PROVE  RegsOK'
<1>1. r \in Registry /\ RowsAreSound(r) /\ TerminalsDated(r)
  BY DEF Good, TerminalsOnce, TerminalsDated
<1>2. reg' \in [Windows -> Registry] /\ reg'[w] = r /\ \A v \in Windows : v # w => reg'[v] = reg[v]
  BY <1>1 DEF RegsOK
<1>3. \A v \in Windows : Good(reg'[v])
  BY <1>2 DEF RegsOK
<1>4. CASE r = reg[w]
  BY <1>2, <1>3, <1>4 DEF RegsOK, Save
<1>5. CASE r # reg[w]
  <2>1. doc' = r /\ synced' = {w}
    BY <1>5 DEF Save
  <2> QED BY <1>1, <1>2, <1>3, <2>1 DEF RegsOK
<1> QED BY <1>4, <1>5

LEMMA ChangeOK ==
  ASSUME RegsOK, BindingsOK, NEW w \in Windows, NEW r, Good(r), Change(w, r)
  PROVE  RegsOK' /\ BindingsOK'
<1>1. RegsOK'
  BY SaveOK DEF Change
<1>2. Reconciled(binding[w], r) \in BindingSet
  BY ReconciledOK DEF BindingsOK
<1>3. BindingsOK'
  BY <1>2 DEF BindingsOK, Change
<1> QED BY <1>1, <1>3

\* A window loads the document: Start, and reloadSharedNetworkState.
LEMMA LoadOK ==
  ASSUME RegsOK, BindingsOK, NEW w \in Windows, NEW loaded, loaded = replacePersistedState(doc),
         NEW b, b = Reconciled(binding[w], loaded), NEW r, r = WindowRow(w, b, loaded),
         reg' = [reg EXCEPT ![w] = r], binding' = [binding EXCEPT ![w] = b],
         IF r = doc THEN doc' = doc /\ synced' = synced \cup {w} ELSE doc' = r /\ synced' = {w}
  PROVE  /\ RegsOK' /\ BindingsOK'
         /\ doc'.exposures = doc.exposures
         /\ \A v \in Windows : reg'[v].exposures \in {reg[v].exposures, doc.exposures}
<1>1. Good(loaded) /\ loaded.exposures = doc.exposures
  BY LoadGood DEF RegsOK
<1>2. b \in BindingSet
  BY ReconciledOK DEF BindingsOK
<1>3. Good(r) /\ r.exposures = doc.exposures
  BY <1>1, <1>2, WindowRowGood
<1>4. BindingsOK'
  BY <1>2 DEF BindingsOK
<1>5. r \in Registry /\ RowsAreSound(r) /\ TerminalsDated(r)
  BY <1>3 DEF Good, TerminalsOnce, TerminalsDated
<1>6. reg' \in [Windows -> Registry] /\ reg'[w] = r /\ \A v \in Windows : v # w => reg'[v] = reg[v]
  BY <1>5 DEF RegsOK
<1>7. \A v \in Windows : Good(reg'[v])
  BY <1>3, <1>6 DEF RegsOK
<1>8. CASE r = doc
  BY <1>3, <1>4, <1>6, <1>7, <1>8 DEF RegsOK
<1>9. CASE r # doc
  <2>1. doc' = r /\ synced' = {w}
    BY <1>9
  <2> QED BY <1>3, <1>4, <1>5, <1>6, <1>7, <2>1 DEF RegsOK
<1> QED BY <1>8, <1>9

\* refreshSharedNetworkRoutingState queues a pass and keeps the one in flight.
LEMMA RefreshPasses ==
  ASSUME reopening \in [Windows -> PassStates], NEW w \in Windows,
         \A v \in Windows : reopening[v].todo # {} => reopening[v].at = "reopen"
  PROVE  LET passes == refreshSharedNetworkRoutingState(w)
         IN  /\ passes \in [Windows -> PassStates]
             /\ \A v \in Windows : /\ passes[v].todo = reopening[v].todo
                                   /\ passes[v].todo # {} => passes[v].at = "reopen"
<1> DEFINE p == reopening[w]
           q == [p EXCEPT !.queued = TRUE, !.at = IF p.at = "idle" THEN "start" ELSE p.at]
<1>1. q \in PassStates /\ q.todo = p.todo /\ (p.at = "reopen" => q.at = "reopen")
  BY DEF PassStates
<1>2. refreshSharedNetworkRoutingState(w) = [reopening EXCEPT ![w] = q]
  BY DEF refreshSharedNetworkRoutingState, PassStates
<1> HIDE DEF q
<1> QED BY <1>1, <1>2

LEMMA AdoptOK ==
  ASSUME RegsOK, BindingsOK, PassesOK, NEW w \in Windows, Adopt(w), UNCHANGED aborted
  PROVE  /\ RegsOK' /\ BindingsOK' /\ PassesOK'
         /\ doc'.exposures = doc.exposures
         /\ \A v \in Windows : /\ reg'[v].exposures \in {reg[v].exposures, doc.exposures}
                               /\ reopening'[v].todo = reopening[v].todo
<1>1. CASE UNCHANGED <<doc, reg, synced, binding, reopening>>
  BY <1>1 DEF RegsOK, BindingsOK, PassesOK
<1>2. CASE doc = reg[w] /\ synced' = synced \cup {w} /\ UNCHANGED <<doc, reg, binding, reopening>>
  BY <1>2 DEF RegsOK, BindingsOK, PassesOK
<1>3. CASE w \notin synced /\ doc # reg[w]
  <2> DEFINE loaded == replacePersistedState(doc)
             b == Reconciled(binding[w], loaded)
             r == WindowRow(w, b, loaded)
  <2>1. /\ reg' = [reg EXCEPT ![w] = r] /\ binding' = [binding EXCEPT ![w] = b]
        /\ IF r = doc THEN doc' = doc /\ synced' = synced \cup {w} ELSE doc' = r /\ synced' = {w}
        /\ reopening' = IF director = w THEN refreshSharedNetworkRoutingState(w) ELSE reopening
    BY <1>3 DEF Adopt
  <2> HIDE DEF loaded, b, r
  <2>2. /\ RegsOK' /\ BindingsOK' /\ doc'.exposures = doc.exposures
        /\ \A v \in Windows : reg'[v].exposures \in {reg[v].exposures, doc.exposures}
    BY <2>1, LoadOK DEF loaded, b, r
  <2>3. PassesOK' /\ \A v \in Windows : reopening'[v].todo = reopening[v].todo
    BY <2>1, RefreshPasses DEF PassesOK
  <2> QED BY <2>2, <2>3
<1> QED BY <1>1, <1>2, <1>3 DEF Adopt

-----------------------------------------------------------------------------
(* Exposures and their ids.                                                 *)

\* A step after which nobody holds an exposure of an id that was not held before.
LEMMA IdsKept ==
  ASSUME IdsOK, commands'.ids \subseteq commands.ids,
         \A e : Held(e)' => \E f : Held(f) /\ SameExposure(e, f),
         \A t : Adding(t)' => Adding(t)
  PROVE  IdsOK'
<1>1. ASSUME NEW e, NEW f, Held(e)', Held(f)', e.id = f.id PROVE SameExposure(e, f)
  <2>1. PICK g : Held(g) /\ SameExposure(e, g)
    BY <1>1
  <2>2. PICK h : Held(h) /\ SameExposure(f, h)
    BY <1>1
  <2>3. SameExposure(g, h)
    <3>1. g.id = h.id
      BY <1>1, <2>1, <2>2 DEF SameExposure
    <3> QED BY <2>1, <2>2, <3>1 DEF IdsOK
  <2> QED BY <2>1, <2>2, <2>3 DEF SameExposure
<1>2. ASSUME NEW e, Held(e)' PROVE e.id \notin commands'.ids
  BY <1>2 DEF IdsOK, SameExposure
<1>3. ASSUME NEW t, Adding(t)'
      PROVE  /\ t.id \notin commands'.ids
             /\ \A e : Held(e)' => e.id # t.id
             /\ \A u : Adding(u)' /\ u.id = t.id => u = t
             /\ \E h : t.todo = {h}
  <2>1. Adding(t)
    BY <1>3
  <2>2. ASSUME NEW e, Held(e)' PROVE e.id # t.id
    BY <2>1, <2>2 DEF IdsOK, SameExposure
  <2> QED BY <2>1, <2>2 DEF IdsOK
<1>4. \A e, f : SameExposure(e, f)' <=> SameExposure(e, f)
  BY DEF SameExposure
<1> QED BY <1>1, <1>2, <1>3, <1>4 DEF IdsOK

\* A change of one window's registry: where its exposures are from.
LEMMA ChangeHeld ==
  ASSUME NEW w \in Windows, NEW r, Change(w, r) \/ (reg' = [reg EXCEPT ![w] = r] /\ Save(w, r)),
         reg \in [Windows -> Registry],
         \A v \in Windows : reopening'[v].todo \subseteq reopening[v].todo,
         NEW e, Held(e)'
  PROVE  Held(e) \/ e \in r.exposures
<1>1. doc' = doc \/ doc' = r
  BY DEF Change, Save
<1>2. reg' = [reg EXCEPT ![w] = r]
  BY DEF Change
<1>3. CASE e \in doc'.exposures
  BY <1>1, <1>3 DEF Held
<1>4. ASSUME NEW v \in Windows, e \in reg'[v].exposures PROVE Held(e) \/ e \in r.exposures
  BY <1>2, <1>4 DEF Held
<1>5. ASSUME NEW v \in Windows, e \in reopening'[v].todo PROVE Held(e)
  BY <1>5 DEF Held
<1> QED BY <1>3, <1>4, <1>5 DEF Held

\* A change after which the registry holds no exposure it did not hold.
LEMMA ChangeIds ==
  ASSUME IdsOK, NEW w \in Windows, NEW r, Change(w, r) \/ (reg' = [reg EXCEPT ![w] = r] /\ Save(w, r)),
         reg \in [Windows -> Registry],
         \A v \in Windows : reopening'[v].todo \subseteq reopening[v].todo,
         r.exposures \subseteq reg[w].exposures,
         commands'.ids \subseteq commands.ids, \A t : Adding(t)' => Adding(t)
  PROVE  IdsOK'
<1>1. \A e : Held(e)' => Held(e)
  BY ChangeHeld DEF Held
<1> QED BY <1>1, IdsKept DEF SameExposure

LEMMA GiveOK ==
  ASSUME TasksOK, NEW kind, NEW ids, Give(kind, ids)
  PROVE  /\ commands' \in [kinds : SUBSET STRING, left : 0..10, ids : SUBSET Ids]
         /\ commands'.ids = commands.ids \ ids
<1>1. /\ commands \in [kinds : SUBSET STRING, left : 0..10, ids : SUBSET Ids] /\ commands.left > 0
      /\ commands' = [commands EXCEPT !.left = commands.left - 1, !.ids = commands.ids \ ids]
  BY DEF TasksOK, Give
<1>2. commands.left - 1 \in 0..10 /\ commands.ids \ ids \subseteq Ids
  BY <1>1
<1> QED BY <1>1, <1>2

-----------------------------------------------------------------------------
(* Commands that wait.                                                      *)

\* A command starts to wait, and adds no exposure under an id of its own.
LEMMA AwaitOK ==
  ASSUME SharedInv, UNCHANGED <<doc, reg, synced, binding, reopening, aborted, preset>>,
         NEW kind, NEW ids, Give(kind, ids),
         NEW t \in TaskRows, t.kind = "expose" => t.id = t.w, Await(t)
  PROVE  SharedInv'
<1>1. RegsOK' /\ BindingsOK' /\ PassesOK'
  BY DEF SharedInv, RegsOK, BindingsOK, PassesOK
<1>2. TasksOK' /\ commands'.ids \subseteq commands.ids
  BY GiveOK DEF SharedInv, TasksOK, Await
<1>3. \A e : Held(e)' <=> Held(e)
  BY DEF Held
<1>4. \A u : Adding(u)' => Adding(u)
  BY DEF Adding, Await
<1>5. IdsOK'
  BY <1>2, <1>3, <1>4, IdsKept DEF SharedInv, SameExposure
<1> QED BY <1>1, <1>2, <1>5 DEF SharedInv

LEMMA NetworkCommandsOK ==
  ASSUME SharedInv, NEW w \in Windows, CreateNetwork(w) \/ RemoveNetwork(w)
  PROVE  SharedInv'
<1>1. UNCHANGED <<doc, reg, synced, binding, reopening, aborted, preset>>
  BY DEF CreateNetwork, RemoveNetwork, Waits, Quiet
<1>2. CASE CreateNetwork(w)
  <2>1. PICK n \in Networks : Await([kind |-> "create", w |-> w, net |-> n, id |-> w])
    BY <1>2 DEF CreateNetwork
  <2> DEFINE t == [kind |-> "create", w |-> w, net |-> n, id |-> w]
  <2>2. t \in TaskRows /\ t.kind = "create"
    BY WindowsNameRows DEF TaskRows
  <2> HIDE DEF t
  <2> QED BY <1>1, <1>2, <2>1, <2>2, AwaitOK DEF CreateNetwork, t
<1>3. CASE RemoveNetwork(w)
  <2>1. PICK n \in reg[w].networks :
          Await([kind |-> "remove", w |-> w, net |-> n, id |-> w,
                 todo |-> {e.id : e \in InNetwork(reg[w].exposures, n)}])
    BY <1>3 DEF RemoveNetwork
  <2> DEFINE todo == {e.id : e \in InNetwork(reg[w].exposures, n)}
             t == [kind |-> "remove", w |-> w, net |-> n, id |-> w, todo |-> todo]
  <2>2. reg[w] \in Registry
    BY DEF SharedInv, RegsOK
  <2>3. n \in Networks /\ todo \subseteq Ids
    BY <2>2 DEF Registry, InNetwork, ExposureRows
  <2> HIDE DEF todo
  <2>4. t \in TaskRows /\ t.kind = "remove"
    BY <2>3, WindowsNameRows DEF TaskRows
  <2> HIDE DEF t
  <2> QED BY <1>1, <1>3, <2>1, <2>4, AwaitOK DEF RemoveNetwork, t, todo
<1> QED BY <1>2, <1>3

\* createExposure takes a new id, which it adds when its listener answers.
LEMMA CreateExposureOK ==
  ASSUME SharedInv, NEW w \in Windows, CreateExposure(w)
  PROVE  SharedInv'
<1>1. PICK n \in reg[w].networks, h \in Endpoints, id \in commands.ids :
        /\ Give("exposures", {id})
        /\ Await([kind |-> "expose", w |-> w, net |-> n, id |-> id, todo |-> {h}])
  BY DEF CreateExposure
<1> DEFINE t == [kind |-> "expose", w |-> w, net |-> n, id |-> id, todo |-> {h}]
<1>2. UNCHANGED <<doc, reg, synced, binding, reopening, aborted, preset>>
  BY DEF CreateExposure, Waits, Quiet
<1>3. n \in Networks /\ id \in Ids
  BY DEF SharedInv, RegsOK, Registry, TasksOK
<1>4. t \in TaskRows /\ t.kind = "expose" /\ t.id = id /\ t.todo = {h}
  BY <1>3 DEF TaskRows
<1>5. tasks' = tasks \cup {t}
  BY <1>1 DEF Await
<1> HIDE DEF t
<1>6. RegsOK' /\ BindingsOK' /\ PassesOK'
  BY <1>2 DEF SharedInv, RegsOK, BindingsOK, PassesOK
<1>7. TasksOK' /\ commands'.ids = commands.ids \ {id}
  BY <1>1, <1>2, <1>4, <1>5, GiveOK DEF SharedInv, TasksOK
<1>8. \A e : Held(e)' <=> Held(e)
  BY <1>2 DEF Held
<1>9. \A u : Adding(u)' => Adding(u) \/ u = t
  BY <1>5 DEF Adding
<1>10. IdsOK'
  <2>1. \A e : Held(e)' => e.id \notin commands'.ids /\ e.id # id
    BY <1>7, <1>8 DEF SharedInv, IdsOK
  <2>2. \A e, f : Held(e)' /\ Held(f)' /\ e.id = f.id => SameExposure(e, f)
    BY <1>8 DEF SharedInv, IdsOK
  <2>3. ASSUME NEW u, Adding(u)'
        PROVE  /\ u.id \notin commands'.ids
               /\ \A e : Held(e)' => e.id # u.id
               /\ \A v : Adding(v)' /\ v.id = u.id => v = u
               /\ \E k : u.todo = {k}
    <3>1. CASE Adding(u)
      <4>1. u.id # id
        BY <3>1 DEF SharedInv, IdsOK
      <4> QED BY <1>4, <1>7, <1>8, <1>9, <3>1, <4>1 DEF SharedInv, IdsOK
    <3>2. CASE u = t
      <4>1. \A v : Adding(v) => v.id # id
        BY DEF SharedInv, IdsOK
      <4> QED BY <1>4, <1>7, <1>9, <2>1, <3>2, <4>1
    <3> QED BY <1>9, <2>3, <3>1, <3>2
  <2> QED BY <2>1, <2>2, <2>3 DEF IdsOK
<1> QED BY <1>6, <1>7, <1>10 DEF SharedInv

LEMMA TerminalCommandsOK ==
  ASSUME SharedInv, NEW w \in Windows,
         RemoveExposure(w) \/ AttachTerminal(w) \/ DetachTerminal(w) \/ RefreshWindow(w)
  PROVE  SharedInv'
<1>1. UNCHANGED <<doc, reg, synced, binding, reopening, aborted, preset>>
  BY DEF RemoveExposure, AttachTerminal, DetachTerminal, RefreshWindow, Waits, Quiet
<1>2. reg[w] \in Registry /\ binding[w] \in BindingSet /\ commands.ids \subseteq Ids
  BY DEF SharedInv, RegsOK, BindingsOK, TasksOK
<1>3. CASE RemoveExposure(w)
  <2>1. PICK e \in reg[w].exposures : Await([kind |-> "unexpose", w |-> w, net |-> e.net, id |-> e.id])
    BY <1>3 DEF RemoveExposure
  <2> DEFINE t == [kind |-> "unexpose", w |-> w, net |-> e.net, id |-> e.id]
  <2>2. t \in TaskRows /\ t.kind = "unexpose"
    BY <1>2 DEF TaskRows, Registry, ExposureRows
  <2> HIDE DEF t
  <2> QED BY <1>1, <1>3, <2>1, <2>2, AwaitOK DEF RemoveExposure, t
<1>4. CASE AttachTerminal(w)
  <2>1. PICK n \in reg[w].networks, k \in Terminals, id \in commands.ids :
          /\ Give("terminals", {id})
          /\ Await([kind |-> "attach", w |-> w, net |-> n, id |-> id, key |-> k])
    BY <1>4 DEF AttachTerminal
  <2> DEFINE t == [kind |-> "attach", w |-> w, net |-> n, id |-> id, key |-> k]
  <2>2. t \in TaskRows /\ t.kind = "attach"
    BY <1>2 DEF TaskRows, Registry, Terminals
  <2> HIDE DEF t
  <2> QED BY <1>1, <2>1, <2>2, AwaitOK DEF t
<1>5. CASE DetachTerminal(w)
  <2>1. PICK a \in reg[w].attachments : Await([kind |-> "detach", w |-> w, net |-> a.net, id |-> a.id])
    BY <1>5 DEF DetachTerminal
  <2> DEFINE t == [kind |-> "detach", w |-> w, net |-> a.net, id |-> a.id]
  <2>2. t \in TaskRows /\ t.kind = "detach"
    BY <1>2 DEF TaskRows, Registry, AttachmentRows
  <2> HIDE DEF t
  <2> QED BY <1>1, <1>5, <2>1, <2>2, AwaitOK DEF DetachTerminal, t
<1>6. CASE RefreshWindow(w)
  <2> DEFINE t == [kind |-> "ready", w |-> w, net |-> binding[w].net, id |-> w, b |-> binding[w]]
  <2>1. binding[w].net \in Networks \cup {NoNetwork}
    BY <1>2 DEF BindingSet, NoBinding
  <2>2. t \in TaskRows /\ t.kind = "ready"
    BY <1>2, <2>1, WindowsNameRows DEF TaskRows
  <2>3. Await(t)
    BY <1>6 DEF RefreshWindow
  <2> HIDE DEF t
  <2> QED BY <1>1, <1>6, <2>2, <2>3, AwaitOK DEF RefreshWindow
<1> QED BY <1>3, <1>4, <1>5, <1>6

\* saveBindingPreset reads a network's rows.
LEMMA SaveBindingPresetOK ==
  ASSUME SharedInv, NEW w \in Windows, SaveBindingPreset(w)
  PROVE  SharedInv'
<1>1. UNCHANGED <<doc, reg, synced, binding, tasks, reopening, aborted>>
  BY DEF SaveBindingPreset
<1>2. RegsOK' /\ BindingsOK' /\ PassesOK'
  BY <1>1 DEF SharedInv, RegsOK, BindingsOK, PassesOK
<1>3. PICK n \in reg[w].networks :
        preset' = [hosts |-> {e.host : e \in InNetwork(reg[w].exposures, n)},
                   ports |-> {b.port : b \in InNetwork(reg[w].bindings, n)}]
  BY DEF SaveBindingPreset
<1>4. reg[w] \in Registry
  BY DEF SharedInv, RegsOK
<1>5. /\ {e.host : e \in InNetwork(reg[w].exposures, n)} \subseteq Endpoints
      /\ {b.port : b \in InNetwork(reg[w].bindings, n)} \subseteq LogicalPorts
  BY <1>4 DEF Registry, InNetwork, ExposureRows, BindingRows
<1>6. TasksOK' /\ commands'.ids \subseteq commands.ids
  BY <1>1, <1>3, <1>5, GiveOK DEF SharedInv, TasksOK, SaveBindingPreset
<1>7. (\A e : Held(e)' <=> Held(e)) /\ \A t : Adding(t)' <=> Adding(t)
  BY <1>1 DEF Held, Adding
<1>8. IdsOK'
  BY <1>6, <1>7, IdsKept DEF SharedInv, SameExposure
<1> QED BY <1>2, <1>6, <1>8 DEF SharedInv

-----------------------------------------------------------------------------
(* Changes of a registry that bring no exposure.                            *)

LEMMA QuietChangeOK ==
  ASSUME SharedInv, NEW w \in Windows, NEW r, Good(r), r.exposures \subseteq reg[w].exposures,
         \/ Change(w, r)
         \/ reg' = [reg EXCEPT ![w] = r] /\ Save(w, r) /\ BindingsOK',
         UNCHANGED <<reopening, aborted, preset>>,
         tasks' \subseteq TaskRows, \A t : Adding(t)' => Adding(t),
         \/ UNCHANGED commands
         \/ \E kind, ids : Give(kind, ids)
         \/ \E id : commands' = [commands EXCEPT !.ids = @ \ {id}]
  PROVE  SharedInv'
<1>1. RegsOK' /\ BindingsOK'
  BY ChangeOK, SaveOK DEF SharedInv
<1>2. PassesOK'
  BY DEF SharedInv, PassesOK
<1>3. TasksOK' /\ commands'.ids \subseteq commands.ids
  BY GiveOK DEF SharedInv, TasksOK
<1>4. IdsOK'
  BY <1>3, ChangeIds DEF SharedInv, RegsOK
<1> QED BY <1>1, <1>2, <1>3, <1>4 DEF SharedInv

\* A continuation runs and is gone.
LEMMA EndsOK ==
  ASSUME TasksOK, NEW t \in tasks, Ends(t)
  PROVE  tasks' \subseteq TaskRows /\ \A u : Adding(u)' => Adding(u)
BY DEF TasksOK, Ends, Adding

LEMMA TaskWindow ==
  ASSUME TasksOK, NEW t \in tasks
  PROVE  t \in TaskRows /\ t.w \in Windows
BY DEF TasksOK, TaskRows

\* addNetwork looks at the registry of that moment, whatever was adopted since.
LEMMA NetworkCreatedOK ==
  ASSUME SharedInv, NEW t \in tasks, NetworkCreated(t)
  PROVE  SharedInv'
<1>1. t \in TaskRows /\ t.w \in Windows /\ t.kind = "create"
  BY TaskWindow DEF SharedInv, NetworkCreated
<1>2. t.net \in Networks
  BY <1>1 DEF TaskRows
<1> DEFINE w == t.w
           r == IF CanAddNetwork(reg[w], t.net) THEN addNetwork(reg[w], t.net) ELSE reg[w]
<1>3. Good(reg[w])
  BY <1>1 DEF SharedInv, RegsOK
<1>4. Good(r) /\ r.exposures = reg[w].exposures
  BY <1>2, <1>3, AddNetworkGood
<1>5. Change(w, r) /\ UNCHANGED <<reopening, aborted, preset, commands>> /\ Ends(t)
  BY DEF NetworkCreated, Quiet
<1> HIDE DEF r
<1> QED BY <1>1, <1>4, <1>5, QuietChangeOK, EndsOK DEF SharedInv

LEMMA NetworkRemovalOK ==
  ASSUME SharedInv, NEW t \in tasks, NetworkRemoval(t)
  PROVE  SharedInv'
<1>1. t \in TaskRows /\ t.w \in Windows /\ t.kind = "remove"
  BY TaskWindow DEF SharedInv, NetworkRemoval
<1>2. t \in [kind : {"remove"}, w : Windows, net : Networks, id : Ids, todo : SUBSET Ids]
  BY <1>1 DEF TaskRows
<1> DEFINE w == t.w
<1>3. Good(reg[w])
  BY <1>1 DEF SharedInv, RegsOK
<1>4. UNCHANGED <<reopening, aborted, preset, commands>>
  BY DEF NetworkRemoval, Quiet
<1>5. ASSUME NEW id \in t.todo, tasks' = (tasks \ {t}) \cup {[t EXCEPT !.todo = @ \ {id}]},
             UNCHANGED <<doc, reg, synced, binding>>
      PROVE  SharedInv'
  <2> DEFINE u == [t EXCEPT !.todo = @ \ {id}]
  <2>1. u \in TaskRows /\ u.kind = "remove"
    BY <1>2 DEF TaskRows
  <2> HIDE DEF u
  <2>2. tasks' \subseteq TaskRows /\ \A x : Adding(x)' => Adding(x)
    BY <1>5, <2>1 DEF SharedInv, TasksOK, Adding, u
  <2>3. Change(w, reg[w])
    BY <1>1, <1>5 DEF Change, Save, SharedInv, RegsOK
  <2> QED BY <1>1, <1>3, <1>4, <2>2, <2>3, QuietChangeOK
<1>6. CASE Ends(t) /\ Change(w, removeNetwork(reg[w], t.net))
  <2> DEFINE r == removeNetwork(reg[w], t.net)
  <2>1. Good(r) /\ r.exposures \subseteq reg[w].exposures
    BY <1>3, RemoveNetworkGood
  <2>2. Change(w, r)
    BY <1>6
  <2> HIDE DEF r
  <2> QED BY <1>1, <1>4, <1>6, <2>1, <2>2, QuietChangeOK, EndsOK DEF SharedInv
<1> QED BY <1>5, <1>6 DEF NetworkRemoval

LEMMA ExposureClosedOK ==
  ASSUME SharedInv, NEW t \in tasks, ExposureClosed(t)
  PROVE  SharedInv'
<1>1. t.w \in Windows
  BY TaskWindow DEF SharedInv
<1> DEFINE w == t.w
           r == removeExposure(reg[w], t.id)
<1>2. Good(r) /\ r.exposures \subseteq reg[w].exposures
  BY <1>1, RemoveExposureGood DEF SharedInv, RegsOK
<1>3. Change(w, r) /\ UNCHANGED <<reopening, aborted, preset, commands>> /\ Ends(t)
  BY DEF ExposureClosed, Quiet
<1> HIDE DEF r
<1> QED BY <1>1, <1>2, <1>3, QuietChangeOK, EndsOK DEF SharedInv

\* The rows of the terminal go before the new one is added.
LEMMA TerminalAttachedOK ==
  ASSUME SharedInv, NEW t \in tasks, TerminalAttached(t)
  PROVE  SharedInv'
<1>1. t \in TaskRows /\ t.w \in Windows /\ t.kind = "attach"
  BY TaskWindow DEF SharedInv, TerminalAttached
<1>2. t.net \in Networks /\ t.id \in Ids /\ t.key \in Keys
  BY <1>1 DEF TaskRows
<1> DEFINE w == t.w
           row == [id |-> t.id, net |-> t.net, keys |-> {t.key}, at |-> Now]
           rows == {a \in reg[w].attachments : t.key \notin a.keys}
           cleared == [reg[w] EXCEPT !.attachments = rows]
           r == IF CanAddAttachment(cleared, row) THEN addAttachment(cleared, row) ELSE cleared
<1>3. Good(reg[w])
  BY <1>1 DEF SharedInv, RegsOK
<1>4. Good(cleared) /\ cleared.exposures = reg[w].exposures
  BY <1>3, FewerAttachmentsGood DEF Good, TerminalsOnce
<1>5. Now \in Nat
  BY DEF Now, SharedInv, TasksOK
<1>6. row \in AttachmentRows
  BY <1>2, <1>5 DEF AttachmentRows
<1>7. Change(w, r) /\ UNCHANGED <<reopening, aborted, preset, commands>> /\ Ends(t)
  BY DEF TerminalAttached, Quiet
<1> HIDE DEF cleared, row
<1>8. Good(r) /\ r.exposures = reg[w].exposures
  BY <1>4, <1>6, SetAttachmentGood DEF CanAddAttachment, addAttachment
<1> HIDE DEF r
<1> QED BY <1>1, <1>7, <1>8, QuietChangeOK, EndsOK DEF SharedInv

LEMMA TerminalDetachedOK ==
  ASSUME SharedInv, NEW t \in tasks, TerminalDetached(t)
  PROVE  SharedInv'
<1>1. t.w \in Windows
  BY TaskWindow DEF SharedInv
<1> DEFINE w == t.w
           r == removeAttachment(reg[w], t.id)
<1>2. Good(r) /\ r.exposures = reg[w].exposures
  BY <1>1, RemoveAttachmentGood DEF SharedInv, RegsOK
<1>3. Change(w, r) /\ UNCHANGED <<reopening, aborted, preset, commands>> /\ Ends(t)
  BY DEF TerminalDetached, Quiet
<1> HIDE DEF r
<1> QED BY <1>1, <1>2, <1>3, QuietChangeOK, EndsOK DEF SharedInv

\* The window's own row is set from a binding, and the binding with it.
LEMMA RowFollowsBindingOK ==
  ASSUME SharedInv, NEW w \in Windows, NEW b \in BindingSet,
         LET r == WindowRow(w, b, reg[w])
         IN  /\ reg' = [reg EXCEPT ![w] = r] /\ Save(w, r)
             /\ binding' = [binding EXCEPT ![w] = IF r = reg[w] THEN b ELSE Reconciled(b, r)],
         UNCHANGED <<reopening, aborted, preset, commands>>,
         tasks' \subseteq TaskRows, \A t : Adding(t)' => Adding(t)
  PROVE  SharedInv'
<1> DEFINE r == WindowRow(w, b, reg[w])
<1>1. Good(r) /\ r.exposures = reg[w].exposures
  BY WindowRowGood DEF SharedInv, RegsOK
<1>2. reg' = [reg EXCEPT ![w] = r] /\ Save(w, r)
  OBVIOUS
<1>3. Reconciled(b, r) \in BindingSet
  BY ReconciledOK
<1>4. BindingsOK'
  BY <1>3 DEF SharedInv, BindingsOK
<1> HIDE DEF r
<1> QED BY <1>1, <1>2, <1>4, QuietChangeOK

LEMMA WindowAttachedOK ==
  ASSUME SharedInv, NEW t \in tasks, WindowAttached(t)
  PROVE  SharedInv'
<1>1. t \in TaskRows /\ t.w \in Windows /\ t.kind = "bind"
  BY TaskWindow DEF SharedInv, WindowAttached
<1>2. t \in [kind : {"bind"}, w : Windows, net : Networks, id : Ids, stage : {"prepare", "inject"}, at : Nat]
  BY <1>1 DEF TaskRows
<1> DEFINE w == t.w
           b == [net |-> t.net, status |-> "attached", at |-> t.at]
           r == WindowRow(w, b, reg[w])
<1>3. b \in BindingSet /\ [b EXCEPT !.status = "error"] \in BindingSet /\ [b EXCEPT !.status = "attached"] \in BindingSet
  BY <1>2 DEF BindingSet
<1>4. UNCHANGED <<reopening, aborted, preset, commands>>
  BY DEF WindowAttached, Quiet
<1>5. CASE /\ tasks' = (tasks \ {t}) \cup {[t EXCEPT !.stage = "inject"]}
           /\ reg' = [reg EXCEPT ![w] = r] /\ Save(w, r)
           /\ binding' = [binding EXCEPT ![w] = IF r = reg[w] THEN b ELSE Reconciled(b, r)]
  <2> DEFINE u == [t EXCEPT !.stage = "inject"]
  <2>1. u \in TaskRows /\ u.kind = "bind"
    BY <1>2 DEF TaskRows
  <2> HIDE DEF u
  <2>2. tasks' \subseteq TaskRows /\ \A x : Adding(x)' => Adding(x)
    BY <1>5, <2>1 DEF SharedInv, TasksOK, Adding, u
  <2> HIDE DEF b
  <2> QED BY <1>1, <1>3, <1>4, <1>5, <2>2, RowFollowsBindingOK
<1>6. CASE /\ Ends(t) /\ UNCHANGED <<doc, reg, synced>>
           /\ \E status \in {"attached", "error"} :
                binding' = [binding EXCEPT ![w] = [b EXCEPT !.status = status]]
  <2>1. BindingsOK'
    BY <1>3, <1>6 DEF SharedInv, BindingsOK
  <2>2. reg' = [reg EXCEPT ![w] = reg[w]] /\ Save(w, reg[w]) /\ Good(reg[w])
    BY <1>1, <1>6 DEF Save, SharedInv, RegsOK
  <2> QED BY <1>1, <1>4, <1>6, <2>1, <2>2, QuietChangeOK, EndsOK DEF SharedInv
<1> QED BY <1>5, <1>6 DEF WindowAttached

LEMMA WindowDetachedOK ==
  ASSUME SharedInv, NEW t \in tasks, WindowDetached(t)
  PROVE  SharedInv'
<1>1. t.w \in Windows
  BY TaskWindow DEF SharedInv
<1> DEFINE w == t.w
           r == WindowRow(w, binding[w], reg[w])
<1>2. Good(r) /\ r.exposures = reg[w].exposures
  BY <1>1, WindowRowGood DEF SharedInv, RegsOK, BindingsOK
<1>3. Change(w, r) /\ UNCHANGED <<reopening, aborted, preset, commands>> /\ Ends(t)
  BY DEF WindowDetached, Quiet
<1> HIDE DEF r
<1> QED BY <1>1, <1>2, <1>3, QuietChangeOK, EndsOK DEF SharedInv

LEMMA WindowRefreshedOK ==
  ASSUME SharedInv, NEW t \in tasks, WindowRefreshed(t)
  PROVE  SharedInv'
<1>1. t \in TaskRows /\ t.w \in Windows /\ t.kind = "ready"
  BY TaskWindow DEF SharedInv, WindowRefreshed
<1>2. t.b \in BindingSet
  BY <1>1 DEF TaskRows
<1> DEFINE w == t.w
           noted(ready) == IF ~ready THEN [t.b EXCEPT !.status = "error"]
                           ELSE IF t.b.status = "error" THEN [t.b EXCEPT !.status = "attached"]
                           ELSE binding[w]
<1>3. PICK ready \in (IF t.b = NoBinding THEN {TRUE} ELSE BOOLEAN) :
        LET b == noted(ready)
            r == WindowRow(w, b, reg[w])
        IN  /\ reg' = [reg EXCEPT ![w] = r] /\ Save(w, r)
            /\ binding' = [binding EXCEPT ![w] = IF r = reg[w] THEN b ELSE Reconciled(b, r)]
  BY DEF WindowRefreshed
<1> DEFINE b == noted(ready)
<1>4. b \in BindingSet
  <2>1. binding[w] \in BindingSet
    BY <1>1 DEF SharedInv, BindingsOK
  <2>2. t.b # NoBinding => /\ [t.b EXCEPT !.status = "error"] \in BindingSet
                           /\ [t.b EXCEPT !.status = "attached"] \in BindingSet
    BY <1>2 DEF BindingSet
  <2>3. t.b = NoBinding => ready /\ t.b.status # "error"
    BY <1>3 DEF NoBinding
  <2> QED BY <2>1, <2>2, <2>3
<1>5. UNCHANGED <<reopening, aborted, preset, commands>> /\ Ends(t)
  BY DEF WindowRefreshed, Quiet
<1>6. tasks' \subseteq TaskRows /\ \A u : Adding(u)' => Adding(u)
  BY <1>5, EndsOK DEF SharedInv
<1>7. LET r == WindowRow(w, b, reg[w])
      IN  /\ reg' = [reg EXCEPT ![w] = r] /\ Save(w, r)
          /\ binding' = [binding EXCEPT ![w] = IF r = reg[w] THEN b ELSE Reconciled(b, r)]
  BY <1>3
<1> HIDE DEF b
<1> QED BY <1>1, <1>4, <1>5, <1>6, <1>7, RowFollowsBindingOK

\* createHostAccessBinding and removeHostAccessBinding.
LEMMA HostAccessBindingsOK ==
  ASSUME SharedInv, NEW w \in Windows, CreateHostAccessBinding(w) \/ RemoveHostAccessBinding(w)
  PROVE  SharedInv'
<1>1. Good(reg[w]) /\ commands.ids \subseteq Ids
  BY DEF SharedInv, RegsOK, TasksOK
<1>2. UNCHANGED <<tasks, reopening, aborted, preset>>
  BY DEF CreateHostAccessBinding, RemoveHostAccessBinding, Quiet
<1>3. tasks' \subseteq TaskRows /\ \A t : Adding(t)' => Adding(t)
  BY <1>2 DEF SharedInv, TasksOK, Adding
<1>4. CASE CreateHostAccessBinding(w)
  <2>1. PICK n \in reg[w].networks, p \in LogicalPorts, id \in commands.ids :
          LET b == [id |-> id, net |-> n, port |-> p]
          IN  /\ Give("bindings", {id}) /\ CanAddHostAccessBinding(reg[w], b)
              /\ Change(w, addHostAccessBinding(reg[w], b))
    BY <1>4 DEF CreateHostAccessBinding
  <2> DEFINE b == [id |-> id, net |-> n, port |-> p]
             old == Without(reg[w].bindings, id)
             rows == old \cup {b}
             r == [reg[w] EXCEPT !.bindings = rows]
  <2>2. n \in Networks /\ reg[w].bindings \subseteq BindingRows
    BY <1>1 DEF Good, Registry
  <2>3. b \in BindingRows /\ b.net = n /\ b.port = p /\ b.id = id
    BY <1>1, <2>2 DEF BindingRows
  <2>4. /\ old \subseteq reg[w].bindings
        /\ \A c \in old : ~(c.net = n /\ c.port = p)
    BY <2>1, <2>3 DEF CanAddHostAccessBinding, Without
  <2>5. Change(w, r)
    BY <2>1, <2>3 DEF addHostAccessBinding
  <2> HIDE DEF b, old
  <2>6. /\ rows \subseteq BindingRows /\ \A c \in rows : c.net \in reg[w].networks
        /\ \A c, d \in rows : c.net = d.net /\ c.port = d.port => c = d
    BY <1>1, <2>2, <2>3, <2>4 DEF Good, RowsAreSound
  <2> HIDE DEF rows
  <2>7. Good(r) /\ r.exposures = reg[w].exposures
    BY <1>1, <2>6, BindingsGood
  <2> HIDE DEF r
  <2> QED BY <1>2, <1>3, <2>1, <2>5, <2>7, QuietChangeOK
<1>5. CASE RemoveHostAccessBinding(w)
  <2>1. PICK b \in reg[w].bindings : Change(w, removeHostAccessBinding(reg[w], b.id))
    BY <1>5 DEF RemoveHostAccessBinding
  <2> DEFINE rows == Without(reg[w].bindings, b.id)
             r == [reg[w] EXCEPT !.bindings = rows]
  <2>2. rows \subseteq reg[w].bindings
    BY DEF Without
  <2>3. Change(w, r)
    BY <2>1 DEF removeHostAccessBinding
  <2> HIDE DEF rows
  <2>4. /\ rows \subseteq BindingRows /\ \A c \in rows : c.net \in reg[w].networks
        /\ \A c, d \in rows : c.net = d.net /\ c.port = d.port => c = d
    BY <1>1, <2>2 DEF Good, RowsAreSound, Registry
  <2>5. Good(r) /\ r.exposures = reg[w].exposures
    BY <1>1, <2>4, BindingsGood
  <2> HIDE DEF r
  <2> QED BY <1>2, <1>3, <1>5, <2>3, <2>5, QuietChangeOK DEF RemoveHostAccessBinding
<1> QED BY <1>4, <1>5

\* applyBindingPreset adds the ports the network has not bound.
LEMMA ApplyBindingPresetOK ==
  ASSUME SharedInv, NEW w \in Windows, ApplyBindingPreset(w)
  PROVE  SharedInv'
<1> DEFINE free(n) == {q \in preset.ports : \A b \in InNetwork(reg[w].bindings, n) : b.port # q}
           hosts(n) == {h \in preset.hosts : \A e \in InNetwork(reg[w].exposures, n) : e.host # h}
<1>1. PICK n \in reg[w].networks, ids \in [preset.ports -> commands.ids] :
        /\ Give("presets", {ids[p] : p \in preset.ports})
        /\ Change(w, [reg[w] EXCEPT !.bindings = @ \cup {[id |-> ids[p], net |-> n, port |-> p] : p \in free(n)}])
        /\ Await([kind |-> "expose", w |-> w, net |-> n, id |-> w, todo |-> hosts(n)])
  BY DEF ApplyBindingPreset
<1> DEFINE new == {[id |-> ids[p], net |-> n, port |-> p] : p \in free(n)}
           rows == reg[w].bindings \cup new
           r == [reg[w] EXCEPT !.bindings = rows]
           t == [kind |-> "expose", w |-> w, net |-> n, id |-> w, todo |-> hosts(n)]
<1>2. /\ Good(reg[w]) /\ commands.ids \subseteq Ids
      /\ preset.ports \subseteq LogicalPorts /\ preset.hosts \subseteq Endpoints
  BY DEF SharedInv, RegsOK, TasksOK
<1>3. n \in Networks /\ reg[w].bindings \subseteq BindingRows
  BY <1>2 DEF Good, Registry
<1>4. \A c \in new : \E p \in preset.ports :
        /\ c = [id |-> ids[p], net |-> n, port |-> p] /\ c \in BindingRows
        /\ \A b \in reg[w].bindings : b.net = n => b.port # p
  BY <1>2, <1>3 DEF BindingRows, InNetwork
<1>5. t \in TaskRows /\ t.kind = "expose" /\ t.id = t.w
  BY <1>2, <1>3, WindowsNameRows DEF TaskRows
<1>6. Change(w, r) /\ tasks' = tasks \cup {t} /\ UNCHANGED <<reopening, aborted, preset>>
  BY <1>1 DEF Await, ApplyBindingPreset, Quiet
<1> HIDE DEF new, t
<1>7. \A c \in new : c \in BindingRows /\ c.net = n /\ (\A b \in reg[w].bindings : b.net = n => b.port # c.port)
  <2> SUFFICES ASSUME NEW c \in new
               PROVE  c \in BindingRows /\ c.net = n /\ (\A b \in reg[w].bindings : b.net = n => b.port # c.port)
    OBVIOUS
  <2>1. PICK p \in preset.ports :
          /\ c = [id |-> ids[p], net |-> n, port |-> p] /\ c \in BindingRows
          /\ \A b \in reg[w].bindings : b.net = n => b.port # p
    BY <1>4
  <2>2. c.net = n /\ c.port = p
    BY <2>1
  <2> QED BY <2>1, <2>2
<1>8. \A c, d \in new : c.port = d.port => c = d
  <2> SUFFICES ASSUME NEW c \in new, NEW d \in new, c.port = d.port PROVE c = d
    OBVIOUS
  <2>1. PICK p : c = [id |-> ids[p], net |-> n, port |-> p]
    BY <1>4
  <2>2. PICK q : d = [id |-> ids[q], net |-> n, port |-> q]
    BY <1>4
  <2>3. p = q
    BY <2>1, <2>2
  <2> QED BY <2>1, <2>2, <2>3
<1>9. /\ rows \subseteq BindingRows /\ \A c \in rows : c.net \in reg[w].networks
      /\ \A c, d \in rows : c.net = d.net /\ c.port = d.port => c = d
  BY <1>2, <1>3, <1>7, <1>8 DEF Good, RowsAreSound
<1> HIDE DEF rows
<1>10. Good(r) /\ r.exposures = reg[w].exposures
  BY <1>2, <1>9, BindingsGood
<1>11. tasks' \subseteq TaskRows /\ \A u : Adding(u)' => Adding(u)
  BY <1>5, <1>6 DEF SharedInv, TasksOK, Adding
<1> HIDE DEF r
<1> QED BY <1>1, <1>6, <1>10, <1>11, QuietChangeOK

LEMMA ResetAllTerminalsOK ==
  ASSUME SharedInv, NEW w \in Windows, ResetAllTerminals(w)
  PROVE  SharedInv'
<1> DEFINE rows == {}
           r == [reg[w] EXCEPT !.attachments = rows]
<1>1. Good(r) /\ r.exposures = reg[w].exposures
  BY FewerAttachmentsGood DEF SharedInv, RegsOK, Good
<1>2. reg' = [reg EXCEPT ![w] = r] /\ Save(w, r) /\ UNCHANGED <<tasks, reopening, aborted, preset>>
  BY DEF ResetAllTerminals, Quiet
<1>3. BindingsOK'
  BY DEF ResetAllTerminals, SharedInv, BindingsOK, BindingSet
<1>4. tasks' \subseteq TaskRows /\ \A t : Adding(t)' => Adding(t)
  BY <1>2 DEF SharedInv, TasksOK, Adding
<1> HIDE DEF r
<1> QED BY <1>1, <1>2, <1>3, <1>4, QuietChangeOK DEF ResetAllTerminals

LEMMA DetachWindowOK ==
  ASSUME SharedInv, NEW w \in Windows, DetachWindow(w)
  PROVE  SharedInv'
<1> DEFINE t == [kind |-> "unbind", w |-> w, net |-> NoNetwork, id |-> w]
<1>1. t \in TaskRows /\ t.kind = "unbind"
  BY WindowsNameRows DEF TaskRows
<1>2. tasks' = tasks \cup {t} /\ UNCHANGED <<doc, reg, synced, reopening, aborted, preset>>
  BY DEF DetachWindow, Await, Quiet
<1> HIDE DEF t
<1>3. tasks' \subseteq TaskRows /\ \A u : Adding(u)' => Adding(u)
  BY <1>1, <1>2 DEF SharedInv, TasksOK, Adding
<1>4. BindingsOK'
  BY DEF DetachWindow, SharedInv, BindingsOK, BindingSet
<1>5. reg' = [reg EXCEPT ![w] = reg[w]] /\ Save(w, reg[w]) /\ Good(reg[w])
  BY <1>2 DEF Save, SharedInv, RegsOK
<1> QED BY <1>2, <1>3, <1>4, <1>5, QuietChangeOK DEF DetachWindow

-----------------------------------------------------------------------------
(* An exposure is added when its listener answers.                          *)

LEMMA ExposureOpenedOK ==
  ASSUME SharedInv, NEW t \in tasks, ExposureOpened(t)
  PROVE  SharedInv'
<1>1. t \in TaskRows /\ t.w \in Windows /\ t.kind = "expose"
  BY TaskWindow DEF SharedInv, ExposureOpened
<1>2. t \in [kind : {"expose"}, w : Windows, net : Networks, id : Ids, todo : SUBSET Endpoints]
  BY <1>1 DEF TaskRows
<1> DEFINE w == t.w
<1>3. Good(reg[w]) /\ commands \in [kinds : SUBSET STRING, left : 0..10, ids : SUBSET Ids]
  BY <1>1 DEF SharedInv, RegsOK, TasksOK
<1>4. UNCHANGED <<reopening, aborted, preset>>
  BY DEF ExposureOpened, Quiet
<1>5. CASE Ends(t) /\ UNCHANGED <<doc, reg, synced, binding, commands>>
  <2>1. Change(w, reg[w])
    BY <1>1, <1>5 DEF Change, Save, SharedInv, RegsOK
  <2> QED BY <1>1, <1>3, <1>4, <1>5, <2>1, QuietChangeOK, EndsOK DEF SharedInv
<1>6. ASSUME NEW h \in t.todo, NEW id \in commands.ids \cup {t.id}, NEW e, e = Exposure(id, t.net, h),
             NEW added \in BOOLEAN,
             IF t.id = t.w THEN NewId(id) ELSE id = t.id,
             commands' = [commands EXCEPT !.ids = @ \ {id}],
             added => CanAddExposure(reg[w], e),
             tasks' = (tasks \ {t}) \cup
                        IF added /\ t.todo # {h} THEN {[t EXCEPT !.todo = @ \ {h}]} ELSE {},
             Change(w, IF added THEN addExposure(reg[w], e) ELSE reg[w])
      PROVE  SharedInv'
  <2>1. id \in Ids /\ commands' \in [kinds : SUBSET STRING, left : 0..10, ids : SUBSET Ids]
          /\ commands'.ids = commands.ids \ {id}
    BY <1>2, <1>3, <1>6
  <2>2. e \in ExposureRows /\ e.id = id
    BY <1>2, <1>6, <2>1 DEF Exposure, ExposureRows
  <2> DEFINE u == [t EXCEPT !.todo = @ \ {h}]
  <2>3. u \in TaskRows /\ u.id = t.id /\ u.w = t.w
    BY <1>2 DEF TaskRows
  <2>4. t.id = t.w => id \in commands.ids
    <3>1. NewId(id) => id \in commands.ids
      BY DEF NewId
    <3> QED BY <1>6, <3>1
  <2>5. t.id # t.w => id = t.id /\ Adding(t) /\ t.todo = {h}
    <3>1. t.id # t.w => id = t.id /\ Adding(t)
      BY <1>1, <1>6 DEF Adding
    <3> QED BY <1>6, <3>1 DEF SharedInv, IdsOK
  <2>6. tasks' \subseteq TaskRows /\ \A x \in tasks' : x \in tasks \ {t} \/ (x = u /\ t.todo # {h})
    BY <1>6, <2>3 DEF SharedInv, TasksOK
  <2> HIDE DEF u
  <2>7. \A x : Adding(x)' => Adding(x) /\ x # t
    BY <2>3, <2>5, <2>6 DEF Adding
  <2>8. CASE ~added
    BY <1>1, <1>3, <1>4, <1>6, <2>6, <2>7, <2>8, QuietChangeOK
  <2>9. CASE added
    <3> DEFINE r == addExposure(reg[w], e)
    <3>1. Good(r) /\ \A f \in r.exposures : f = e \/ f \in reg[w].exposures
      BY <1>3, <1>6, <2>2, <2>9, AddExposureGood
    <3>2. Change(w, r)
      BY <1>6, <2>9
    <3> HIDE DEF r
    <3>3. RegsOK' /\ BindingsOK'
      BY <1>1, <3>1, <3>2, ChangeOK DEF SharedInv
    <3>4. PassesOK' /\ TasksOK'
      BY <1>4, <2>1, <2>6 DEF SharedInv, PassesOK, TasksOK
    <3>5. ASSUME NEW f, Held(f)' PROVE Held(f) \/ f = e
      <4>1. Held(f) \/ f \in r.exposures
        BY <1>1, <1>4, <3>2, <3>5, ChangeHeld DEF SharedInv, RegsOK
      <4> QED BY <1>1, <3>1, <4>1 DEF Held
    <3>6. \A f : Held(f) => f.id # id
      BY <2>4, <2>5 DEF SharedInv, IdsOK
    <3>7. \A x : Adding(x)' => x.id # id
      BY <2>4, <2>5, <2>7 DEF SharedInv, IdsOK
    <3>8. \A f, g : Held(f)' /\ Held(g)' /\ f.id = g.id => SameExposure(f, g)
      BY <2>2, <3>5, <3>6 DEF SharedInv, IdsOK, SameExposure
    <3>9. \A f : Held(f)' => f.id \notin commands'.ids
      BY <2>1, <2>2, <3>5 DEF SharedInv, IdsOK
    <3>10. ASSUME NEW x, Adding(x)'
           PROVE  /\ x.id \notin commands'.ids
                  /\ \A f : Held(f)' => f.id # x.id
                  /\ \A y : Adding(y)' /\ y.id = x.id => y = x
                  /\ \E k : x.todo = {k}
      <4>1. Adding(x) /\ x.id # id
        BY <2>7, <3>7, <3>10
      <4> QED BY <2>1, <2>2, <2>7, <3>5, <4>1 DEF SharedInv, IdsOK
    <3>11. IdsOK'
      BY <3>8, <3>9, <3>10 DEF IdsOK
    <3> QED BY <3>3, <3>4, <3>11 DEF SharedInv
  <2> QED BY <2>8, <2>9
<1>7. CASE \E h \in t.todo, id \in commands.ids \cup {t.id} :
             /\ IF t.id = t.w THEN NewId(id) ELSE id = t.id
             /\ commands' = [commands EXCEPT !.ids = @ \ {id}]
             /\ LET e == Exposure(id, t.net, h)
                    added == (t.id = t.w => director = t.w) /\ Opens(t.w, e) /\ CanAddExposure(reg[t.w], e)
                IN  /\ tasks' = (tasks \ {t}) \cup
                         IF added /\ t.todo # {h} THEN {[t EXCEPT !.todo = @ \ {h}]} ELSE {}
                    /\ Change(t.w, IF added THEN addExposure(reg[t.w], e) ELSE reg[t.w])
  <2>1. PICK h \in t.todo, id \in commands.ids \cup {t.id} :
             /\ IF t.id = t.w THEN NewId(id) ELSE id = t.id
             /\ commands' = [commands EXCEPT !.ids = @ \ {id}]
             /\ LET e == Exposure(id, t.net, h)
                    added == (t.id = t.w => director = t.w) /\ Opens(t.w, e) /\ CanAddExposure(reg[t.w], e)
                IN  /\ tasks' = (tasks \ {t}) \cup
                         IF added /\ t.todo # {h} THEN {[t EXCEPT !.todo = @ \ {h}]} ELSE {}
                    /\ Change(t.w, IF added THEN addExposure(reg[t.w], e) ELSE reg[t.w])
    BY <1>7
  <2> DEFINE e == Exposure(id, t.net, h)
             added == (t.id = t.w => director = t.w) /\ Opens(t.w, e) /\ CanAddExposure(reg[t.w], e)
  <2>2. added \in BOOLEAN /\ (added => CanAddExposure(reg[w], e))
    OBVIOUS
  <2>3. /\ tasks' = (tasks \ {t}) \cup
             IF added /\ t.todo # {h} THEN {[t EXCEPT !.todo = @ \ {h}]} ELSE {}
        /\ Change(w, IF added THEN addExposure(reg[w], e) ELSE reg[w])
    BY <2>1
  <2> HIDE DEF added
  <2> QED BY <1>6, <2>1, <2>2, <2>3
<1> QED BY <1>5, <1>7 DEF ExposureOpened

-----------------------------------------------------------------------------
(* Documents are adopted and exposures reopened.                            *)

\* Whatever is adopted from the document was held already.
LEMMA AdoptedIds ==
  ASSUME IdsOK, doc'.exposures = doc.exposures,
         \A v \in Windows : /\ reg'[v].exposures \in {reg[v].exposures, doc.exposures}
                            /\ reopening'[v].todo = reopening[v].todo,
         commands'.ids \subseteq commands.ids, \A t : Adding(t)' => Adding(t)
  PROVE  IdsOK'
<1>1. \A e : Held(e)' => Held(e)
  BY DEF Held
<1> QED BY <1>1, IdsKept DEF SameExposure

LEMMA ReloadOK ==
  ASSUME SharedInv, NEW w \in Windows, reloadSharedNetworkState(w)
  PROVE  SharedInv'
<1>1. Adopt(w) /\ UNCHANGED <<tasks, aborted, preset, commands>>
  BY DEF reloadSharedNetworkState
<1>2. /\ RegsOK' /\ BindingsOK' /\ PassesOK' /\ doc'.exposures = doc.exposures
      /\ \A v \in Windows : /\ reg'[v].exposures \in {reg[v].exposures, doc.exposures}
                            /\ reopening'[v].todo = reopening[v].todo
  BY <1>1, AdoptOK DEF SharedInv
<1>3. TasksOK' /\ \A t : Adding(t)' => Adding(t)
  BY <1>1 DEF SharedInv, TasksOK, Adding
<1>4. IdsOK'
  BY <1>1, <1>2, <1>3, AdoptedIds DEF SharedInv
<1> QED BY <1>2, <1>3, <1>4 DEF SharedInv

LEMMA AttachWindowOK ==
  ASSUME SharedInv, NEW w \in Windows, AttachWindow(w)
  PROVE  SharedInv'
<1>1. Adopt(w) /\ Give("window", {}) /\ UNCHANGED <<aborted, preset>>
  BY DEF AttachWindow, Quiet
<1>2. /\ RegsOK' /\ BindingsOK' /\ PassesOK' /\ doc'.exposures = doc.exposures
      /\ \A v \in Windows : /\ reg'[v].exposures \in {reg[v].exposures, doc.exposures}
                            /\ reopening'[v].todo = reopening[v].todo
  BY <1>1, AdoptOK DEF SharedInv
<1>3. PICK n \in reg'[w].networks :
        Await([kind |-> "bind", w |-> w, net |-> n, id |-> w, stage |-> "prepare", at |-> Now])
  BY DEF AttachWindow
<1>4. n \in Networks /\ Now \in Nat
  <2>1. reg'[w] \in Registry
    BY <1>2 DEF RegsOK
  <2>2. commands.left \in 0..10
    BY DEF SharedInv, TasksOK
  <2>3. n \in Networks
    BY <1>3, <2>1 DEF Registry
  <2> QED BY <2>2, <2>3 DEF Now
<1> DEFINE at == Now
           t == [kind |-> "bind", w |-> w, net |-> n, id |-> w, stage |-> "prepare", at |-> at]
<1>5. tasks' = tasks \cup {t}
  BY <1>3 DEF Await
<1> HIDE DEF at
<1>6. t \in TaskRows /\ t.kind = "bind"
  BY <1>4, WindowsNameRows DEF TaskRows, at
<1> HIDE DEF t
<1>7. TasksOK' /\ commands'.ids \subseteq commands.ids
  BY <1>1, <1>5, <1>6, GiveOK DEF SharedInv, TasksOK
<1>8. \A u : Adding(u)' => Adding(u)
  BY <1>5, <1>6 DEF Adding
<1>9. IdsOK'
  BY <1>2, <1>7, <1>8, AdoptedIds DEF SharedInv
<1> QED BY <1>2, <1>7, <1>9 DEF SharedInv

LEMMA StartOK ==
  ASSUME SharedInv, NEW w \in Windows, Start(w)
  PROVE  SharedInv'
<1> DEFINE loaded == replacePersistedState(doc)
           b == Reconciled(binding[w], loaded)
           r == WindowRow(w, b, loaded)
<1>1. /\ reg' = [reg EXCEPT ![w] = r] /\ binding' = [binding EXCEPT ![w] = b]
      /\ IF r = doc THEN doc' = doc /\ synced' = synced \cup {w} ELSE doc' = r /\ synced' = {w}
      /\ reopening' = IF director = w THEN refreshSharedNetworkRoutingState(w) ELSE reopening
      /\ UNCHANGED <<tasks, aborted, preset, commands>>
  BY DEF Start
<1> HIDE DEF loaded, b, r
<1>2. /\ RegsOK' /\ BindingsOK' /\ doc'.exposures = doc.exposures
      /\ \A v \in Windows : reg'[v].exposures \in {reg[v].exposures, doc.exposures}
  BY <1>1, LoadOK DEF SharedInv, loaded, b, r
<1>3. PassesOK' /\ \A v \in Windows : reopening'[v].todo = reopening[v].todo
  BY <1>1, RefreshPasses DEF SharedInv, PassesOK
<1>4. TasksOK' /\ \A t : Adding(t)' => Adding(t)
  BY <1>1 DEF SharedInv, TasksOK, Adding
<1>5. IdsOK'
  BY <1>1, <1>2, <1>3, <1>4, AdoptedIds DEF SharedInv
<1> QED BY <1>2, <1>3, <1>4, <1>5 DEF SharedInv

\* A step of a pass: what it still has to do was held, and no registry changes.
LEMMA PassStepOK ==
  ASSUME SharedInv, NEW w \in Windows, NEW p \in PassStates, reopening' = [reopening EXCEPT ![w] = p],
         p.todo # {} => p.at = "reopen",
         p.todo \subseteq reopening[w].todo \cup reg[w].exposures,
         aborted' \subseteq Windows, UNCHANGED <<doc, reg, synced, binding, preset>>,
         tasks' \subseteq tasks,
         UNCHANGED commands \/ \E kind, ids : Give(kind, ids)
  PROVE  SharedInv'
<1>1. RegsOK' /\ BindingsOK'
  BY DEF SharedInv, RegsOK, BindingsOK
<1>2. reopening' \in [Windows -> PassStates] /\ reopening'[w] = p
        /\ \A v \in Windows : v # w => reopening'[v] = reopening[v]
  BY DEF SharedInv, PassesOK
<1>3. PassesOK'
  BY <1>2 DEF SharedInv, PassesOK
<1>4. TasksOK' /\ commands'.ids \subseteq commands.ids
  BY GiveOK DEF SharedInv, TasksOK
<1>5. \A e : Held(e)' => Held(e)
  BY <1>2 DEF Held
<1>6. \A t : Adding(t)' => Adding(t)
  BY DEF Adding
<1>7. IdsOK'
  BY <1>4, <1>5, <1>6, IdsKept DEF SharedInv, SameExposure
<1> QED BY <1>1, <1>3, <1>4, <1>7 DEF SharedInv

LEMMA IdleOK == Idle \in PassStates /\ Idle.todo = {} /\ Idle.at = "idle"
BY DEF Idle, PassStates

LEMMA PassStartsOK ==
  ASSUME SharedInv, NEW w \in Windows, PassStarts(w)
  PROVE  SharedInv'
<1> DEFINE rows == {e \in reg[w].exposures : e.status = "active"}
           q == [queued |-> FALSE, at |-> "reopen", todo |-> rows]
           p == IF director # w THEN Idle ELSE q
<1>1. rows \subseteq ExposureRows /\ rows \subseteq reg[w].exposures
  BY DEF SharedInv, RegsOK, Registry
<1>2. reopening' = [reopening EXCEPT ![w] = p]
        /\ UNCHANGED <<doc, reg, synced, binding, tasks, aborted, preset, commands>>
  BY DEF PassStarts
<1> HIDE DEF rows
<1>3. q \in PassStates /\ q.todo = rows /\ q.at = "reopen"
  BY <1>1 DEF PassStates
<1> HIDE DEF q
<1>4. p \in PassStates /\ (p.todo # {} => p.at = "reopen") /\ p.todo \subseteq reg[w].exposures
  BY <1>1, <1>3, IdleOK
<1> HIDE DEF p
<1> QED BY <1>2, <1>4, PassStepOK DEF SharedInv, PassesOK

LEMMA PassEndsOK ==
  ASSUME SharedInv, NEW w \in Windows, PassEnds(w)
  PROVE  SharedInv'
<1> DEFINE q == [reopening[w] EXCEPT !.at = "start"]
           p == IF reopening[w].queued /\ director = w THEN q ELSE Idle
<1>1. reopening[w] \in PassStates /\ reopening[w].todo = {} /\ reopening \in [Windows -> PassStates]
  BY DEF SharedInv, PassesOK, PassEnds
<1>2. reopening' = [reopening EXCEPT ![w] = p]
        /\ UNCHANGED <<doc, reg, synced, binding, tasks, aborted, preset, commands>>
  BY <1>1 DEF PassEnds
<1>3. q \in PassStates /\ q.todo = {}
  BY <1>1 DEF PassStates
<1> HIDE DEF q
<1>4. p \in PassStates /\ p.todo = {}
  BY <1>3, IdleOK
<1> HIDE DEF p
<1> QED BY <1>2, <1>4, PassStepOK DEF SharedInv, PassesOK

\* updateExposure puts the row of the snapshot back under its id.  It is the row the
\* registry has, up to its status, so its network is there and its endpoint is its own.
LEMMA ReopenFailsOK ==
  ASSUME SharedInv, NEW w \in Windows, NEW e \in reopening[w].todo, CanUpdateExposure(reg[w], e),
         Change(w, updateExposure(reg[w], [e EXCEPT !.status = "error"])),
         reopening' = [reopening EXCEPT ![w].todo = @ \ {e}],
         UNCHANGED <<aborted, tasks, preset, commands>>
  PROVE  SharedInv'
<1> DEFINE f == [e EXCEPT !.status = "error"]
           r == updateExposure(reg[w], f)
<1>1. e \in ExposureRows /\ Held(e) /\ reopening[w] \in PassStates
  BY DEF SharedInv, PassesOK, PassStates, Held
<1>2. f \in ExposureRows /\ SameExposure(e, f)
  BY <1>1 DEF ExposureRows, SameExposure
<1>3. Good(reg[w])
  BY DEF SharedInv, RegsOK
<1>4. PICK g \in reg[w].exposures : g.id = e.id
  BY DEF CanUpdateExposure, HasId
<1>5. g.net = e.net /\ g.host = e.host
  <2>1. Held(g)
    BY DEF Held
  <2> QED BY <1>1, <1>4, <2>1 DEF SharedInv, IdsOK, SameExposure
<1>6. Change(w, r)
  OBVIOUS
<1> HIDE DEF f
<1>7. CanAddExposure(reg[w], f)
  <2>1. f.net \in reg[w].networks
    BY <1>2, <1>3, <1>5 DEF Good, RowsAreSound, SameExposure
  <2>2. ASSUME NEW x \in Without(reg[w].exposures, f.id) PROVE x.host # f.host
    <3>1. x \in reg[w].exposures /\ x.id # f.id
      BY <2>2 DEF Without
    <3> QED BY <1>2, <1>3, <1>4, <1>5, <3>1 DEF Good, RowsAreSound, SameExposure
  <2> QED BY <2>1, <2>2 DEF CanAddExposure
<1>8. Good(r) /\ \A x \in r.exposures : x = f \/ x \in reg[w].exposures
  BY <1>2, <1>3, <1>7, AddExposureGood DEF updateExposure
<1> HIDE DEF r
<1>9. RegsOK' /\ BindingsOK'
  BY <1>6, <1>8, ChangeOK DEF SharedInv
<1>10. TasksOK' /\ \A t : Adding(t)' => Adding(t)
  BY DEF SharedInv, TasksOK, Adding
<1> DEFINE q == [reopening[w] EXCEPT !.todo = @ \ {e}]
<1>11. q \in PassStates /\ q.todo \subseteq reopening[w].todo /\ q.at = reopening[w].at
  BY <1>1 DEF PassStates
<1>12. reopening' = [reopening EXCEPT ![w] = q]
  OBVIOUS
<1> HIDE DEF q
<1>13. PassesOK' /\ \A v \in Windows : reopening'[v].todo \subseteq reopening[v].todo
  BY <1>11, <1>12 DEF SharedInv, PassesOK
<1>14. ASSUME NEW x, Held(x)' PROVE \E y : Held(y) /\ SameExposure(x, y)
  <2>1. Held(x) \/ x \in r.exposures
    BY <1>6, <1>13, <1>14, ChangeHeld DEF SharedInv, RegsOK
  <2>2. Held(x) \/ x = f
    BY <1>8, <2>1 DEF Held
  <2> QED BY <1>1, <1>2, <2>2 DEF SameExposure
<1>15. IdsOK'
  BY <1>10, <1>14, IdsKept DEF SharedInv
<1> QED BY <1>9, <1>10, <1>13, <1>15 DEF SharedInv

LEMMA ReopenOK ==
  ASSUME SharedInv, NEW w \in Windows, Reopen(w)
  PROVE  SharedInv'
<1>1. PICK e \in reopening[w].todo :
        LET failed == [e EXCEPT !.status = "error"]
            onward == [reopening EXCEPT ![w].todo = @ \ {e}]
        IN  IF Opens(w, e)
            THEN reopening' = onward /\ UNCHANGED <<doc, reg, synced, binding, aborted>>
            ELSE IF CanUpdateExposure(reg[w], e)
            THEN Change(w, updateExposure(reg[w], failed)) /\ reopening' = onward /\ UNCHANGED aborted
            ELSE /\ aborted' = aborted \cup {w}
                 /\ reopening' = [reopening EXCEPT ![w] =
                      IF @.queued /\ director = w THEN [@ EXCEPT !.at = "start", !.todo = {}] ELSE Idle]
                 /\ UNCHANGED <<doc, reg, synced, binding>>
  BY DEF Reopen
<1>2. UNCHANGED <<tasks, preset, commands>> /\ reopening[w] \in PassStates
        /\ reopening[w].at = "reopen" /\ reopening \in [Windows -> PassStates] /\ aborted \subseteq Windows
  BY DEF Reopen, SharedInv, PassesOK
<1>3. CASE Opens(w, e)
  <2> DEFINE q == [reopening[w] EXCEPT !.todo = @ \ {e}]
  <2>1. q \in PassStates /\ q.todo \subseteq reopening[w].todo /\ q.at = "reopen"
    BY <1>2 DEF PassStates
  <2>2. reopening' = [reopening EXCEPT ![w] = q] /\ UNCHANGED <<doc, reg, synced, binding, aborted>>
    BY <1>1, <1>3
  <2> HIDE DEF q
  <2> QED BY <1>2, <2>1, <2>2, PassStepOK
<1>4. CASE ~Opens(w, e) /\ CanUpdateExposure(reg[w], e)
  BY <1>1, <1>2, <1>4, ReopenFailsOK
<1>5. CASE ~Opens(w, e) /\ ~CanUpdateExposure(reg[w], e)
  <2> DEFINE q == [reopening[w] EXCEPT !.at = "start", !.todo = {}]
             p == IF reopening[w].queued /\ director = w THEN q ELSE Idle
  <2>1. q \in PassStates /\ q.todo = {}
    BY <1>2 DEF PassStates
  <2>2. /\ reopening' = [reopening EXCEPT ![w] = p] /\ aborted' = aborted \cup {w}
        /\ UNCHANGED <<doc, reg, synced, binding>>
    BY <1>1, <1>2, <1>5
  <2> HIDE DEF q
  <2>3. p \in PassStates /\ p.todo = {}
    BY <2>1, IdleOK
  <2> HIDE DEF p
  <2> QED BY <1>2, <2>2, <2>3, PassStepOK
<1> QED BY <1>3, <1>4, <1>5

-----------------------------------------------------------------------------
(* Windows hand over and close.                                             *)

LEMMA HandOverOK ==
  ASSUME SharedInv, HandOver
  PROVE  SharedInv'
<1>1. PICK w \in Windows :
        reopening' = [refreshSharedNetworkRoutingState(w) EXCEPT ![director].queued = FALSE]
  BY DEF HandOver, Up
<1>2. UNCHANGED <<doc, reg, synced, binding, tasks, aborted, preset>> /\ Give("handover", {})
  BY DEF HandOver
<1> DEFINE passes == refreshSharedNetworkRoutingState(w)
           q == [passes[director] EXCEPT !.queued = FALSE]
<1>3. /\ passes \in [Windows -> PassStates]
      /\ \A v \in Windows : /\ passes[v].todo = reopening[v].todo
                            /\ passes[v].todo # {} => passes[v].at = "reopen"
  BY RefreshPasses DEF SharedInv, PassesOK
<1>4. reopening' = [passes EXCEPT ![director] = q]
  BY <1>1
<1> HIDE DEF passes
<1>5. director \in Windows => /\ q \in PassStates /\ q.todo = passes[director].todo
                              /\ q.at = passes[director].at
  BY <1>3 DEF PassStates
<1> HIDE DEF q
<1>6. PassesOK' /\ \A v \in Windows : reopening'[v].todo = reopening[v].todo
  BY <1>2, <1>3, <1>4, <1>5 DEF SharedInv, PassesOK
<1>7. RegsOK' /\ BindingsOK'
  BY <1>2 DEF SharedInv, RegsOK, BindingsOK
<1>8. TasksOK' /\ commands'.ids \subseteq commands.ids
  BY <1>2, GiveOK DEF SharedInv, TasksOK
<1>9. (\A e : Held(e)' => Held(e)) /\ \A t : Adding(t)' => Adding(t)
  BY <1>2, <1>6 DEF Held, Adding
<1>10. IdsOK'
  BY <1>8, <1>9, IdsKept DEF SharedInv, SameExposure
<1> QED BY <1>6, <1>7, <1>8, <1>10 DEF SharedInv

LEMMA CloseWindowOK ==
  ASSUME SharedInv, NEW w \in Windows, CloseWindow(w)
  PROVE  SharedInv'
<1>1. /\ UNCHANGED <<doc, reg, synced, binding, aborted, preset>> /\ Give("close", {})
      /\ reopening' = [reopening EXCEPT ![w] = Idle] /\ tasks' \subseteq tasks
  BY DEF CloseWindow
<1> QED BY <1>1, IdleOK, PassStepOK DEF SharedInv, PassesOK

-----------------------------------------------------------------------------
LEMMA SharedNextOK ==
  ASSUME SharedInv, [SharedNext]_sharedVars
  PROVE  SharedInv'
<1>1. CASE UNCHANGED sharedVars
  <2>1. RegsOK' /\ BindingsOK' /\ TasksOK' /\ PassesOK'
    BY <1>1 DEF sharedVars, SharedInv, RegsOK, BindingsOK, TasksOK, PassesOK
  <2>2. (\A e : Held(e)' => Held(e)) /\ (\A t : Adding(t)' => Adding(t)) /\ commands' = commands
    BY <1>1 DEF sharedVars, Held, Adding
  <2>3. IdsOK'
    BY <2>2, IdsKept DEF SharedInv, SameExposure
  <2> QED BY <2>1, <2>3 DEF SharedInv
<1>2. ASSUME NEW w \in Windows,
             Start(w) \/ reloadSharedNetworkState(w) \/ PassStarts(w) \/ Reopen(w) \/ PassEnds(w)
      PROVE  SharedInv'
  BY <1>2, StartOK, ReloadOK, PassStartsOK, ReopenOK, PassEndsOK
<1>3. ASSUME NEW t \in tasks, Continues(t) PROVE SharedInv'
  BY <1>3, NetworkCreatedOK, NetworkRemovalOK, ExposureOpenedOK, ExposureClosedOK, TerminalAttachedOK,
     TerminalDetachedOK, WindowAttachedOK, WindowDetachedOK, WindowRefreshedOK DEF Continues
<1>4. ASSUME NEW w \in Windows, Command(w) PROVE SharedInv'
  BY <1>4, NetworkCommandsOK, CreateExposureOK, TerminalCommandsOK, SaveBindingPresetOK,
     ApplyBindingPresetOK, HostAccessBindingsOK, ResetAllTerminalsOK, AttachWindowOK, DetachWindowOK,
     CloseWindowOK DEF Command
<1> QED BY <1>1, <1>2, <1>3, <1>4, HandOverOK DEF SharedNext, SharedProgress

LEMMA SharedInitOK ==
  ASSUME NEW scene, LoadableScene(scene), SharedInit(scene)
  PROVE  SharedInv
<1>1. NoRows \in Registry /\ Good(NoRows) /\ NoRows.exposures = {}
  BY NoRowsGood DEF Good, NoRows
<1>2. RegsOK
  BY <1>1 DEF RegsOK, SharedInit, LoadableScene
<1>3. NoBinding \in BindingSet
  BY DEF BindingSet
<1>4. BindingsOK
  BY <1>3 DEF BindingsOK, SharedInit
<1>5. TasksOK /\ PassesOK
  BY IdleOK DEF TasksOK, PassesOK, SharedInit, LoadableScene
<1>6. \A e : Held(e) => e \in scene.doc.exposures
  BY <1>1, IdleOK DEF Held, SharedInit
<1>7. \A t : ~Adding(t)
  BY DEF Adding, SharedInit
<1>8. IdsOK
  BY <1>6, <1>7 DEF IdsOK, SameExposure, SharedInit, LoadableScene
<1> QED BY <1>2, <1>4, <1>5, <1>8 DEF SharedInv

LEMMA SharedInvSound == SharedInv => RegistryIsSound
BY DEF SharedInv, RegsOK, PassesOK, Good, RegistryIsSound, SharedTypeOK, RowsBelongToNetworks,
       OneNetworkPerTerminal, TerminalsOnce, Up

\* From every document an earlier version may have saved, and whatever the windows do
\* and in whatever order their commands continue, adopt documents and reopen exposures,
\* every registry is typed, its rows belong to its networks, no endpoint or port is given
\* away twice and no terminal belongs to two networks.
THEOREM RegistriesSound ==
  ASSUME NEW scene, LoadableScene(scene)
  PROVE  SharedInit(scene) /\ [][SharedNext]_sharedVars => []RegistryIsSound
<1>1. SharedInit(scene) => SharedInv
  BY SharedInitOK
<1>2. SharedInv /\ [SharedNext]_sharedVars => SharedInv'
  BY SharedNextOK
<1> QED BY <1>1, <1>2, SharedInvSound, PTL
=============================================================================
