----------------------- MODULE LogicalNetworkRegistry -----------------------
(* LogicalNetworkRegistry of src/core/networks/logical-network-registry.ts:  *)
(* the logical networks and the rows that belong to them, as one record with *)
(* an operator per method.  CanX is the negation of the errors method X      *)
(* throws.  Maps are sets of rows with an id; discovery lists, which are not *)
(* persisted, are left out.                                                  *)
EXTENDS Naturals

CONSTANTS
  Networks,       \* identities of logical networks
  AddressesOf,    \* the loopback addresses hashed from each of them
  Ids,            \* identities of attachments, exposures, bindings, composes
  Keys,           \* session ids, window ids, root pids and process groups
  Endpoints,      \* host address and port of an exposure
  LogicalPorts,   \* logical ports
  OwnerKeys       \* runtime and project name of a Compose project

\* attachedAt is a position in the order of the timestamps.
AttachmentRows == [id: Ids, net: Networks, keys: SUBSET Keys, at: Nat]
ExposureRows == [id: Ids, net: Networks, host: Endpoints, status: {"active", "error"}]
BindingRows == [id: Ids, net: Networks, port: LogicalPorts]
ComposeRows ==
  [id: Ids, net: Networks, ports: SUBSET LogicalPorts, project: SUBSET OwnerKeys,
   status: {"attached", "error"}, at: Nat]

\* LogicalNetworkRegistryState.
Registry ==
  [networks: SUBSET Networks, attachments: SUBSET AttachmentRows,
   exposures: SUBSET ExposureRows, bindings: SUBSET BindingRows,
   composes: SUBSET ComposeRows]

NoRows ==
  [networks |-> {}, attachments |-> {}, exposures |-> {}, bindings |-> {}, composes |-> {}]

Without(rows, id) == {row \in rows : row.id # id}
HasId(rows, id) == \E row \in rows : row.id = id

terminalAttachmentsShareIdentity(a, b) == a.keys \cap b.keys # {}

\* composeRuntimeOwnerKeys of both rows meet.
ShareProject(a, b) == a.project \cap b.project # {}

\* validateNetworkIdentities, and assertNetworkAddressesAreUnique for one more.
AddressesAreUnique(networks) ==
  \A m, n \in networks : m # n => AddressesOf[m] \cap AddressesOf[n] = {}

CanAddNetwork(reg, n) ==
  n \notin reg.networks /\ \A m \in reg.networks : AddressesOf[m] \cap AddressesOf[n] = {}

addNetwork(reg, n) == [reg EXCEPT !.networks = @ \cup {n}]

InNetwork(rows, n) == {row \in rows : row.net = n}

\* A removal that forgets one of the dependent collections.
removeNetworkButBindings(reg, n) ==
  [reg EXCEPT !.networks = @ \ {n}, !.attachments = @ \ InNetwork(@, n),
              !.exposures = @ \ InNetwork(@, n), !.composes = @ \ InNetwork(@, n)]

removeNetwork(reg, n) ==
  [networks |-> reg.networks \ {n},
   attachments |-> reg.attachments \ InNetwork(reg.attachments, n),
   exposures |-> reg.exposures \ InNetwork(reg.exposures, n),
   bindings |-> reg.bindings \ InNetwork(reg.bindings, n),
   composes |-> reg.composes \ InNetwork(reg.composes, n)]

\* setAttachment without removeConflictingTerminalAttachments.
replaceAttachment(reg, a) ==
  [reg EXCEPT !.attachments = Without(@, a.id) \cup {a}]

setAttachment(reg, a) ==
  [reg EXCEPT !.attachments =
     {b \in Without(@, a.id) : ~terminalAttachmentsShareIdentity(a, b)} \cup {a}]

CanAddAttachment(reg, a) == a.net \in reg.networks
addAttachment(reg, a) == setAttachment(reg, a)
removeAttachment(reg, id) == [reg EXCEPT !.attachments = Without(@, id)]

CanAddExposure(reg, e) ==
  e.net \in reg.networks /\ \A f \in Without(reg.exposures, e.id) : f.host # e.host

addExposure(reg, e) == [reg EXCEPT !.exposures = Without(@, e.id) \cup {e}]

\* updateExposure looks at the id and nothing else.
CanUpdateExposure(reg, e) == HasId(reg.exposures, e.id)
updateExposure(reg, e) == addExposure(reg, e)
removeExposure(reg, id) == [reg EXCEPT !.exposures = Without(@, id)]

CanAddHostAccessBinding(reg, b) ==
  b.net \in reg.networks
  /\ \A c \in Without(reg.bindings, b.id) : ~(c.net = b.net /\ c.port = b.port)

addHostAccessBinding(reg, b) == [reg EXCEPT !.bindings = Without(@, b.id) \cup {b}]
removeHostAccessBinding(reg, id) == [reg EXCEPT !.bindings = Without(@, id)]

ensureNoComposePortConflict(reg, c) ==
  \A d \in Without(reg.composes, c.id) : d.net = c.net => d.ports \cap c.ports = {}

ensureNoComposeRuntimeOwnerConflict(reg, c) ==
  \A d \in Without(reg.composes, c.id) : d.net # c.net => ~ShareProject(c, d)

\* An update that trusts the check made when the row was added.
CanReplaceCompose(reg, c) == HasId(reg.composes, c.id)

CanAddCompose(reg, c) ==
  /\ c.net \in reg.networks /\ ~HasId(reg.composes, c.id)
  /\ ensureNoComposePortConflict(reg, c) /\ ensureNoComposeRuntimeOwnerConflict(reg, c)

CanUpdateCompose(reg, c) ==
  /\ HasId(reg.composes, c.id)
  /\ ensureNoComposePortConflict(reg, c) /\ ensureNoComposeRuntimeOwnerConflict(reg, c)

setCompose(reg, c) == [reg EXCEPT !.composes = Without(@, c.id) \cup {c}]
removeComposeAttachment(reg, id) == [reg EXCEPT !.composes = Without(@, id)]

\* Rows are set oldest first, and setting one drops the earlier rows it
\* conflicts with: a row is left when no later row has its id or conflicts.
LatestAttachments(rows) ==
  {a \in rows : \A b \in rows :
     b.at > a.at => b.id # a.id /\ ~terminalAttachmentsShareIdentity(a, b)}

LatestComposes(rows) ==
  {c \in rows : \A d \in rows :
     d.at > c.at => d.id # c.id /\ ~(d.net # c.net /\ ShareProject(c, d))}

replacePersistedState(state) ==
  [state EXCEPT !.attachments = LatestAttachments(@), !.composes = LatestComposes(@)]
=============================================================================
