-------------------------- MODULE DaemonStartIntent --------------------------
(***************************************************************************)
(* DaemonStartIntentStore (src/agent/daemon-start-intent): the directory of *)
(* stop markers that windows share.  A Stop adds a marker of its own; an    *)
(* explicit Start or Restart removes, one file at a time, the markers it    *)
(* observed when it was given, possibly long after that.                    *)
(*                                                                          *)
(* `wanted` is what the user asked for last.  It is no part of the store:   *)
(* the store is correct when the markers on disk never contradict it.       *)
(***************************************************************************)
EXTENDS Naturals

CONSTANTS
  Tasks,    \* commands that may be in progress at the same time
  Markers   \* names of marker files

VARIABLES
  markers,  \* the marker files on disk
  used,     \* names that were ever used: randomBytes(16) never repeats one
  seen,     \* task -> the markers it may still remove
  wanted    \* "run" or "stop"

intent == <<markers, used, seen, wanted>>

IntentInit ==
  /\ markers = {}
  /\ used = {}
  /\ seen = [t \in Tasks |-> {}]
  /\ wanted = "run"

\* suspend() creates a fresh marker.
suspend(m) ==
  /\ m \in Markers \ used
  /\ markers' = markers \cup {m}
  /\ used' = used \cup {m}
  /\ wanted' = "stop"
  /\ UNCHANGED seen

\* observe() for an explicit Start or Restart.
observe(t) ==
  /\ seen[t] = {}
  /\ seen' = [seen EXCEPT ![t] = markers]
  /\ wanted' = "run"
  /\ UNCHANGED <<markers, used>>

resumeCurrent(t, m) ==
  /\ m \in markers
  /\ markers' = markers \ {m}
  /\ seen' = [seen EXCEPT ![t] = @ \ {m}]
  /\ UNCHANGED <<used, wanted>>

\* One unlink of resume(); a marker another window removed is ignored.
resume(t, m) ==
  /\ m \in seen[t]
  /\ markers' = markers \ {m}
  /\ seen' = [seen EXCEPT ![t] = @ \ {m}]
  /\ UNCHANGED <<used, wanted>>

\* The commands end, are cancelled, or their window goes away.
abandon(ts) ==
  /\ seen' = [t \in Tasks |-> IF t \in ts THEN {} ELSE seen[t]]
  /\ UNCHANGED <<markers, used, wanted>>

IntentNext ==
  \/ \E m \in Markers : suspend(m)
  \/ \E t \in Tasks : observe(t) \/ \E m \in Markers : resume(t, m)
  \/ \E ts \in SUBSET Tasks : abandon(ts)

IntentSpec == IntentInit /\ [][IntentNext]_intent

isSuspended == markers # {}

-----------------------------------------------------------------------------
IntentTypeOK ==
  /\ markers \subseteq Markers /\ used \subseteq Markers
  /\ seen \in [Tasks -> SUBSET Markers]
  /\ wanted \in {"run", "stop"}

\* "A later Stop takes precedence over an older pending restart": while the
\* last command was a Stop, some marker is on disk, however many older Starts
\* and Restarts are still removing the markers they observed.
StopWins == wanted = "stop" => isSuspended
=============================================================================
