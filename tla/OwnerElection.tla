--------------------------- MODULE OwnerElection ---------------------------
(***************************************************************************)
(* What an owner lease promises: a live window that holds the lease keeps   *)
(* it until it gives it up.  A stalled owner, a half-written file, a lock   *)
(* that outlived its holder or the command that steals the lease void the   *)
(* promise.                                                                 *)
(***************************************************************************)
CONSTANTS
  Windows,
  Nobody

VARIABLES
  holder,     \* the window that holds the lease
  up,         \* live windows
  disturbed   \* the promise is void

ElectionInit ==
  /\ holder \in Windows \cup {Nobody}
  /\ up \subseteq Windows
  /\ disturbed = FALSE

Take(w) ==
  /\ w \in up /\ holder \notin up \ {w}
  /\ holder' = w
  /\ UNCHANGED <<up, disturbed>>

Give(w) ==
  /\ holder = w /\ holder' = Nobody
  /\ UNCHANGED <<up, disturbed>>

ComeOrGo ==
  /\ up' \subseteq Windows
  /\ UNCHANGED <<holder, disturbed>>

Disturb ==
  /\ disturbed'
  /\ holder' \in Windows \cup {Nobody}
  /\ up' \subseteq Windows

ElectionNext == (\E w \in Windows : Take(w) \/ Give(w)) \/ ComeOrGo \/ Disturb
ElectionSpec == ElectionInit /\ [][ElectionNext]_<<holder, up, disturbed>>
=============================================================================
