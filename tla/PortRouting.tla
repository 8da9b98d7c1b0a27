---------------------------- MODULE PortRouting ----------------------------
(***************************************************************************)
(* The candidate sequences of src/core/port-routing.ts: the order in which  *)
(* actual ports are tried for a requested one.                              *)
(***************************************************************************)
EXTENDS Naturals, Sequences, SequencesExt

CONSTANTS
  MaxPort  \* MAX_TCP_PORT, 65535 in the code

ASSUME PortConstants == MaxPort \in Nat \ {0}

Ports == 1..MaxPort

isValidPort(port) == port \in Ports

DownFirst(requested, range, direction) ==
  FlattenSeq([offset \in 1..range |->
    SelectSeq((IF direction # "up" /\ offset < requested THEN <<requested - offset>> ELSE <<>>)
              \o (IF direction # "down" THEN <<requested + offset>> ELSE <<>>), isValidPort)])

\* At each distance upward before downward, where that is a port.
buildCandidatePorts(requested, range, direction) ==
  FlattenSeq([offset \in 1..range |->
    SelectSeq((IF direction # "down" THEN <<requested + offset>> ELSE <<>>)
              \o (IF direction # "up" /\ offset < requested THEN <<requested - offset>> ELSE <<>>),
              isValidPort)])

\* `hash` stands for hashText(routeScope:requestedPort).
buildHashedPortCandidates(hash, range, start, end) ==
  LET size == end - start + 1
      n    == IF size < range + 1 THEN size ELSE range + 1
  IN  [i \in 1..n |-> start + (((hash % size) + (i - 1)) % size)]
=============================================================================
