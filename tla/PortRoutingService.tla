------------------------- MODULE PortRoutingService -------------------------
(***************************************************************************)
(* PortRoutingService (src/core/port-routing.ts): route() asks the          *)
(* availability provider about one candidate after the other, and other     *)
(* programs take and give back ports between two answers.                   *)
(***************************************************************************)
EXTENDS PortRouting

CONSTANTS
  Ranges,     \* the scan ranges asked for
  Hashes,     \* the values of hashText
  MaxChanges  \* bound: ports taken or given back by others during a request

VARIABLES
  request,   \* what route() was asked for
  free,      \* the ports that are available
  tried,     \* the ports checked so far, in order
  decision,  \* the actual port, 0 for PortRoutingError, or Undecided
  changes

vars == <<request, free, tried, decision, changes>>

Undecided == MaxPort + 1

PortRequests ==
  [mode : {"nearest"}, port : Ports, range : Ranges, direction : {"up", "down", "both"}]
  \cup {r \in [mode : {"hashed"}, port : {1}, range : Ranges, hash : Hashes,
               start : Ports, end : Ports] : r.start <= r.end}

Plan(r) ==
  IF r.mode = "hashed" THEN buildHashedPortCandidates(r.hash, r.range, r.start, r.end)
  ELSE <<r.port>> \o buildCandidatePorts(r.port, r.range, r.direction)

Init ==
  /\ request \in PortRequests /\ free \in SUBSET Ports
  /\ tried = <<>> /\ decision = Undecided /\ changes = 0

\* One check() of the provider, and what route() does with the answer.
Check ==
  /\ decision = Undecided /\ Len(tried) < Len(Plan(request))
  /\ LET port == Plan(request)[Len(tried) + 1]
     IN  /\ tried' = Append(tried, port)
         /\ decision' = IF port \in free THEN port ELSE Undecided
  /\ UNCHANGED <<request, free, changes>>

\* PortRoutingError
Fail ==
  /\ decision = Undecided /\ Len(tried) = Len(Plan(request))
  /\ decision' = 0
  /\ UNCHANGED <<request, free, tried, changes>>

\* Another program binds or closes a port.
Others ==
  /\ decision = Undecided /\ changes < MaxChanges /\ changes' = changes + 1
  /\ \E p \in Ports : free' = IF p \in free THEN free \ {p} ELSE free \cup {p}
  /\ UNCHANGED <<request, tried, decision>>

Next == Check \/ Fail \/ Others
Spec == Init /\ [][Next]_vars

-----------------------------------------------------------------------------
TypeOK ==
  /\ request \in PortRequests /\ free \subseteq Ports
  /\ tried \in Seq(Ports) /\ decision \in 0..Undecided

Distance(a, b) == IF a < b THEN b - a ELSE a - b

\* The ports a nearest request must prefer to p: the closer ones of the scan,
\* and the one above at the same distance.
Preferred(r, p) ==
  {q \in Ports :
     /\ q = r.port \/ (q > r.port /\ r.direction # "down") \/ (q < r.port /\ r.direction # "up")
     /\ \/ Distance(q, r.port) < Distance(p, r.port)
        \/ Distance(q, r.port) = Distance(p, r.port) /\ q > p}

\* "keeps the closest match while preferring the common upward path when both
\* sides are equally close": a port is only chosen after every port the policy
\* prefers to it was found taken.
ClosestFirst ==
  request.mode = "nearest" /\ decision \in Ports =>
    Preferred(request, decision) \subseteq ToSet(tried)

\* A request fails only after every port its policy allows was checked: those
\* within the scan range, or the whole virtual range if the scan is that long.
FailsWhenExhausted ==
  decision = 0 =>
    \A p \in Ports :
      (IF request.mode = "nearest"
       THEN /\ Distance(p, request.port) <= request.range
            /\ p > request.port => request.direction # "down"
            /\ p < request.port => request.direction # "up"
       ELSE p \in request.start..request.end
            /\ request.range >= request.end - request.start)
      => p \in ToSet(tried)

\* No port is probed twice, whatever the range and however the hash wraps, and a
\* hashed request never leaves its virtual range.
ProbedOnce ==
  /\ IsInjective(tried)
  /\ request.mode = "hashed" => ToSet(tried) \subseteq request.start..request.end

\* The decision of a request is the best free port of its policy: typed, the closest,
\* a failure only when every allowed port was checked, and no port probed twice.
BestFreePort == TypeOK /\ ClosestFirst /\ FailsWhenExhausted /\ ProbedOnce
=============================================================================
