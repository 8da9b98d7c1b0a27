---------------------------- MODULE GuardedShells ----------------------------
(***************************************************************************)
(* The guarded terminals of macOS: MacosNetworkRuntime, which owns one     *)
(* broker per network and one reservation per shell, and the parts of the  *)
(* network service that open, adopt, replace and detach the terminals.     *)
(*                                                                         *)
(* A shell is prepared before its terminal exists, its supervisor is       *)
(* started by the terminal, and both may go at any time.  The reservation  *)
(* of a shell is to be kept until nothing of it can be alive any more.     *)
(*                                                                         *)
(* What runs between two awaits is one step; what a settled promise lets   *)
(* run at once (pc "verified" and "brokered") goes before anything else.   *)
(***************************************************************************)
EXTENDS Integers, FiniteSets

CONSTANTS ShellCalls,   \* 1..n: the calls of prepareShell, and their shells
          BrokerIds,    \* 1..n: the broker processes that may be started
          GuardedNets,  \* logical networks
          Helpers       \* native helpers in the shared budget

VARIABLES runtime,      \* what MacosNetworkRuntime keeps, and the networks there are
          broker,       \* the broker processes
          shell,        \* the shells with their terminals
          os,           \* the supervisors, their workload and their private files
          guardLeft     \* what may still happen from outside

guardVars == <<runtime, broker, shell, os, guardLeft>>

NoShell ==
  [net |-> "none", pc |-> "idle", broker |-> 0, old |-> 0, known |-> FALSE, expiry |-> FALSE, sup |-> FALSE,
   ident |-> FALSE, mon |-> FALSE, adopt |-> "none", term |-> "none", guarded |-> FALSE, pending |-> FALSE,
   attached |-> FALSE, close |-> "none", found |-> FALSE, then |-> {}, lost |-> FALSE, late |-> FALSE]
NoBroker == [net |-> "none", st |-> "none", closing |-> "none", sessions |-> {}]
NoProcess == [st |-> "none", hup |-> FALSE, work |-> FALSE, owner |-> FALSE, ready |-> FALSE, receipt |-> FALSE, helper |-> "none"]
NoStart == [st |-> "none", broker |-> 0]

GuardSpend(what) == guardLeft[what] > 0 /\ guardLeft' = [guardLeft EXCEPT ![what] = @ - 1]
\* A promise that is settled: the one who waited runs before anything else.
Settles == {c \in ShellCalls : shell[c].pc \in {"verified", "brokered"} \/ (shell[c].adopt = "caught" /\ shell[c].close = "none")}
GuardIdle == Settles = {}

Up(b) == b # 0 /\ broker[b].st = "up"
\* One helper each: a broker, a shell, the check of the launcher.
InUse == Cardinality({b \in BrokerIds : broker[b].st = "up"}) + Cardinality({c \in ShellCalls : shell[c].known})
         + (IF runtime.verified = "running" THEN 1 ELSE 0)
HasRoom == InUse < Helpers

\* The supervisor is the process it was.
Living == {"started", "recorded", "authorized", "running", "leaving"}
isCurrent(c) == os[c].st \in Living

-----------------------------------------------------------------------------
(* Closing a shell *)

\* A second caller joins the first.
closeShell(s, c) ==
  IF ~s[c].known \/ s[c].close # "none" THEN s
  ELSE [s EXCEPT ![c].expiry = FALSE, ![c].close = IF s[c].sup THEN "stop" ELSE "ps"]
CloseShells(s, cs) == [c \in ShellCalls |-> IF c \in cs THEN closeShell(s, c)[c] ELSE s[c]]

\* SIGTERM, then SIGKILL.
CloseBroker(bs, b) == IF bs[b].st = "up" THEN [bs EXCEPT ![b].closing = "term"] ELSE bs

\* The terminal goes, and its supervisor with the terminal.
Disposed(t) == IF t \in {"opening", "open"} THEN "closing" ELSE t
HungUp(p) == [p EXCEPT !.hup = @ \/ p.st \in Living]

\* What those do who waited for the end of a close.
CloseOver(r, ok) ==
  LET leaves == ok /\ r.then # {}
  IN [r EXCEPT !.close = "none", !.then = {}, !.lost = @ \/ ~ok,
               !.guarded = @ /\ ~leaves, !.attached = @ /\ ~leaves, !.term = IF leaves THEN Disposed(@) ELSE @]
CloseOverAll(s, cs, ok) == [c \in ShellCalls |-> IF c \in cs THEN CloseOver(s[c], ok) ELSE s[c]]
\* A terminal that goes takes its supervisor along.
CloseOverOs(cs, ok) == [c \in ShellCalls |-> IF c \in cs /\ ok /\ shell[c].then # {} THEN HungUp(os[c]) ELSE os[c]]

\* The reservation stays.
CloseFails(c) ==
  /\ shell' = [shell EXCEPT ![c] = CloseOver(@, FALSE)]
  /\ UNCHANGED <<runtime, broker, os>>

\* Everything of the shell is known to be gone: its reservation and its files go, and the
\* broker of its network if it was the last.
FinishClose(c) ==
  LET b == shell[c].broker
      r == [shell[c] EXCEPT !.known = FALSE, !.attached = FALSE, !.pending = FALSE]
      bs == [broker EXCEPT ![b].sessions = @ \ {c}]
      last == bs[b].sessions = {} /\ Up(b)
  IN /\ shell' = [shell EXCEPT ![c] = IF last THEN [r EXCEPT !.close = "broker"] ELSE CloseOver(r, TRUE)]
     /\ broker' = IF last THEN CloseBroker(bs, b) ELSE bs
     /\ os' = [(IF last THEN os ELSE CloseOverOs({c}, TRUE)) EXCEPT ![c].owner = FALSE, ![c].ready = FALSE, ![c].receipt = FALSE]
     /\ UNCHANGED runtime

ReleaseWithSupervisor(c) == IF isCurrent(c) THEN CloseFails(c) ELSE FinishClose(c)
\* A supervisor that is gone may have left its workload: only the receipt of its census, or of
\* a recovery after it, proves that nothing is left.
confirmDescendantCleanup(c) ==
  \/ /\ ~os[c].owner
     /\ IF shell[c].ident \/ os[c].ready THEN CloseFails(c) ELSE FinishClose(c)
  \/ /\ os[c].owner /\ os[c].receipt /\ os[c].helper # "failed"
     /\ IF os[c].helper # "running" THEN FinishClose(c)
        ELSE shell' = [shell EXCEPT ![c].close = "recovering"] /\ UNCHANGED <<runtime, broker, os>>
  \/ /\ os[c].owner /\ ~(os[c].receipt /\ os[c].helper # "failed")
     /\ IF isCurrent(c) THEN CloseFails(c)
        ELSE /\ shell' = [shell EXCEPT ![c].close = "recovering"]
             /\ os' = [os EXCEPT ![c].helper = IF @ \in {"none", "failed"} THEN "running" ELSE @]
             /\ UNCHANGED <<runtime, broker>>

\* ps is asked for a launcher of this shell; one that starts later is not in its answer.
PsSample(c) ==
  /\ GuardIdle /\ shell[c].close = "ps"
  /\ shell' = [shell EXCEPT ![c].close = "psRead", ![c].found = isCurrent(c)]
  /\ UNCHANGED <<runtime, broker, os, guardLeft>>
PsFails(c) == GuardIdle /\ shell[c].close = "ps" /\ GuardSpend("faults") /\ CloseFails(c)
closeShellOwner(c) ==
  /\ GuardIdle /\ shell[c].close = "psRead"
  /\ \/ /\ shell[c].found \/ (os[c].ready /\ isCurrent(c))
        /\ IF ~isCurrent(c) THEN CloseFails(c)
           ELSE /\ shell' = [shell EXCEPT ![c].close = "stop", ![c].sup = @ \/ shell[c].found]
                /\ UNCHANGED <<runtime, broker, os>>
     \/ /\ ~shell[c].found /\ ~(os[c].ready /\ isCurrent(c))
        /\ confirmDescendantCleanup(c)
  /\ UNCHANGED guardLeft

\* The supervisor gets a SIGTERM and time for its census; it is never killed.
stopIdentity(c) ==
  /\ GuardIdle /\ shell[c].close = "stop"
  /\ \/ ~isCurrent(c) /\ confirmDescendantCleanup(c) /\ UNCHANGED guardLeft
     \/ /\ isCurrent(c)
        /\ shell' = [shell EXCEPT ![c].close = "stopping"] /\ os' = [os EXCEPT ![c] = HungUp(@)]
        /\ UNCHANGED <<runtime, broker, guardLeft>>
     \/ isCurrent(c) /\ GuardSpend("faults") /\ CloseFails(c)
SupervisorStops(c) ==
  /\ GuardIdle /\ shell[c].close = "stopping"
  /\ \/ ~isCurrent(c) /\ confirmDescendantCleanup(c) /\ UNCHANGED guardLeft
     \/ isCurrent(c) /\ GuardSpend("timeouts") /\ CloseFails(c)
waitForRecoveryExit(c) ==
  /\ GuardIdle /\ shell[c].close = "recovering"
  /\ \/ os[c].helper = "ok" /\ FinishClose(c) /\ UNCHANGED guardLeft
     \/ os[c].helper = "failed" /\ CloseFails(c) /\ UNCHANGED guardLeft
     \/ os[c].helper = "running" /\ GuardSpend("timeouts") /\ CloseFails(c)

-----------------------------------------------------------------------------
(* Brokers *)

\* Its shells are closed, and those who waited for its end go on.
BrokerExit(b) ==
  LET s == CloseOverAll(shell, {c \in ShellCalls : shell[c].close = "broker" /\ shell[c].broker = b}, TRUE)
      n == broker[b].net
      failed == runtime.start[n] = [st |-> "closing", broker |-> b]
  IN /\ GuardIdle /\ broker[b].st = "up"
     /\ \/ broker[b].closing \in {"term", "kill"} /\ UNCHANGED guardLeft
        \/ broker[b].closing \in {"none", "failed"} /\ GuardSpend("deaths")
     /\ broker' = [broker EXCEPT ![b].st = "exited", ![b].closing = "none"]
     /\ runtime' = [runtime EXCEPT !.brokers[n] = IF @ = b THEN 0 ELSE @, !.start[n] = IF failed THEN NoStart ELSE @]
     /\ shell' = [c \in ShellCalls |->
                    IF c \in broker[b].sessions THEN closeShell(s, c)[c]
                    ELSE IF failed /\ s[c].pc = "joining" /\ s[c].net = n THEN [s[c] EXCEPT !.pc = "failed"] ELSE s[c]]
     /\ os' = CloseOverOs({c \in ShellCalls : shell[c].close = "broker" /\ shell[c].broker = b}, TRUE)

\* The broker ignores the signals: its reservation stays.
BrokerLingers(b) ==
  LET n == broker[b].net
      failed == runtime.start[n] = [st |-> "closing", broker |-> b]
      s == CloseOverAll(shell, {c \in ShellCalls : shell[c].close = "broker" /\ shell[c].broker = b}, FALSE)
  IN /\ GuardIdle /\ broker[b].st = "up" /\ broker[b].closing \in {"term", "kill"} /\ GuardSpend("timeouts")
     /\ IF broker[b].closing = "term"
        THEN broker' = [broker EXCEPT ![b].closing = "kill"] /\ UNCHANGED <<runtime, shell>>
        ELSE /\ broker' = [broker EXCEPT ![b].closing = "failed"]
             /\ runtime' = [runtime EXCEPT !.start[n] = IF failed THEN NoStart ELSE @]
             /\ shell' = [c \in ShellCalls |-> IF failed /\ s[c].pc = "joining" /\ s[c].net = n
                                               THEN [s[c] EXCEPT !.pc = "failed"] ELSE s[c]]
     /\ UNCHANGED os

\* All callers share the check of the launcher; only a success is remembered.
verifyLauncherLifecycle ==
  /\ GuardIdle /\ runtime.verified = "running"
  /\ \E ok \in BOOLEAN :
       /\ IF ok THEN UNCHANGED guardLeft ELSE GuardSpend("faults")
       /\ runtime' = [runtime EXCEPT !.verified = IF ok THEN "yes" ELSE "no"]
       /\ shell' = [c \in ShellCalls |-> IF shell[c].pc = "verifying"
                                         THEN [shell[c] EXCEPT !.pc = IF ok THEN "verified" ELSE "failed"] ELSE shell[c]]
  /\ UNCHANGED <<broker, os>>

\* A broker that is there is used, one that is being started is waited for.
ensureBroker(c) ==
  LET n == shell[c].net IN
  /\ shell[c].pc = "verified"
  /\ IF Up(runtime.brokers[n])
     THEN shell' = [shell EXCEPT ![c].pc = "brokered", ![c].broker = runtime.brokers[n]] /\ UNCHANGED runtime
     ELSE /\ shell' = [shell EXCEPT ![c].pc = "joining"]
          /\ runtime' = [runtime EXCEPT !.start[n].st = IF @ = "none" THEN "controller" ELSE @]
  /\ UNCHANGED <<broker, os, guardLeft>>

Joiners(n) == {c \in ShellCalls : shell[c].pc = "joining" /\ shell[c].net = n}
StartFails(n) ==
  /\ runtime' = [runtime EXCEPT !.start[n] = NoStart]
  /\ shell' = [c \in ShellCalls |-> IF c \in Joiners(n) THEN [shell[c] EXCEPT !.pc = "failed"] ELSE shell[c]]

\* The daemon is there: the broker is spawned, on one helper of the budget.
ControllerReady(n) ==
  /\ GuardIdle /\ runtime.start[n].st = "controller"
  /\ \/ ~runtime.disposed /\ HasRoom
        /\ \E b \in BrokerIds :
             /\ broker[b].st = "none" /\ \A o \in BrokerIds : o < b => broker[o].st # "none"
             /\ broker' = [broker EXCEPT ![b] = [NoBroker EXCEPT !.net = n, !.st = "up"]]
             /\ runtime' = [runtime EXCEPT !.brokers[n] = b, !.start[n] = [st |-> "ready", broker |-> b]]
        /\ UNCHANGED <<shell, guardLeft>>
     \/ (runtime.disposed \/ ~HasRoom) /\ StartFails(n) /\ UNCHANGED <<broker, guardLeft>>
     \/ GuardSpend("faults") /\ StartFails(n) /\ UNCHANGED broker
  /\ UNCHANGED os

\* The broker says that it listens, or ends, or says nothing in time.
readBrokerReady(n) ==
  LET b == runtime.start[n].broker IN
  /\ GuardIdle /\ runtime.start[n].st = "ready"
  /\ \/ ~Up(b) /\ StartFails(n) /\ UNCHANGED <<broker, guardLeft>>
     \/ /\ Up(b) /\ ~runtime.disposed
        /\ runtime' = [runtime EXCEPT !.start[n] = NoStart]
        /\ shell' = [c \in ShellCalls |-> IF c \in Joiners(n) THEN [shell[c] EXCEPT !.pc = "brokered", !.broker = b] ELSE shell[c]]
        /\ UNCHANGED <<broker, guardLeft>>
     \/ /\ Up(b)
        /\ IF runtime.disposed THEN UNCHANGED guardLeft ELSE GuardSpend("faults")
        /\ runtime' = [runtime EXCEPT !.start[n].st = "closing"]
        /\ broker' = CloseBroker(broker, b) /\ UNCHANGED shell
  /\ UNCHANGED os

-----------------------------------------------------------------------------
(* Preparing a shell, and its terminal *)

\* o is the shell whose terminal this one replaces, or 0.
BeginPrepare(n, o) ==
  \E c \in ShellCalls :
    /\ shell[c].pc = "idle" /\ \A e \in ShellCalls : e < c => shell[e].pc # "idle"
    /\ n \in runtime.nets
    /\ shell' = [shell EXCEPT ![c].net = n, ![c].old = o,
                              ![c].pc = IF runtime.verified = "yes" THEN "verified"
                                        ELSE IF runtime.verified = "running" \/ HasRoom THEN "verifying" ELSE "failed"]
    /\ runtime' = [runtime EXCEPT !.verified = IF @ = "no" /\ HasRoom THEN "running" ELSE @]
prepareGuardedTerminalOptions(n) ==
  /\ GuardIdle /\ ~runtime.disposed /\ GuardSpend("opens")
  /\ BeginPrepare(n, 0)
  /\ UNCHANGED <<broker, os>>

\* The reservation, its files and its timer, or nothing of them.  The network may have
\* gone meanwhile: the launch is then left to its timer.
prepareShell(c) ==
  LET b == shell[c].broker IN
  /\ shell[c].pc = "brokered"
  /\ \/ /\ HasRoom
        /\ shell' = [shell EXCEPT ![c] = IF runtime.disposed \/ ~Up(b) THEN [@ EXCEPT !.pc = "failed"]
                                         ELSE [@ EXCEPT !.pc = "prepared", !.known = TRUE, !.expiry = TRUE, !.pending = shell[c].net \in runtime.nets]]
        /\ broker' = [broker EXCEPT ![b].sessions = IF runtime.disposed \/ ~Up(b) THEN @ ELSE @ \cup {c}] /\ UNCHANGED guardLeft
     \/ /\ ~runtime.disposed /\ Up(b)
        /\ IF HasRoom THEN GuardSpend("faults") ELSE UNCHANGED guardLeft
        /\ shell' = [shell EXCEPT ![c].pc = "failed"]
        /\ broker' = IF broker[b].sessions = {} THEN CloseBroker(broker, b) ELSE broker
  /\ UNCHANGED <<runtime, os>>

\* The terminal of the launch is created, and the service waits for its process.
openGuardedNetworkTerminal(c) ==
  /\ GuardIdle /\ shell[c].pending /\ ~runtime.disposed
  /\ shell' = [shell EXCEPT ![c].pending = FALSE, ![c].guarded = TRUE, ![c].term = "opening", ![c].adopt = "pid"]
  /\ UNCHANGED <<runtime, broker, os, guardLeft>>
cancelGuardedTerminalOptions(c) ==
  /\ GuardIdle /\ shell[c].pending /\ GuardSpend("cancels")
  /\ shell' = closeShell([shell EXCEPT ![c].pending = FALSE], c)
  /\ UNCHANGED <<runtime, broker, os>>
PtyStarts(c) ==
  /\ GuardIdle /\ shell[c].term = "opening"
  /\ \/ /\ shell' = [shell EXCEPT ![c].term = "open"]
        /\ os' = [os EXCEPT ![c].st = "started"] /\ UNCHANGED guardLeft
     \/ GuardSpend("faults") /\ shell' = [shell EXCEPT ![c].term = "failed"] /\ UNCHANGED os
  /\ UNCHANGED <<runtime, broker>>

\* The launch has failed: the terminal goes, and what was reserved for it.
AdoptFails(c) ==
  /\ shell' = closeShell([shell EXCEPT ![c].adopt = "done", ![c].term = Disposed(@)], c)
  /\ os' = [os EXCEPT ![c] = HungUp(@)]
\* waitReady closes the shell before it fails.
WaitFails(c) ==
  /\ shell' = closeShell([shell EXCEPT ![c].adopt = "caught"], c)
  /\ UNCHANGED os
AdoptCaught(c) ==
  /\ shell[c].adopt = "caught" /\ shell[c].close = "none"
  /\ AdoptFails(c)
  /\ UNCHANGED <<runtime, broker, guardLeft>>

adoptSupervisor(c) ==
  /\ GuardIdle /\ shell[c].adopt = "pid" /\ shell[c].term # "opening"
  /\ IF shell[c].term = "failed" \/ ~shell[c].known \/ shell[c].close # "none" \/ runtime.disposed \/ ~isCurrent(c)
     THEN AdoptFails(c)
     ELSE shell' = [shell EXCEPT ![c].sup = TRUE, ![c].expiry = TRUE, ![c].adopt = "poll"] /\ UNCHANGED os
  /\ UNCHANGED <<runtime, broker, guardLeft>>
\* Every 20 ms, until the supervisor has published its readiness.
PollReady(c) ==
  LET canceled == shell[c].close # "none" \/ ~Up(shell[c].broker) \/ runtime.disposed IN
  /\ GuardIdle /\ shell[c].adopt = "poll"
  /\ \/ ~canceled /\ os[c].ready /\ shell' = [shell EXCEPT ![c].adopt = "scope"] /\ UNCHANGED <<os, guardLeft>>
     \/ canceled /\ WaitFails(c) /\ UNCHANGED guardLeft
     \/ ~canceled /\ ~os[c].ready /\ ~isCurrent(c) /\ WaitFails(c) /\ UNCHANGED guardLeft
     \/ ~canceled /\ ~os[c].ready /\ isCurrent(c) /\ GuardSpend("timeouts") /\ WaitFails(c)
  /\ UNCHANGED <<runtime, broker>>

\* Those who want the terminal of o gone wait for its close.
LeaveShell(s, o) ==
  IF s[o].known THEN [closeShell(s, o) EXCEPT ![o].then = {"leave"}]
  ELSE [s EXCEPT ![o] = CloseOver([@ EXCEPT !.then = {"leave"}], TRUE)]

\* The daemon's answer on the process that was current when it was read.  The timer is
\* disarmed and the monitor starts, whatever happened to the shell meanwhile.
waitReady(c) ==
  LET o == shell[c].old
      r == [shell[c] EXCEPT !.adopt = "done", !.ident = TRUE, !.expiry = FALSE, !.mon = TRUE,
                            !.attached = shell[c].net \in runtime.nets,
                            !.late = ~shell[c].known]
      s == [shell EXCEPT ![c] = r]
  IN /\ GuardIdle /\ shell[c].adopt = "scope"
     /\ \/ /\ shell' = IF o # 0 /\ shell[o].guarded THEN LeaveShell(s, o)
                       ELSE IF o # 0 THEN [s EXCEPT ![o].term = Disposed(@)] ELSE s
           /\ os' = IF o # 0 /\ ~(shell[o].guarded /\ shell[o].known) THEN [os EXCEPT ![o] = HungUp(@)] ELSE os
           /\ UNCHANGED guardLeft
        \/ ~isCurrent(c) /\ WaitFails(c) /\ UNCHANGED guardLeft
        \/ isCurrent(c) /\ GuardSpend("faults") /\ WaitFails(c)
     /\ UNCHANGED <<runtime, broker>>

monitorShell(c) ==
  /\ GuardIdle /\ shell[c].mon
  /\ \/ /\ ~shell[c].known \/ shell[c].close # "none"
        /\ shell' = [shell EXCEPT ![c].mon = FALSE] /\ UNCHANGED guardLeft
     \/ /\ shell[c].known /\ shell[c].close = "none" /\ ~isCurrent(c)
        /\ shell' = closeShell([shell EXCEPT ![c].mon = FALSE], c) /\ UNCHANGED guardLeft
     \/ \* A live process that cannot be identified ends the monitor.
        /\ shell[c].known /\ shell[c].close = "none" /\ isCurrent(c) /\ GuardSpend("faults")
        /\ shell' = [shell EXCEPT ![c].mon = FALSE, ![c].lost = TRUE]
  /\ UNCHANGED <<runtime, broker, os>>
armShellExpiry(c) ==
  /\ GuardIdle /\ shell[c].expiry /\ GuardSpend("expiries")
  /\ shell' = closeShell([shell EXCEPT ![c].expiry = FALSE], c)
  /\ UNCHANGED <<runtime, broker, os>>

-----------------------------------------------------------------------------
(* The user: a command of the window, or the menu that a shell asks for and that only the *)
(* window's picker answers, as long as the terminal is still the one that asked.          *)

replaceGuardedTerminal(c, n) ==
  /\ GuardIdle /\ ~runtime.disposed /\ shell[c].guarded /\ shell[c].term = "open" /\ shell[c].adopt = "done"
  /\ GuardSpend("opens") /\ BeginPrepare(n, c)
  /\ UNCHANGED <<broker, os>>
detachGuardedVscodeTerminal(c) ==
  /\ GuardIdle /\ shell[c].guarded /\ shell[c].term = "open" /\ shell[c].adopt = "done" /\ GuardSpend("detaches")
  /\ shell' = LeaveShell(shell, c)
  /\ os' = IF shell[c].known THEN os ELSE [os EXCEPT ![c] = HungUp(@)]
  /\ UNCHANGED <<runtime, broker>>
UserClosesTerminal(c) ==
  /\ GuardIdle /\ shell[c].term = "open" /\ GuardSpend("closes")
  /\ shell' = [shell EXCEPT ![c].term = "closing"] /\ os' = [os EXCEPT ![c] = HungUp(@)]
  /\ UNCHANGED <<runtime, broker>>
onDidCloseTerminal(c) ==
  /\ GuardIdle /\ shell[c].term = "closing"
  /\ LET s == [shell EXCEPT ![c].term = "closed"]
     IN shell' = IF s[c].guarded THEN closeShell([s EXCEPT ![c].guarded = FALSE], c) ELSE s
  /\ UNCHANGED <<runtime, broker, os, guardLeft>>
NetworkRemoved(n) ==
  /\ GuardIdle /\ n \in runtime.nets /\ GuardSpend("removals")
  /\ runtime' = [runtime EXCEPT !.nets = @ \ {n}]
  /\ shell' = [c \in ShellCalls |-> [shell[c] EXCEPT !.attached = @ /\ shell[c].net # n]]
  /\ UNCHANGED <<broker, os>>

\* Disposal closes the shells, waits for starts, then closes what brokers are left.
disposeGuarded ==
  /\ GuardIdle /\ ~runtime.disposed /\ GuardSpend("disposals")
  /\ runtime' = [runtime EXCEPT !.disposed = TRUE, !.disposing = TRUE]
  /\ shell' = CloseShells([c \in ShellCalls |-> [shell[c] EXCEPT !.pending = FALSE]], ShellCalls)
  /\ UNCHANGED <<broker, os>>
DisposeBrokers ==
  /\ GuardIdle /\ runtime.disposing
  /\ \A c \in ShellCalls : shell[c].close = "none"
  /\ \A n \in GuardedNets : runtime.start[n] = NoStart
  /\ runtime' = [runtime EXCEPT !.disposing = FALSE]
  /\ broker' = [b \in BrokerIds |-> IF \E n \in GuardedNets : runtime.brokers[n] = b THEN CloseBroker(broker, b)[b] ELSE broker[b]]
  /\ UNCHANGED <<shell, os, guardLeft>>

-----------------------------------------------------------------------------
(* The supervisor of a shell, and the recovery after it *)

Files(c) == shell[c].known
\* Its record is on disk before the workload may run.  Without the directory, and after a
\* signal that comes early, it ends with nothing done.
pm_launch_owner_prepare(c) ==
  /\ GuardIdle /\ os[c].st = "started"
  /\ \/ Files(c) /\ os' = [os EXCEPT ![c].st = "recorded", ![c].owner = TRUE]
     \/ (~Files(c) \/ os[c].hup) /\ os' = [os EXCEPT ![c].st = "exited"]
  /\ UNCHANGED <<runtime, broker, shell, guardLeft>>
pm_launch_authorize(c) ==
  /\ GuardIdle /\ os[c].st = "recorded"
  /\ \/ os' = [os EXCEPT ![c].st = "authorized", ![c].work = TRUE] /\ UNCHANGED guardLeft
     \/ GuardSpend("faults") /\ os' = [os EXCEPT ![c].st = "running", ![c].hup = TRUE]
  /\ UNCHANGED <<runtime, broker, shell>>
pm_launch_publish_ready(c) ==
  /\ GuardIdle /\ os[c].st = "authorized"
  /\ os' = [os EXCEPT ![c].st = "running", ![c].ready = TRUE]
  /\ UNCHANGED <<runtime, broker, shell, guardLeft>>
\* When the shell exits, or after a signal, what it left is found and killed; then the
\* receipt is written.
pm_launch_supervise(c) ==
  /\ GuardIdle /\ os[c].st = "running"
  /\ IF os[c].hup THEN UNCHANGED guardLeft ELSE GuardSpend("exits")
  /\ os' = [os EXCEPT ![c].st = "leaving", ![c].work = FALSE, ![c].receipt = TRUE]
  /\ UNCHANGED <<runtime, broker, shell>>
pm_launch_remove_ready(c) ==
  /\ GuardIdle /\ os[c].st = "leaving"
  /\ os' = [os EXCEPT ![c].st = "exited", ![c].ready = FALSE]
  /\ UNCHANGED <<runtime, broker, shell, guardLeft>>
\* Killed: what it authorised goes on without it.
SupervisorKilled(c) ==
  /\ GuardIdle /\ os[c].st \in {"recorded", "authorized", "running"} /\ GuardSpend("deaths")
  /\ os' = [os EXCEPT ![c].st = "dead"]
  /\ UNCHANGED <<runtime, broker, shell>>
pm_launch_recover_owner(c) ==
  /\ GuardIdle /\ os[c].helper = "running"
  /\ \/ ~os[c].receipt /\ os' = [os EXCEPT ![c].work = FALSE, ![c].receipt = TRUE] /\ UNCHANGED guardLeft
     \/ os[c].receipt /\ os' = [os EXCEPT ![c].helper = "ok"] /\ UNCHANGED guardLeft
     \/ GuardSpend("deaths") /\ os' = [os EXCEPT ![c].helper = "failed"]
  /\ UNCHANGED <<runtime, broker, shell>>

-----------------------------------------------------------------------------
GuardInit(scene) ==
  /\ runtime = [disposed |-> FALSE, disposing |-> FALSE, verified |-> "no", nets |-> scene.nets,
                brokers |-> [n \in GuardedNets |-> 0], start |-> [n \in GuardedNets |-> NoStart]]
  /\ broker = [b \in BrokerIds |-> NoBroker]
  /\ shell = [c \in ShellCalls |-> NoShell]
  /\ os = [c \in ShellCalls |-> NoProcess]
  /\ guardLeft = scene.left

GuardNext ==
  \/ \E c \in ShellCalls :
       \/ PsSample(c) \/ PsFails(c) \/ closeShellOwner(c) \/ stopIdentity(c) \/ SupervisorStops(c) \/ waitForRecoveryExit(c)
       \/ ensureBroker(c) \/ prepareShell(c) \/ openGuardedNetworkTerminal(c) \/ cancelGuardedTerminalOptions(c)
       \/ PtyStarts(c) \/ AdoptCaught(c) \/ adoptSupervisor(c) \/ PollReady(c) \/ waitReady(c) \/ monitorShell(c) \/ armShellExpiry(c)
       \/ detachGuardedVscodeTerminal(c) \/ UserClosesTerminal(c) \/ onDidCloseTerminal(c)
       \/ pm_launch_owner_prepare(c) \/ pm_launch_authorize(c) \/ pm_launch_publish_ready(c) \/ pm_launch_supervise(c)
       \/ pm_launch_remove_ready(c) \/ SupervisorKilled(c) \/ pm_launch_recover_owner(c)
  \/ \E b \in BrokerIds : BrokerExit(b) \/ BrokerLingers(b)
  \/ \E n \in GuardedNets :
       \/ ControllerReady(n) \/ readBrokerReady(n) \/ prepareGuardedTerminalOptions(n) \/ NetworkRemoved(n)
       \/ \E c \in ShellCalls : replaceGuardedTerminal(c, n)
  \/ verifyLauncherLifecycle \/ disposeGuarded \/ DisposeBrokers

-----------------------------------------------------------------------------
(* What is to hold *)

GuardTypeOK ==
  /\ runtime.nets \subseteq GuardedNets /\ runtime.verified \in {"no", "running", "yes"}
  /\ \A c \in ShellCalls : os[c].st \in Living \cup {"none", "exited", "dead"}
  /\ \A b \in BrokerIds : broker[b].sessions \subseteq ShellCalls

\* The workload of a shell, and the helper that cleans up after it, run only under the
\* shell's reservation, whatever order the terminal, the timer, the broker and the
\* supervisor end in.
WorkIsReserved == \A c \in ShellCalls : os[c].work \/ os[c].helper = "running" => shell[c].known

\* The pool of helpers is never overdrawn.
HelpersSuffice == InUse <= Helpers

\* A reservation has somebody who gives it back: a timer, a close, the monitor, or the one
\* who waits for readiness; unless a close failed or the monitor lost sight of the shell.
ReservationIsWatched ==
  \A c \in ShellCalls : shell[c].known /\ ~shell[c].lost =>
     shell[c].expiry \/ shell[c].mon \/ shell[c].close # "none" \/ shell[c].adopt \in {"pid", "poll", "scope", "caught"}

\* A shell that nobody closes has its broker, and a broker without shells is being
\* started, closed, or about to be used.
BrokerFollowsShells ==
  /\ \A c \in ShellCalls : shell[c].known /\ shell[c].close = "none" /\ ~shell[c].lost => Up(shell[c].broker)
  /\ \A b \in BrokerIds : broker[b].st = "up" /\ broker[b].sessions = {} =>
       \/ broker[b].closing # "none" \/ runtime.disposing
       \/ runtime.start[broker[b].net] = [st |-> "ready", broker |-> b]
       \/ \E c \in ShellCalls : shell[c].pc = "brokered" /\ shell[c].broker = b

\* The sidebar shows an attachment only for a shell that is there, or for one that was
\* closed while the daemon still answered for it.
AttachmentHasShell == \A c \in ShellCalls : shell[c].attached => shell[c].known \/ shell[c].late

ShellsAreAccounted ==
  GuardTypeOK /\ WorkIsReserved /\ HelpersSuffice /\ ReservationIsWatched /\ BrokerFollowsShells /\ AttachmentHasShell
=============================================================================
