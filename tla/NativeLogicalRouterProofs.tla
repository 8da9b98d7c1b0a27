---------------------- MODULE NativeLogicalRouterProofs ----------------------
(***************************************************************************)
(* The control protocol of the native router keeps ports, leases and open    *)
(* calls in step with the helper, for any number of ports and calls and any  *)
(* order of timeouts, refused lines and exits.                              *)
(*                                                                          *)
(* An answer names only its port, so the invariant must say which lines can  *)
(* be under way for a port at one time: at most one LISTEN or its answer, at *)
(* most one CLOSE or its answer, and in this order (LinesOK).  What is under *)
(* way and what the window believes then determine each other (PortOK).     *)
(***************************************************************************)
EXTENDS NativeLogicalRouter, TLAPS

Commands == {"LISTEN", "CLOSE"} \X RouterPorts
Replies == {"READY", "LISTEN_ERROR", "CLOSED"} \X RouterPorts
CloseStates == [sent : BOOLEAN, expired : BOOLEAN]
Calls == [port : RouterPorts, at : {"start", "listen"}]

NativeTyped ==
  /\ helper \in {"none", "starting", "ready", "ended"}
  /\ toHelper \in Seq(Commands) /\ fromHelper \in Seq(Replies)
  /\ helperPorts \cup activePorts \cup pendingListens \cup portReservations \subseteq RouterPorts
  /\ pendingCloses \in [DOMAIN pendingCloses -> CloseStates] /\ DOMAIN pendingCloses \subseteq RouterPorts
  /\ openCalls \in [DOMAIN openCalls -> Calls]

\* A LISTEN is awaited by those who share it, and not while its port is closed.
WaitsOK ==
  /\ \A k \in DOMAIN openCalls : Call(k).at = "listen" => Call(k).port \in pendingListens
  /\ pendingListens \cap DOMAIN pendingCloses = {}

\* A helper that has not reported yet was told nothing.
FreshOK ==
  helper \in {"none", "starting"} =>
    /\ toHelper = <<>> /\ fromHelper = <<>> /\ helperPorts = {}
    /\ activePorts = {} /\ pendingListens = {} /\ portReservations = {} /\ DOMAIN pendingCloses = {}

Has(s, l) == \E k \in DOMAIN s : s[k] = l
Once(s) == \A i, j \in DOMAIN s : s[i] = s[j] => i = j
Before(s, l, m) == \A i, j \in DOMAIN s : s[i] = l /\ s[j] = m => i < j

PortOK(p) ==
  /\ ~(Written("LISTEN", p) /\ Answered("READY", p)) /\ ~(Written("LISTEN", p) /\ Answered("LISTEN_ERROR", p))
  /\ ~(Answered("READY", p) /\ Answered("LISTEN_ERROR", p))
  /\ ~(Written("CLOSE", p) /\ Answered("CLOSED", p)) /\ ~(Written("LISTEN", p) /\ Answered("CLOSED", p))
  /\ p \in portReservations <=> p \in pendingListens \/ p \in DOMAIN pendingCloses \/ p \in activePorts
  /\ p \in pendingListens =>
       /\ Written("LISTEN", p) \/ Answered("READY", p) \/ Answered("LISTEN_ERROR", p)
       /\ p \notin activePorts /\ p \notin DOMAIN pendingCloses
  /\ Written("LISTEN", p) \/ Answered("READY", p) \/ Answered("LISTEN_ERROR", p) =>
       p \notin activePorts /\ (p \in pendingListens \/ p \in DOMAIN pendingCloses)
  /\ Written("CLOSE", p) \/ Answered("CLOSED", p) <=> p \in DOMAIN pendingCloses /\ pendingCloses[p].sent = TRUE
  /\ p \in helperPorts =>
       /\ ~Written("LISTEN", p) /\ ~Answered("LISTEN_ERROR", p) /\ ~Answered("CLOSED", p)
       /\ Answered("READY", p) \/ p \in activePorts \/ p \in DOMAIN pendingCloses
  /\ Answered("READY", p) \/ p \in activePorts => p \in helperPorts \/ Answered("CLOSED", p)

LinesOK ==
  /\ Once(toHelper) /\ Once(fromHelper)
  /\ \A p \in RouterPorts : /\ Before(toHelper, <<"LISTEN", p>>, <<"CLOSE", p>>)
                            /\ Before(fromHelper, <<"READY", p>>, <<"CLOSED", p>>)
                            /\ Before(fromHelper, <<"LISTEN_ERROR", p>>, <<"CLOSED", p>>)

NativeInv ==
  /\ NativeTyped /\ WaitsOK /\ FreshOK
  /\ helper = "ready" => LinesOK /\ \A p \in RouterPorts : PortOK(p)

-----------------------------------------------------------------------------
(* Lines in a pipe.                                                         *)

LEMMA AppendLine ==
  ASSUME NEW S, NEW s \in Seq(S), NEW e \in S
  PROVE  /\ Append(s, e) \in Seq(S)
         /\ \A l : Has(Append(s, e), l) <=> Has(s, l) \/ l = e
         /\ Once(s) /\ ~Has(s, e) => Once(Append(s, e))
         /\ \A l, m : Before(s, l, m) /\ l # m /\ (e = l => ~Has(s, m)) => Before(Append(s, e), l, m)
<1> DEFINE t == Append(s, e)
<1>1. /\ t \in Seq(S) /\ DOMAIN s = 1..Len(s) /\ DOMAIN t = 1..(Len(s) + 1) /\ Len(s) \in Nat
      /\ \A k \in DOMAIN s : t[k] = s[k] /\ t[Len(s) + 1] = e
  OBVIOUS
<1>2. t[Len(s) + 1] = e
  OBVIOUS
<1> HIDE DEF t
<1>3. \A l : Has(t, l) <=> Has(s, l) \/ l = e
  BY <1>1, <1>2 DEF Has
<1>4. Once(s) /\ ~Has(s, e) => Once(t)
  BY <1>1, <1>2 DEF Once, Has
<1>5. ASSUME NEW l, NEW m, Before(s, l, m), l # m, e = l => ~Has(s, m),
             NEW i \in DOMAIN t, NEW j \in DOMAIN t, t[i] = l, t[j] = m
      PROVE  i < j
  <2>1. CASE i = Len(s) + 1
    BY <1>1, <1>2, <1>5, <2>1 DEF Has
  <2>2. CASE i \in DOMAIN s /\ j = Len(s) + 1
    BY <1>1, <2>2
  <2>3. CASE i \in DOMAIN s /\ j \in DOMAIN s
    BY <1>1, <1>5, <2>3 DEF Before
  <2> QED BY <1>1, <2>1, <2>2, <2>3
<1>6. \A l, m : Before(s, l, m) /\ l # m /\ (e = l => ~Has(s, m)) => Before(t, l, m)
  BY <1>5 DEF Before
<1> QED BY <1>1, <1>3, <1>4, <1>6 DEF t

LEMMA TailLine ==
  ASSUME NEW S, NEW s \in Seq(S), s # <<>>
  PROVE  /\ Tail(s) \in Seq(S) /\ Head(s) \in S /\ Has(s, Head(s))
         /\ Once(s) => Once(Tail(s)) /\ \A l : Has(Tail(s), l) <=> Has(s, l) /\ l # Head(s)
         /\ \A l, m : Before(s, l, m) => Before(Tail(s), l, m)
         /\ \A l, m : Before(s, l, m) /\ Head(s) = m => ~Has(s, l)
<1> DEFINE t == Tail(s)
<1>1. /\ t \in Seq(S) /\ DOMAIN s = 1..Len(s) /\ DOMAIN t = 1..(Len(s) - 1) /\ Len(s) \in Nat /\ 1 \in DOMAIN s
      /\ \A k \in DOMAIN t : t[k] = s[k + 1]
      /\ Head(s) = s[1] /\ Head(s) \in S
  OBVIOUS
<1> HIDE DEF t
<1>2. \A k \in DOMAIN t : k \in Nat /\ k + 1 \in DOMAIN s /\ k + 1 # 1
  BY <1>1
<1>3. \A k \in DOMAIN s : k = 1 \/ (k - 1 \in DOMAIN t /\ t[k - 1] = s[k])
  BY <1>1
<1>4. Has(s, Head(s))
  BY <1>1 DEF Has
<1>5. ASSUME Once(s) PROVE Once(t) /\ \A l : Has(t, l) <=> Has(s, l) /\ l # Head(s)
  <2>1. Once(t)
    BY <1>1, <1>2, <1>5 DEF Once
  <2>2. ASSUME NEW l, Has(t, l) PROVE Has(s, l) /\ l # Head(s)
    BY <1>1, <1>2, <1>5, <2>2 DEF Once, Has
  <2>3. ASSUME NEW l, Has(s, l), l # Head(s) PROVE Has(t, l)
    BY <1>1, <1>3, <2>3 DEF Has
  <2> QED BY <2>1, <2>2, <2>3
<1>6. ASSUME NEW l, NEW m, Before(s, l, m) PROVE Before(t, l, m)
  <2> SUFFICES ASSUME NEW i \in DOMAIN t, NEW j \in DOMAIN t, t[i] = l, t[j] = m PROVE i < j
    BY DEF Before
  <2>1. i + 1 < j + 1
    BY <1>1, <1>2, <1>6 DEF Before
  <2> QED BY <1>2, <2>1
<1>7. ASSUME NEW l, NEW m, Before(s, l, m), Head(s) = m PROVE ~Has(s, l)
  <2> SUFFICES ASSUME NEW i \in DOMAIN s, s[i] = l PROVE FALSE
    BY DEF Has
  <2>1. i < 1
    BY <1>1, <1>7 DEF Before
  <2> QED BY <1>1, <2>1
<1> QED BY <1>1, <1>4, <1>5, <1>6, <1>7 DEF t

\* The helper is told a line that is not yet under way; a LISTEN only if no CLOSE is.
LEMMA WritesOK ==
  ASSUME NativeTyped, LinesOK, NEW kind \in {"LISTEN", "CLOSE"}, NEW p \in RouterPorts,
         toHelper' = Append(toHelper, <<kind, p>>), UNCHANGED fromHelper,
         ~Written(kind, p), kind = "LISTEN" => ~Written("CLOSE", p)
  PROVE  /\ toHelper' \in Seq(Commands) /\ LinesOK'
         /\ \A what, q : Written(what, q)' <=> Written(what, q) \/ (what = kind /\ q = p)
         /\ \A what, q : Answered(what, q)' <=> Answered(what, q)
<1> DEFINE l == <<kind, p>>
<1>1. l \in Commands /\ toHelper \in Seq(Commands) /\ \A what, q : <<what, q>> = l <=> what = kind /\ q = p
  BY DEF Commands, NativeTyped
<1>2. \A what, q : Written(what, q) <=> Has(toHelper, <<what, q>>)
  BY DEF Written, Has
<1>3. \A what, q : Written(what, q)' <=> Has(toHelper', <<what, q>>)
  BY DEF Written, Has
<1>4. \A what, q : Answered(what, q)' <=> Answered(what, q)
  BY DEF Answered
<1>5. toHelper' = Append(toHelper, l)
  OBVIOUS
<1> HIDE DEF l
<1>6. /\ toHelper' \in Seq(Commands) /\ \A m : Has(toHelper', m) <=> Has(toHelper, m) \/ m = l
      /\ Once(toHelper) /\ ~Has(toHelper, l) => Once(toHelper')
      /\ \A k, m : Before(toHelper, k, m) /\ k # m /\ (l = k => ~Has(toHelper, m)) => Before(toHelper', k, m)
  BY <1>1, <1>5, AppendLine
<1>7. Once(toHelper')
  BY <1>2, <1>6 DEF LinesOK, l
<1>8. ASSUME NEW q \in RouterPorts PROVE Before(toHelper', <<"LISTEN", q>>, <<"CLOSE", q>>)
  <2>1. Before(toHelper, <<"LISTEN", q>>, <<"CLOSE", q>>) /\ <<"LISTEN", q>> # <<"CLOSE", q>>
    BY DEF LinesOK
  <2>2. l = <<"LISTEN", q>> => ~Has(toHelper, <<"CLOSE", q>>)
    BY <1>1, <1>2
  <2> QED BY <1>6, <2>1, <2>2
<1>9. LinesOK'
  BY <1>7, <1>8 DEF LinesOK
<1> QED BY <1>1, <1>2, <1>3, <1>4, <1>6, <1>9

\* A line of the helper is read: it is the first of its port.
LEMMA ReadsOK ==
  ASSUME NativeTyped, LinesOK, fromHelper # <<>>, NEW kind, Head(fromHelper)[1] = kind,
         NEW p, p = Head(fromHelper)[2], fromHelper' = Tail(fromHelper), UNCHANGED toHelper
  PROVE  /\ p \in RouterPorts /\ fromHelper' \in Seq(Replies) /\ LinesOK'
         /\ Answered(kind, p)
         /\ kind = "CLOSED" => ~Answered("READY", p) /\ ~Answered("LISTEN_ERROR", p)
         /\ \A what, q : Answered(what, q)' <=> Answered(what, q) /\ ~(what = kind /\ q = p)
         /\ \A what, q : Written(what, q)' <=> Written(what, q)
<1>1. /\ fromHelper \in Seq(Replies) /\ Tail(fromHelper) \in Seq(Replies) /\ Head(fromHelper) \in Replies
      /\ Has(fromHelper, Head(fromHelper)) /\ Once(Tail(fromHelper))
      /\ \A l : Has(Tail(fromHelper), l) <=> Has(fromHelper, l) /\ l # Head(fromHelper)
      /\ \A l, m : Before(fromHelper, l, m) => Before(Tail(fromHelper), l, m)
      /\ \A l, m : Before(fromHelper, l, m) /\ Head(fromHelper) = m => ~Has(fromHelper, l)
  BY TailLine DEF NativeTyped, LinesOK
<1>2. Head(fromHelper) = <<kind, p>> /\ p \in RouterPorts
  BY <1>1 DEF Replies
<1>3. \A what, q : <<what, q>> = Head(fromHelper) <=> what = kind /\ q = p
  BY <1>2
<1>4. \A what, q : Answered(what, q) <=> Has(fromHelper, <<what, q>>)
  BY DEF Answered, Has
<1>5. \A what, q : Answered(what, q)' <=> Has(fromHelper', <<what, q>>)
  BY DEF Answered, Has
<1>6. \A what, q : Written(what, q)' <=> Written(what, q)
  BY DEF Written
<1>7. LinesOK'
  BY <1>1 DEF LinesOK
<1>8. Answered(kind, p)
  BY <1>1, <1>2, <1>4
<1>9. ASSUME NEW what, NEW q PROVE Answered(what, q)' <=> Answered(what, q) /\ ~(what = kind /\ q = p)
  <2>1. Has(fromHelper', <<what, q>>) <=> Has(fromHelper, <<what, q>>) /\ <<what, q>> # Head(fromHelper)
    BY <1>1
  <2>2. <<what, q>> = Head(fromHelper) <=> what = kind /\ q = p
    BY <1>3
  <2> QED BY <1>4, <1>5, <2>1, <2>2
<1>10. kind = "CLOSED" => ~Answered("READY", p) /\ ~Answered("LISTEN_ERROR", p)
  BY <1>1, <1>2, <1>4 DEF LinesOK
<1> QED BY <1>1, <1>2, <1>6, <1>7, <1>8, <1>9, <1>10

\* The helper reads a command.
LEMMA CommandReadOK ==
  ASSUME NativeTyped, LinesOK, toHelper # <<>>, toHelper' = Tail(toHelper),
         NEW kind \in {"LISTEN", "CLOSE"}, NEW p \in RouterPorts, Head(toHelper) = <<kind, p>>
  PROVE  /\ toHelper' \in Seq(Commands) /\ Once(toHelper')
         /\ \A q \in RouterPorts : Before(toHelper', <<"LISTEN", q>>, <<"CLOSE", q>>)
         /\ \A what, q : Written(what, q)' <=> Written(what, q) /\ ~(what = kind /\ q = p)
<1>1. /\ Tail(toHelper) \in Seq(Commands) /\ Once(Tail(toHelper))
      /\ \A l : Has(Tail(toHelper), l) <=> Has(toHelper, l) /\ l # Head(toHelper)
      /\ \A l, m : Before(toHelper, l, m) => Before(Tail(toHelper), l, m)
  BY TailLine DEF NativeTyped, LinesOK
<1>2. \A what, q : <<what, q>> = Head(toHelper) <=> what = kind /\ q = p
  OBVIOUS
<1>3. \A what, q : /\ Written(what, q) <=> Has(toHelper, <<what, q>>)
                   /\ Written(what, q)' <=> Has(toHelper', <<what, q>>)
  BY DEF Written, Has
<1>4. ASSUME NEW what, NEW q PROVE Written(what, q)' <=> Written(what, q) /\ ~(what = kind /\ q = p)
  <2>1. Has(toHelper', <<what, q>>) <=> Has(toHelper, <<what, q>>) /\ <<what, q>> # Head(toHelper)
    BY <1>1
  <2>2. <<what, q>> = Head(toHelper) <=> what = kind /\ q = p
    BY <1>2
  <2> QED BY <1>3, <2>1, <2>2
<1>5. \A q \in RouterPorts : Before(toHelper', <<"LISTEN", q>>, <<"CLOSE", q>>)
  BY <1>1 DEF LinesOK
<1> QED BY <1>1, <1>4, <1>5

\* The helper answers: an answer to a LISTEN is not behind one to a CLOSE of its port.
AnswerIsLast(status, p) ==
  /\ fromHelper' \in Seq(Replies) /\ Once(fromHelper')
  /\ \A q \in RouterPorts : /\ Before(fromHelper', <<"READY", q>>, <<"CLOSED", q>>)
                            /\ Before(fromHelper', <<"LISTEN_ERROR", q>>, <<"CLOSED", q>>)
  /\ \A what, q : Answered(what, q)' <=> Answered(what, q) \/ (what = status /\ q = p)

LEMMA AnswerOK ==
  ASSUME NativeTyped, LinesOK, NEW p \in RouterPorts, NEW status \in {"READY", "LISTEN_ERROR", "CLOSED"},
         fromHelper' = Append(fromHelper, <<status, p>>),
         ~Answered(status, p), status # "CLOSED" => ~Answered("CLOSED", p)
  PROVE  AnswerIsLast(status, p)
<1> DEFINE l == <<status, p>>
<1>1. l \in Replies /\ fromHelper \in Seq(Replies)
  BY DEF Replies, NativeTyped
<1>2. \A what, q : <<what, q>> = l <=> what = status /\ q = p
  OBVIOUS
<1>3. fromHelper' = Append(fromHelper, l)
  OBVIOUS
<1>4. \A what, q : /\ Answered(what, q) <=> Has(fromHelper, <<what, q>>)
                   /\ Answered(what, q)' <=> Has(fromHelper', <<what, q>>)
  BY DEF Answered, Has
<1>5. ~Has(fromHelper, l)
  BY <1>4
<1> HIDE DEF l
<1>6. /\ fromHelper' \in Seq(Replies) /\ \A m : Has(fromHelper', m) <=> Has(fromHelper, m) \/ m = l
      /\ Once(fromHelper) /\ ~Has(fromHelper, l) => Once(fromHelper')
      /\ \A k, m : Before(fromHelper, k, m) /\ k # m /\ (l = k => ~Has(fromHelper, m)) => Before(fromHelper', k, m)
  BY <1>1, <1>3, AppendLine
<1>7. ASSUME NEW what, NEW q PROVE Answered(what, q)' <=> Answered(what, q) \/ (what = status /\ q = p)
  <2>1. Has(fromHelper', <<what, q>>) <=> Has(fromHelper, <<what, q>>) \/ <<what, q>> = l
    BY <1>6
  <2>2. <<what, q>> = l <=> what = status /\ q = p
    BY <1>2
  <2> QED BY <1>4, <2>1, <2>2
<1>8. ASSUME NEW q \in RouterPorts, NEW what \in {"READY", "LISTEN_ERROR"}
      PROVE  Before(fromHelper', <<what, q>>, <<"CLOSED", q>>)
  <2>1. Before(fromHelper, <<what, q>>, <<"CLOSED", q>>) /\ <<what, q>> # <<"CLOSED", q>>
    BY DEF LinesOK
  <2>2. ASSUME l = <<what, q>> PROVE ~Has(fromHelper, <<"CLOSED", q>>)
    <3>1. what = status /\ q = p
      BY <1>2, <2>2
    <3>2. ~Answered("CLOSED", q)
      BY <3>1
    <3> QED BY <1>4, <3>2
  <2> QED BY <1>6, <2>1, <2>2
<1>9. Once(fromHelper')
  BY <1>5, <1>6 DEF LinesOK
<1> QED BY <1>6, <1>7, <1>8, <1>9 DEF AnswerIsLast

-----------------------------------------------------------------------------
(* What does not touch the protocol.                                        *)

LEMMA SamePorts ==
  ASSUME LinesOK, \A p \in RouterPorts : PortOK(p), UNCHANGED <<pipes, protocol>>
  PROVE  LinesOK' /\ \A p \in RouterPorts : PortOK(p)'
<1>1. LinesOK'
  BY DEF LinesOK, pipes
<1>2. \A what, p : (Written(what, p)' <=> Written(what, p)) /\ (Answered(what, p)' <=> Answered(what, p))
  BY DEF Written, Answered, pipes
<1>3. ASSUME NEW p \in RouterPorts PROVE PortOK(p)'
  BY <1>2 DEF PortOK, pipes, protocol
<1> QED BY <1>1, <1>3

\* Calls that end, and calls that go on to share a LISTEN.
LEMMA EndCallsOK ==
  ASSUME openCalls \in [DOMAIN openCalls -> Calls], NEW ks, EndCalls(ks)
  PROVE  /\ openCalls' \in [DOMAIN openCalls' -> Calls]
         /\ \A k \in DOMAIN openCalls' : k \in DOMAIN openCalls /\ k \notin ks /\ Call(k)' = Call(k)
BY DEF EndCalls, Drop, Call

LEMMA OpenPortOK ==
  ASSUME NativeInv, NEW p \in RouterPorts, openPort(p)
  PROVE  NativeInv'
<1> DEFINE c == [port |-> p, at |-> "start"]
           k == routerTurns.opens
<1>1. openCalls' = Put(openCalls, k, c) /\ UNCHANGED <<pipes, protocol>>
        /\ helper' = IF helper = "none" THEN "starting" ELSE helper
  BY DEF openPort
<1>2. c \in Calls /\ c.at = "start"
  BY DEF Calls
<1> HIDE DEF c, k
<1>3. /\ openCalls' \in [DOMAIN openCalls' -> Calls]
      /\ \A j \in DOMAIN openCalls' : Call(j)' = c \/ (j \in DOMAIN openCalls /\ Call(j)' = Call(j))
  BY <1>1, <1>2 DEF Put, Call, NativeInv, NativeTyped
<1>4. NativeTyped'
  BY <1>1, <1>3 DEF NativeInv, NativeTyped, pipes, protocol
<1>5. WaitsOK'
  BY <1>1, <1>2, <1>3 DEF NativeInv, WaitsOK, protocol
<1>6. FreshOK'
  BY <1>1 DEF NativeInv, FreshOK, pipes, protocol
<1>7. helper' = "ready" => LinesOK' /\ \A q \in RouterPorts : PortOK(q)'
  BY <1>1, SamePorts DEF NativeInv
<1> QED BY <1>4, <1>5, <1>6, <1>7 DEF NativeInv

LEMMA StartupOK ==
  ASSUME NativeInv, resolveStartup \/ rejectStartup
  PROVE  NativeInv'
<1>1. UNCHANGED <<pipes, protocol>> /\ helper = "starting" /\ helper' \in {"ready", "none"}
  BY DEF resolveStartup, rejectStartup
<1>2. /\ openCalls' \in [DOMAIN openCalls' -> Calls]
      /\ \A k \in DOMAIN openCalls' : k \in DOMAIN openCalls /\ Call(k)' = Call(k)
  <2>1. CASE resolveStartup
    BY <2>1 DEF resolveStartup, NativeInv, NativeTyped, Call
  <2>2. CASE rejectStartup
    BY <2>2, EndCallsOK DEF rejectStartup, NativeInv, NativeTyped
  <2> QED BY <2>1, <2>2
<1>3. NativeTyped' /\ WaitsOK' /\ FreshOK'
  BY <1>1, <1>2 DEF NativeInv, NativeTyped, WaitsOK, FreshOK, pipes, protocol
<1>4. /\ toHelper' = <<>> /\ fromHelper' = <<>> /\ helperPorts' = {} /\ activePorts' = {}
      /\ pendingListens' = {} /\ portReservations' = {} /\ DOMAIN pendingCloses' = {}
  BY <1>1 DEF NativeInv, FreshOK, pipes, protocol
<1>5. \A what, p : ~Written(what, p)' /\ ~Answered(what, p)'
  BY <1>4 DEF Written, Answered
<1>6. LinesOK'
  BY <1>4 DEF LinesOK, Once, Before
<1>7. \A p \in RouterPorts : PortOK(p)'
  BY <1>4, <1>5 DEF PortOK
<1> QED BY <1>3, <1>6, <1>7 DEF NativeInv

LEMMA HelperEndsOK ==
  ASSUME NativeInv, RouterHelperEnds \/ HelperExitNoticed
  PROVE  NativeInv'
<1>1. CASE RouterHelperEnds
  BY <1>1 DEF RouterHelperEnds, NativeInv, NativeTyped, WaitsOK, FreshOK, protocol, Call
<1>2. CASE HelperExitNoticed
  <2>1. /\ helper' = "none" /\ toHelper' = <<>> /\ fromHelper' = <<>> /\ helperPorts' = {} /\ activePorts' = {}
        /\ pendingListens' = {} /\ portReservations' = {} /\ pendingCloses' = <<>> /\ openCalls' = <<>>
    BY <1>2 DEF HelperExitNoticed
  <2>2. DOMAIN pendingCloses' = {} /\ DOMAIN openCalls' = {}
    BY <2>1
  <2>3. /\ pendingCloses' \in [DOMAIN pendingCloses' -> CloseStates]
        /\ openCalls' \in [DOMAIN openCalls' -> Calls]
    BY <2>1, <2>2
  <2>4. toHelper' \in Seq(Commands) /\ fromHelper' \in Seq(Replies)
    BY <2>1
  <2> QED BY <2>1, <2>2, <2>3, <2>4 DEF NativeInv, NativeTyped, WaitsOK, FreshOK
<1> QED BY <1>1, <1>2

-----------------------------------------------------------------------------
(* open                                                                     *)

\* LISTEN is written for a port that is not in use: nothing of it is under way.
LEMMA ListensOK ==
  ASSUME NativeInv, NEW k \in DOMAIN openCalls, NEW p, p = Call(k).port, helper = "ready",
         p \notin DOMAIN pendingCloses, p \notin activePorts \cup pendingListens,
         openCalls' = [openCalls EXCEPT ![k].at = "listen"],
         portReservations' = portReservations \cup {p}, pendingListens' = pendingListens \cup {p},
         toHelper' = Append(toHelper, <<"LISTEN", p>>),
         UNCHANGED <<helper, fromHelper, helperPorts, activePorts, pendingCloses>>
  PROVE  NativeInv'
<1> DEFINE c == [Call(k) EXCEPT !.at = "listen"]
<1>1. Call(k) \in Calls /\ p \in RouterPorts
  BY DEF NativeInv, NativeTyped, Call, Calls
<1>2. c \in Calls /\ c.port = p
  BY <1>1 DEF Calls
<1>3. openCalls' = [openCalls EXCEPT ![k] = c]
  BY DEF Call
<1> HIDE DEF c
<1>4. /\ openCalls' \in [DOMAIN openCalls' -> Calls]
      /\ \A j \in DOMAIN openCalls' : j \in DOMAIN openCalls /\ (Call(j)' = c \/ Call(j)' = Call(j))
  BY <1>2, <1>3 DEF NativeInv, NativeTyped, Call
<1>5. PortOK(p) /\ LinesOK
  BY <1>1 DEF NativeInv
<1>6. /\ \A what : what \in {"LISTEN", "CLOSE"} => ~Written(what, p)
      /\ \A what : what \in {"READY", "LISTEN_ERROR", "CLOSED"} => ~Answered(what, p)
      /\ p \notin helperPorts /\ p \notin portReservations
  BY <1>5 DEF PortOK
<1>7. /\ toHelper' \in Seq(Commands) /\ LinesOK'
      /\ \A what, q : Written(what, q)' <=> Written(what, q) \/ (what = "LISTEN" /\ q = p)
      /\ \A what, q : Answered(what, q)' <=> Answered(what, q)
  BY <1>1, <1>5, <1>6, WritesOK DEF NativeInv
<1>8. NativeTyped' /\ FreshOK'
  BY <1>1, <1>4, <1>7 DEF NativeInv, NativeTyped, FreshOK
<1>9. WaitsOK'
  BY <1>2, <1>4 DEF NativeInv, WaitsOK
<1>10. ASSUME NEW q \in RouterPorts PROVE PortOK(q)'
  <2>1. PortOK(q)
    BY DEF NativeInv
  <2>2. CASE q = p
    BY <1>6, <1>7, <2>2 DEF PortOK
  <2>3. CASE q # p
    BY <1>7, <2>1, <2>3 DEF PortOK
  <2> QED BY <2>2, <2>3
<1> QED BY <1>7, <1>8, <1>9, <1>10 DEF NativeInv

LEMMA OpenGoesOnOK ==
  ASSUME NativeInv, NEW k \in DOMAIN openCalls, OpenGoesOn(k)
  PROVE  NativeInv'
<1> DEFINE p == Call(k).port
<1>1. helper = "ready" /\ helper' = "ready"
  BY DEF OpenGoesOn
<1>2. CASE EndCalls({k}) /\ UNCHANGED <<pipes, protocol>>
  <2>1. /\ openCalls' \in [DOMAIN openCalls' -> Calls]
        /\ \A j \in DOMAIN openCalls' : j \in DOMAIN openCalls /\ Call(j)' = Call(j)
    BY <1>2, EndCallsOK DEF NativeInv, NativeTyped
  <2>2. NativeTyped' /\ WaitsOK' /\ FreshOK'
    BY <1>1, <1>2, <2>1 DEF NativeInv, NativeTyped, WaitsOK, FreshOK, pipes, protocol
  <2> QED BY <1>1, <1>2, <2>2, SamePorts DEF NativeInv
<1>3. CASE p \in pendingListens /\ openCalls' = [openCalls EXCEPT ![k].at = "listen"] /\ UNCHANGED <<pipes, protocol>>
  <2> DEFINE c == [Call(k) EXCEPT !.at = "listen"]
  <2>1. Call(k) \in Calls
    BY DEF NativeInv, NativeTyped, Call
  <2>2. c \in Calls /\ c.port = p
    BY <2>1 DEF Calls
  <2>3. openCalls' = [openCalls EXCEPT ![k] = c]
    BY <1>3 DEF Call
  <2> HIDE DEF c, p
  <2>4. /\ openCalls' \in [DOMAIN openCalls' -> Calls]
        /\ \A j \in DOMAIN openCalls' : j \in DOMAIN openCalls /\ (Call(j)' = c \/ Call(j)' = Call(j))
    BY <2>2, <2>3 DEF NativeInv, NativeTyped, Call
  <2>5. NativeTyped' /\ FreshOK'
    BY <1>1, <1>3, <2>4 DEF NativeInv, NativeTyped, FreshOK, pipes, protocol
  <2>6. WaitsOK'
    BY <1>3, <2>2, <2>4 DEF NativeInv, WaitsOK, protocol
  <2> QED BY <1>1, <1>3, <2>5, <2>6, SamePorts DEF NativeInv
<1>4. CASE /\ p \notin DOMAIN pendingCloses /\ p \notin activePorts \cup pendingListens
           /\ openCalls' = [openCalls EXCEPT ![k].at = "listen"]
           /\ portReservations' = portReservations \cup {p} /\ pendingListens' = pendingListens \cup {p}
           /\ toHelper' = Append(toHelper, <<"LISTEN", p>>)
           /\ UNCHANGED <<fromHelper, helperPorts, activePorts, pendingCloses>>
  BY <1>1, <1>4, ListensOK
<1> QED BY <1>2, <1>3, <1>4 DEF OpenGoesOn

-----------------------------------------------------------------------------
(* closePort                                                                *)

\* The answer to CLOSE is awaited, whether the pipe took the line or not.
LEMMA CloseOK ==
  ASSUME NativeInv, NEW p \in RouterPorts, p \notin DOMAIN pendingCloses, closePort(p), EndCalls(Sharing(p)),
         UNCHANGED <<helper, fromHelper, helperPorts>>
  PROVE  NativeInv'
<1>1. /\ openCalls' \in [DOMAIN openCalls' -> Calls]
      /\ \A k \in DOMAIN openCalls' : /\ k \in DOMAIN openCalls /\ Call(k)' = Call(k)
                                      /\ ~(Call(k).port = p /\ Call(k).at = "listen")
  BY EndCallsOK DEF NativeInv, NativeTyped, Sharing
<1>2. pendingListens' = pendingListens \ {p} /\ activePorts' = activePorts \ {p} /\ UNCHANGED portReservations
  BY DEF closePort
<1>3. CASE p \notin portReservations
  <2>1. UNCHANGED <<pendingCloses, toHelper>>
    BY <1>3 DEF closePort
  <2>2. NativeTyped' /\ FreshOK'
    BY <1>1, <1>2, <2>1 DEF NativeInv, NativeTyped, FreshOK
  <2>3. WaitsOK'
    BY <1>1, <1>2, <2>1 DEF NativeInv, WaitsOK
  <2>4. ASSUME helper = "ready" PROVE LinesOK' /\ \A q \in RouterPorts : PortOK(q)'
    <3>1. UNCHANGED <<pendingListens, activePorts>>
      BY <1>2, <1>3, <2>4 DEF NativeInv, PortOK
    <3> QED BY <1>2, <2>1, <2>4, <3>1, SamePorts DEF NativeInv, pipes, protocol
  <2> QED BY <2>2, <2>3, <2>4 DEF NativeInv
<1>4. CASE p \in portReservations
  <2>1. PICK sent \in BOOLEAN :
          /\ pendingCloses' = Put(pendingCloses, p, [sent |-> sent, expired |-> FALSE])
          /\ toHelper' = IF sent THEN Append(toHelper, <<"CLOSE", p>>) ELSE toHelper
    BY <1>4 DEF closePort
  <2> DEFINE c == [sent |-> sent, expired |-> FALSE]
  <2>2. c \in CloseStates /\ c.sent = sent
    BY DEF CloseStates
  <2>3. pendingCloses' = Put(pendingCloses, p, c)
    BY <2>1
  <2> HIDE DEF c
  <2>4. /\ pendingCloses' \in [DOMAIN pendingCloses' -> CloseStates]
        /\ DOMAIN pendingCloses' = DOMAIN pendingCloses \cup {p}
        /\ pendingCloses'[p] = c /\ \A q \in DOMAIN pendingCloses : q # p => pendingCloses'[q] = pendingCloses[q]
    BY <2>2, <2>3 DEF Put, NativeInv, NativeTyped
  <2>5. toHelper' \in Seq(Commands)
    <3>1. <<"CLOSE", p>> \in Commands /\ toHelper \in Seq(Commands)
      BY DEF Commands, NativeInv, NativeTyped
    <3> QED BY <2>1, <3>1, AppendLine
  <2>6. helper \notin {"none", "starting"}
    BY <1>4 DEF NativeInv, FreshOK
  <2>7. NativeTyped' /\ FreshOK'
    BY <1>1, <1>2, <2>4, <2>5, <2>6 DEF NativeInv, NativeTyped, FreshOK
  <2>8. WaitsOK'
    BY <1>1, <1>2, <2>4 DEF NativeInv, WaitsOK
  <2>9. ASSUME helper = "ready" PROVE LinesOK' /\ \A q \in RouterPorts : PortOK(q)'
    <3>1. LinesOK /\ PortOK(p)
      BY <2>9 DEF NativeInv
    <3>2. ~Written("CLOSE", p) /\ ~Answered("CLOSED", p)
      BY <3>1 DEF PortOK
    <3>3. /\ LinesOK'
          /\ \A what, q : Written(what, q)' <=> Written(what, q) \/ (sent /\ what = "CLOSE" /\ q = p)
          /\ \A what, q : Answered(what, q)' <=> Answered(what, q)
      <4>1. CASE sent
        BY <2>1, <3>1, <3>2, <4>1, WritesOK DEF NativeInv
      <4>2. CASE ~sent
        BY <2>1, <3>1, <4>2 DEF LinesOK, Written, Answered
      <4> QED BY <4>1, <4>2
    <3>4. ASSUME NEW q \in RouterPorts PROVE PortOK(q)'
      <4>1. PortOK(q)
        BY <2>9 DEF NativeInv
      <4>2. CASE q = p
        BY <1>2, <1>4, <2>2, <2>4, <3>2, <3>3, <4>1, <4>2 DEF PortOK
      <4>3. CASE q # p
        BY <1>2, <2>4, <3>3, <4>1, <4>3 DEF PortOK
      <4> QED BY <4>2, <4>3
    <3> QED BY <3>3, <3>4
  <2> QED BY <2>7, <2>8, <2>9 DEF NativeInv
<1> QED BY <1>3, <1>4

LEMMA ClosesOK ==
  ASSUME NativeInv, NEW p \in RouterPorts, ManagerCloses(p) \/ ListenTimeout(p)
  PROVE  NativeInv'
<1>1. p \notin DOMAIN pendingCloses
  BY DEF ManagerCloses, ListenTimeout, NativeInv, WaitsOK
<1> QED BY <1>1, CloseOK DEF ManagerCloses, ListenTimeout

\* A CLOSE that timed out stays registered; one the pipe refused is written when it drains.
LEMMA CloseStatesOK ==
  ASSUME NativeInv, NEW p \in DOMAIN pendingCloses, CloseTimeout(p) \/ retryCloses(p)
  PROVE  NativeInv'
<1>1. p \in RouterPorts /\ pendingCloses[p] \in CloseStates
  BY DEF NativeInv, NativeTyped
<1>2. UNCHANGED <<helper, fromHelper, helperPorts, activePorts, pendingListens, portReservations, openCalls>>
  BY DEF CloseTimeout, retryCloses, pipes
<1>3. CASE CloseTimeout(p)
  <2> DEFINE c == [pendingCloses[p] EXCEPT !.expired = TRUE]
  <2>1. c \in CloseStates /\ c.sent = pendingCloses[p].sent
    BY <1>1 DEF CloseStates
  <2>2. pendingCloses' = [pendingCloses EXCEPT ![p] = c] /\ UNCHANGED toHelper
    BY <1>3 DEF CloseTimeout, pipes
  <2> HIDE DEF c
  <2>3. /\ pendingCloses' \in [DOMAIN pendingCloses' -> CloseStates] /\ DOMAIN pendingCloses' = DOMAIN pendingCloses
        /\ \A q \in DOMAIN pendingCloses : pendingCloses'[q].sent = pendingCloses[q].sent
    BY <2>1, <2>2 DEF NativeInv, NativeTyped
  <2>4. NativeTyped' /\ WaitsOK' /\ FreshOK'
    BY <1>2, <2>2, <2>3 DEF NativeInv, NativeTyped, WaitsOK, FreshOK, Call
  <2>5. \A what, q : (Written(what, q)' <=> Written(what, q)) /\ (Answered(what, q)' <=> Answered(what, q))
    BY <1>2, <2>2 DEF Written, Answered
  <2>6. ASSUME helper = "ready" PROVE LinesOK' /\ \A q \in RouterPorts : PortOK(q)'
    BY <1>2, <2>2, <2>3, <2>5, <2>6 DEF NativeInv, LinesOK, PortOK
  <2> QED BY <1>2, <2>4, <2>6 DEF NativeInv
<1>4. CASE retryCloses(p)
  <2> DEFINE c == [pendingCloses[p] EXCEPT !.sent = TRUE]
  <2>1. c \in CloseStates /\ c.sent = TRUE
    BY <1>1 DEF CloseStates
  <2>2. /\ pendingCloses' = [pendingCloses EXCEPT ![p] = c] /\ toHelper' = Append(toHelper, <<"CLOSE", p>>)
        /\ helper = "ready" /\ pendingCloses[p].sent # TRUE
    BY <1>4 DEF retryCloses
  <2> HIDE DEF c
  <2>3. /\ pendingCloses' \in [DOMAIN pendingCloses' -> CloseStates] /\ DOMAIN pendingCloses' = DOMAIN pendingCloses
        /\ pendingCloses'[p] = c /\ \A q \in DOMAIN pendingCloses : q # p => pendingCloses'[q] = pendingCloses[q]
    BY <2>1, <2>2 DEF NativeInv, NativeTyped
  <2>4. LinesOK /\ PortOK(p)
    BY <1>1, <2>2 DEF NativeInv
  <2>5. ~Written("CLOSE", p) /\ ~Answered("CLOSED", p)
    BY <2>2, <2>4 DEF PortOK
  <2>6. /\ toHelper' \in Seq(Commands) /\ LinesOK'
        /\ \A what, q : Written(what, q)' <=> Written(what, q) \/ (what = "CLOSE" /\ q = p)
        /\ \A what, q : Answered(what, q)' <=> Answered(what, q)
    BY <1>1, <1>2, <2>2, <2>4, <2>5, WritesOK DEF NativeInv
  <2>7. NativeTyped' /\ WaitsOK' /\ FreshOK'
    BY <1>2, <2>2, <2>3, <2>6 DEF NativeInv, NativeTyped, WaitsOK, FreshOK, Call
  <2>8. ASSUME NEW q \in RouterPorts PROVE PortOK(q)'
    <3>1. PortOK(q)
      BY <2>2 DEF NativeInv
    <3>2. CASE q = p
      BY <1>2, <2>1, <2>3, <2>5, <2>6, <3>1, <3>2 DEF PortOK
    <3>3. CASE q # p
      BY <1>2, <2>3, <2>6, <3>1, <3>3 DEF PortOK
    <3> QED BY <3>2, <3>3
  <2> QED BY <2>6, <2>7, <2>8 DEF NativeInv
<1> QED BY <1>3, <1>4
-----------------------------------------------------------------------------
(* handleProtocolLine                                                       *)

\* What reading any line does, also from a helper that ended.
LEMMA NextLineOK ==
  ASSUME NativeInv, fromHelper # <<>>, NextLine
  PROVE  /\ LinePort \in RouterPorts /\ fromHelper' \in Seq(Replies)
         /\ helper \notin {"none", "starting"} /\ UNCHANGED <<helper, toHelper, helperPorts>>
<1>1. fromHelper' = Tail(fromHelper) /\ UNCHANGED <<helper, toHelper, helperPorts>>
  BY DEF NextLine
<1>2. Tail(fromHelper) \in Seq(Replies) /\ Head(fromHelper) \in Replies
  BY TailLine DEF NativeInv, NativeTyped
<1>3. LinePort \in RouterPorts
  BY <1>2 DEF LinePort, Replies
<1> QED BY <1>1, <1>2, <1>3 DEF NativeInv, FreshOK

LEMMA ResolveListenOK ==
  ASSUME NativeInv, resolveListen
  PROVE  NativeInv'
<1> DEFINE p == LinePort
<1>1. /\ fromHelper # <<>> /\ Head(fromHelper)[1] = "READY" /\ NextLine /\ EndCalls(Sharing(p))
      /\ activePorts' = activePorts \cup {p} /\ pendingListens' = pendingListens \ {p}
      /\ UNCHANGED <<pendingCloses, portReservations>>
  BY DEF resolveListen, Line
<1>2. /\ p \in RouterPorts /\ fromHelper' \in Seq(Replies)
      /\ helper \notin {"none", "starting"} /\ UNCHANGED <<helper, toHelper, helperPorts>>
  BY <1>1, NextLineOK
<1>3. /\ openCalls' \in [DOMAIN openCalls' -> Calls]
      /\ \A k \in DOMAIN openCalls' : /\ k \in DOMAIN openCalls /\ Call(k)' = Call(k)
                                      /\ ~(Call(k).port = p /\ Call(k).at = "listen")
  BY <1>1, EndCallsOK DEF NativeInv, NativeTyped, Sharing
<1>4. p = Head(fromHelper)[2] /\ fromHelper' = Tail(fromHelper)
  BY <1>1 DEF LinePort, NextLine
<1> HIDE DEF p
<1>5. NativeTyped' /\ FreshOK'
  BY <1>1, <1>2, <1>3 DEF NativeInv, NativeTyped, FreshOK
<1>6. WaitsOK'
  BY <1>1, <1>3 DEF NativeInv, WaitsOK
<1>7. ASSUME helper = "ready" PROVE LinesOK' /\ \A q \in RouterPorts : PortOK(q)'
  <2>1. LinesOK /\ \A q \in RouterPorts : PortOK(q)
    BY <1>7 DEF NativeInv
  <2>2. /\ LinesOK' /\ Answered("READY", p)
        /\ \A what, q : Answered(what, q)' <=> Answered(what, q) /\ ~(what = "READY" /\ q = p)
        /\ \A what, q : Written(what, q)' <=> Written(what, q)
    BY <1>1, <1>2, <1>4, <2>1, ReadsOK DEF NativeInv
  <2>3. ASSUME NEW q \in RouterPorts PROVE PortOK(q)'
    <3>1. CASE q = p
      BY <1>1, <1>2, <2>1, <2>2, <3>1 DEF PortOK
    <3>2. CASE q # p
      BY <1>1, <1>2, <2>1, <2>2, <3>2 DEF PortOK
    <3> QED BY <3>1, <3>2
  <2> QED BY <2>2, <2>3
<1> QED BY <1>2, <1>5, <1>6, <1>7 DEF NativeInv

\* A late LISTEN_ERROR leaves the lease to the CLOSE that is under way.
LEMMA RejectListenOK ==
  ASSUME NativeInv, rejectListen
  PROVE  NativeInv'
<1> DEFINE p == LinePort
<1>1. /\ fromHelper # <<>> /\ Head(fromHelper)[1] = "LISTEN_ERROR" /\ NextLine /\ EndCalls(Sharing(p))
      /\ portReservations' = (IF p \in DOMAIN pendingCloses THEN portReservations ELSE portReservations \ {p})
      /\ pendingListens' = pendingListens \ {p} /\ UNCHANGED <<activePorts, pendingCloses>>
  BY DEF rejectListen, Line
<1>2. /\ p \in RouterPorts /\ fromHelper' \in Seq(Replies)
      /\ helper \notin {"none", "starting"} /\ UNCHANGED <<helper, toHelper, helperPorts>>
  BY <1>1, NextLineOK
<1>3. /\ openCalls' \in [DOMAIN openCalls' -> Calls]
      /\ \A k \in DOMAIN openCalls' : /\ k \in DOMAIN openCalls /\ Call(k)' = Call(k)
                                      /\ ~(Call(k).port = p /\ Call(k).at = "listen")
  BY <1>1, EndCallsOK DEF NativeInv, NativeTyped, Sharing
<1>4. p = Head(fromHelper)[2] /\ fromHelper' = Tail(fromHelper)
  BY <1>1 DEF LinePort, NextLine
<1> HIDE DEF p
<1>5. NativeTyped' /\ FreshOK'
  BY <1>1, <1>2, <1>3 DEF NativeInv, NativeTyped, FreshOK
<1>6. WaitsOK'
  BY <1>1, <1>3 DEF NativeInv, WaitsOK
<1>7. ASSUME helper = "ready" PROVE LinesOK' /\ \A q \in RouterPorts : PortOK(q)'
  <2>1. LinesOK /\ \A q \in RouterPorts : PortOK(q)
    BY <1>7 DEF NativeInv
  <2>2. /\ LinesOK' /\ Answered("LISTEN_ERROR", p)
        /\ \A what, q : Answered(what, q)' <=> Answered(what, q) /\ ~(what = "LISTEN_ERROR" /\ q = p)
        /\ \A what, q : Written(what, q)' <=> Written(what, q)
    BY <1>1, <1>2, <1>4, <2>1, ReadsOK DEF NativeInv
  <2>3. ASSUME NEW q \in RouterPorts PROVE PortOK(q)'
    <3>1. CASE q = p
      BY <1>1, <1>2, <2>1, <2>2, <3>1 DEF PortOK
    <3>2. CASE q # p
      BY <1>1, <1>2, <2>1, <2>2, <3>2 DEF PortOK
    <3> QED BY <3>1, <3>2
  <2> QED BY <2>2, <2>3
<1> QED BY <1>2, <1>5, <1>6, <1>7 DEF NativeInv

\* After CLOSED nothing of the port is under way.
LEMMA PortClosedOK ==
  ASSUME NativeInv, PortClosed
  PROVE  NativeInv'
<1> DEFINE p == LinePort
<1>1. /\ fromHelper # <<>> /\ Head(fromHelper)[1] = "CLOSED" /\ NextLine
      /\ activePorts' = activePorts \ {p} /\ portReservations' = portReservations \ {p}
      /\ pendingCloses' = Drop(pendingCloses, {p}) /\ UNCHANGED <<pendingListens, openCalls>>
  BY DEF PortClosed, Line
<1>2. /\ p \in RouterPorts /\ fromHelper' \in Seq(Replies)
      /\ helper \notin {"none", "starting"} /\ UNCHANGED <<helper, toHelper, helperPorts>>
  BY <1>1, NextLineOK
<1>3. p = Head(fromHelper)[2] /\ fromHelper' = Tail(fromHelper)
  BY <1>1 DEF LinePort, NextLine
<1> HIDE DEF p
<1>4. /\ pendingCloses' \in [DOMAIN pendingCloses' -> CloseStates]
      /\ DOMAIN pendingCloses' = DOMAIN pendingCloses \ {p}
      /\ \A q \in DOMAIN pendingCloses' : pendingCloses'[q] = pendingCloses[q]
  BY <1>1 DEF Drop, NativeInv, NativeTyped
<1>5. NativeTyped' /\ FreshOK'
  BY <1>1, <1>2, <1>4 DEF NativeInv, NativeTyped, FreshOK
<1>6. WaitsOK'
  BY <1>1, <1>4 DEF NativeInv, WaitsOK, Call
<1>7. ASSUME helper = "ready" PROVE LinesOK' /\ \A q \in RouterPorts : PortOK(q)'
  <2>1. LinesOK /\ \A q \in RouterPorts : PortOK(q)
    BY <1>7 DEF NativeInv
  <2>2. /\ LinesOK' /\ Answered("CLOSED", p) /\ ~Answered("READY", p) /\ ~Answered("LISTEN_ERROR", p)
        /\ \A what, q : Answered(what, q)' <=> Answered(what, q) /\ ~(what = "CLOSED" /\ q = p)
        /\ \A what, q : Written(what, q)' <=> Written(what, q)
    BY <1>1, <1>2, <1>3, <2>1, ReadsOK DEF NativeInv
  <2>3. ASSUME NEW q \in RouterPorts PROVE PortOK(q)'
    <3>1. CASE q = p
      BY <1>1, <1>2, <1>4, <2>1, <2>2, <3>1 DEF PortOK
    <3>2. CASE q # p
      BY <1>1, <1>2, <1>4, <2>1, <2>2, <3>2 DEF PortOK
    <3> QED BY <3>1, <3>2
  <2> QED BY <2>2, <2>3
<1> QED BY <1>2, <1>5, <1>6, <1>7 DEF NativeInv

-----------------------------------------------------------------------------
(* The helper.                                                              *)

LEMMA HelperReadsOK ==
  ASSUME NativeInv, HelperReads
  PROVE  NativeInv'
<1>1. /\ helper = "ready" /\ helper' = "ready" /\ toHelper # <<>> /\ toHelper' = Tail(toHelper)
      /\ UNCHANGED <<protocol, openCalls>>
  BY DEF HelperReads
<1>2. LinesOK /\ \A q \in RouterPorts : PortOK(q)
  BY <1>1 DEF NativeInv
<1>3. Head(toHelper) \in Commands /\ Has(toHelper, Head(toHelper))
        /\ \A l, m : Before(toHelper, l, m) /\ Head(toHelper) = m => ~Has(toHelper, l)
  BY <1>1, TailLine DEF NativeInv, NativeTyped
<1>4. PICK kind \in {"LISTEN", "CLOSE"}, p \in RouterPorts : Head(toHelper) = <<kind, p>>
  BY <1>3 DEF Commands
<1>5. Written(kind, p) /\ (kind = "CLOSE" => ~Written("LISTEN", p))
  BY <1>2, <1>3, <1>4 DEF Written, Has, LinesOK
<1>6. PICK status \in {"READY", "LISTEN_ERROR", "CLOSED"} :
        /\ fromHelper' = Append(fromHelper, <<status, p>>)
        /\ \/ kind = "LISTEN" /\ status = "READY" /\ helperPorts' = helperPorts \cup {p}
           \/ kind = "LISTEN" /\ status = "LISTEN_ERROR" /\ p \notin helperPorts /\ UNCHANGED helperPorts
           \/ kind = "CLOSE" /\ status = "CLOSED" /\ helperPorts' = helperPorts \ {p}
  BY <1>4 DEF HelperReads
<1>7. ~Answered(status, p) /\ (status # "CLOSED" => ~Answered("CLOSED", p))
  BY <1>2, <1>4, <1>5, <1>6 DEF PortOK
<1>8. /\ toHelper' \in Seq(Commands) /\ fromHelper' \in Seq(Replies) /\ LinesOK'
      /\ \A what, q : Answered(what, q)' <=> Answered(what, q) \/ (what = status /\ q = p)
      /\ \A what, q : Written(what, q)' <=> Written(what, q) /\ ~(what = kind /\ q = p)
  <2>1. NativeTyped /\ LinesOK /\ toHelper # <<>> /\ toHelper' = Tail(toHelper)
    BY <1>1, <1>2 DEF NativeInv
  <2>2. /\ toHelper' \in Seq(Commands) /\ Once(toHelper')
        /\ \A q \in RouterPorts : Before(toHelper', <<"LISTEN", q>>, <<"CLOSE", q>>)
        /\ \A what, q : Written(what, q)' <=> Written(what, q) /\ ~(what = kind /\ q = p)
    BY <1>4, <2>1, CommandReadOK
  <2>3. fromHelper' = Append(fromHelper, <<status, p>>)
    BY <1>6
  <2>4. AnswerIsLast(status, p)
    BY <1>7, <2>1, <2>3, AnswerOK
  <2> QED BY <2>2, <2>4 DEF LinesOK, AnswerIsLast
<1>9. NativeTyped' /\ WaitsOK' /\ FreshOK'
  BY <1>1, <1>4, <1>6, <1>8 DEF NativeInv, NativeTyped, WaitsOK, FreshOK, protocol, Call
<1>10. ASSUME NEW q \in RouterPorts PROVE PortOK(q)'
  <2>1. CASE q # p
    BY <1>1, <1>2, <1>6, <1>8, <2>1 DEF PortOK, protocol
  <2>2. CASE q = p /\ kind = "LISTEN" /\ status = "READY"
    BY <1>1, <1>2, <1>5, <1>6, <1>8, <2>2 DEF PortOK, protocol
  <2>3. CASE q = p /\ kind = "LISTEN" /\ status = "LISTEN_ERROR"
    BY <1>1, <1>2, <1>5, <1>6, <1>8, <2>3 DEF PortOK, protocol
  <2>4. CASE q = p /\ kind = "CLOSE" /\ status = "CLOSED"
    BY <1>1, <1>2, <1>5, <1>6, <1>8, <2>4 DEF PortOK, protocol
  <2> QED BY <1>6, <2>1, <2>2, <2>3, <2>4
<1> QED BY <1>8, <1>9, <1>10 DEF NativeInv

-----------------------------------------------------------------------------
LEMMA NativeNextOK ==
  ASSUME NativeInv, [NativeRouterNext]_nativeRouterVars
  PROVE  NativeInv'
<1>1. CASE UNCHANGED nativeRouterVars
  <2>1. UNCHANGED <<helper, openCalls>> /\ UNCHANGED <<pipes, protocol>>
    BY <1>1 DEF nativeRouterVars, pipes, protocol
  <2>2. NativeTyped' /\ WaitsOK' /\ FreshOK'
    BY <1>1 DEF nativeRouterVars, NativeInv, NativeTyped, WaitsOK, FreshOK, Call
  <2> QED BY <2>1, <2>2, SamePorts DEF NativeInv
<1> QED BY <1>1, OpenPortOK, ClosesOK, CloseStatesOK, OpenGoesOnOK, StartupOK, ResolveListenOK, RejectListenOK,
           PortClosedOK, HelperReadsOK, HelperEndsOK DEF NativeRouterNext

LEMMA NativeInitOK ==
  ASSUME NEW scene, NativeRouterInit(scene)
  PROVE  NativeInv
<1>1. DOMAIN pendingCloses = {} /\ DOMAIN openCalls = {}
  BY DEF NativeRouterInit
<1>2. pendingCloses \in [DOMAIN pendingCloses -> CloseStates] /\ openCalls \in [DOMAIN openCalls -> Calls]
  BY <1>1 DEF NativeRouterInit
<1>3. toHelper \in Seq(Commands) /\ fromHelper \in Seq(Replies)
  BY DEF NativeRouterInit
<1> QED BY <1>1, <1>2, <1>3 DEF NativeRouterInit, NativeInv, NativeTyped, WaitsOK, FreshOK

LEMMA NativeInvFollows == NativeInv => PortsFollowHelper
<1> SUFFICES ASSUME NativeInv PROVE PortsFollowHelper
  OBVIOUS
<1>1. NativeRouterTypeOK
  BY DEF NativeInv, NativeTyped, WaitsOK, NativeRouterTypeOK
<1>2. ASSUME helper = "ready", NEW p \in RouterPorts
      PROVE  /\ p \in helperPorts \/ Written("LISTEN", p) => p \in portReservations
             /\ p \in portReservations =>
                  \/ p \in helperPorts \cup DOMAIN pendingCloses \cup pendingListens
                  \/ Written("LISTEN", p) \/ Answered("LISTEN_ERROR", p)
             /\ p \in activePorts => p \in helperPorts \/ Answered("CLOSED", p)
             /\ p \in helperPorts => p \in activePorts \cup pendingListens \cup DOMAIN pendingCloses
  BY <1>2 DEF NativeInv, PortOK
<1>3. LeaseCoversPort /\ ActivePortListens /\ NoForgottenPort
  BY <1>2 DEF LeaseCoversPort, ActivePortListens, NoForgottenPort, NativeInv, NativeTyped
<1> QED BY <1>1, <1>3 DEF PortsFollowHelper

\* Whatever is opened and closed, and whenever lines are refused, answers come late,
\* timers end or the helper exits, every port the helper listens on has its lease and
\* is known to the window, and no late answer makes a closed port active or returns the
\* lease of a later LISTEN (NativeLogicalPortRouterProcess of logical-port-router.ts).
THEOREM PortsAlwaysFollowHelper ==
  ASSUME NEW scene
  PROVE  NativeRouterInit(scene) /\ [][NativeRouterNext]_nativeRouterVars => []PortsFollowHelper
<1>1. NativeRouterInit(scene) => NativeInv
  BY NativeInitOK
<1>2. NativeInv /\ [NativeRouterNext]_nativeRouterVars => NativeInv'
  BY NativeNextOK
<1> QED BY <1>1, <1>2, NativeInvFollows, PTL
=============================================================================
