-------------------------- MODULE BrowserDnsSetup --------------------------
(* Browser aliases on macOS: what the administrator script installs (lo0     *)
(* aliases, resolver files, the hosts block, the development certificate),   *)
(* what the window remembers of it (the cached lo0 addresses, the cached     *)
(* verdict of the keychain), and the jobs that read, repair and verify it.   *)
(* A job runs until its next await; reads of lo0 and checks of the keychain  *)
(* are shared by the jobs that wait for them.  The computer restarts, files  *)
(* are edited, certificates age and commands fail while jobs wait.           *)
EXTENDS Integers, FiniteSets

CONSTANTS
  AliasMaps,    \* what the networks may ask for: functions from host names to addresses
  TerminalBand  \* the loopback address of the terminals of a network, as a set

ASSUME AliasAssumption ==
  /\ Cardinality(TerminalBand) = 1
  /\ \A m \in AliasMaps : {m[h] : h \in DOMAIN m} \cap TerminalBand = {}

VARIABLES
  aliasMap,   \* what the networks ask for now
  mac,        \* what the computer holds
  answering,  \* the daemon's DNS responder runs, with the current records
  win,        \* the window: its caches, reads, jobs and offers
  macLeft     \* what may still happen

dnsSetupVars == <<aliasMap, mac, answering, win, macLeft>>

NoLeaf == [id |-> 0, issuer |-> 0, names |-> {}, life |-> "none"]
NoLo0 == [known |-> FALSE, fresh |-> FALSE, seen |-> {}]
NoTrust == [of |-> <<>>, state |-> "checking", fresh |-> FALSE]
NotReading == [on |-> FALSE, kept |-> NoLo0]
NoJob == [pc |-> "idle", wait |-> {}, recs |-> <<>>, forced |-> FALSE, renew |-> FALSE,
          offered |-> FALSE, rotated |-> FALSE, seen |-> {}, of |-> <<>>, verdict |-> "checking",
          quiet |-> FALSE, calm |-> FALSE, out |-> "none"]
SetupJobs == {"install", "attach", "cleanup", "ready", "warm"}
NoOffer == {}

----------------------------------------------------------------------------
\* What is on the computer, as it is read: the files anew whenever they changed.
HostsRows(h) == {a \in UNION {{e[2]} : e \in mac.owned \union mac.rows} :
               <<h, a>> \in mac.owned \union mac.rows}
Owned(h) == {e[2] : e \in {x \in mac.owned : x[1] = h}}
isBrowserDnsHostsEntryConfigured(h, a) == a \in HostsRows(h)
isBrowserDnsOwnedHostsEntryCurrent(h, a) == Owned(h) \subseteq {a}
isBrowserDnsResolverConfigured(h) == h \in mac.resolvers
tlsAvailable == mac.leaf # NoLeaf /\ mac.marker # {"none"}
browserTlsStateCoversRecord(h) == tlsAvailable /\ h \in mac.marker \cap mac.leaf.names
ResolverReady(h) == isBrowserDnsResolverConfigured(h) /\ isBrowserDnsResolverConfigured("pm")

\* Mutant: lo0 that could not be read counts as empty.
DriftWhenUnread(recs, known, seen) ==
  {h \in DOMAIN recs :
     \/ Owned(h) \ {recs[h]} # {} \/ recs[h] \notin HostsRows(h)
     \/ ~ResolverReady(h) \/ ~known \/ recs[h] \notin seen
     \/ ~tlsAvailable \/ mac.leaf.life = "expired" \/ ~browserTlsStateCoversRecord(h)}

\* detectBrowserDnsDrift: the names whose root-owned state disagrees; lo0 when it could not
\* be read is no disagreement.
detectBrowserDnsDrift(recs, known, seen) ==
  {h \in DOMAIN recs :
     \/ Owned(h) \ {recs[h]} # {}
     \/ recs[h] \notin HostsRows(h)
     \/ ~ResolverReady(h)
     \/ known /\ recs[h] \notin seen
     \/ ~tlsAvailable
     \/ mac.leaf.life = "expired"
     \/ ~browserTlsStateCoversRecord(h)}

Material == IF mac.ca = 0 \/ mac.leaf = NoLeaf THEN <<>> ELSE <<mac.ca, mac.leaf.id>>
\* security verify-cert, on the leaf that is installed.
VerifyCert ==
  IF mac.leaf.issuer \in mac.keychain /\ mac.leaf.life # "expired" THEN "trusted" ELSE "untrusted"

readCachedBrowserTlsTrustStatus(w) ==
  IF Material = <<>> THEN "untrusted"
  ELSE IF w.trust.of = Material /\ w.trust.fresh THEN w.trust.state
  ELSE "checking"

\* buildBrowserDnsResolverStatus, for one name.
RowOf(w, h) ==
  [name |-> h, address |-> aliasMap[h],
   resolver |-> ResolverReady(h),
   alias |-> aliasMap[h] \in w.lo0.seen,
   hosts |-> /\ isBrowserDnsHostsEntryConfigured(h, aliasMap[h])
             /\ isBrowserDnsOwnedHostsEntryCurrent(h, aliasMap[h]),
   tls |-> /\ browserTlsStateCoversRecord(h) /\ mac.leaf.life # "expired"
           /\ readCachedBrowserTlsTrustStatus(w) = "trusted"]
Configured(row) == row.resolver /\ row.alias /\ row.hosts /\ row.tls
MissingRows(w) == {row \in {RowOf(w, h) : h \in DOMAIN aliasMap} : ~Configured(row)}

----------------------------------------------------------------------------
\* The window's caches.
invalidateLoopbackAliasCache(w) == [w EXCEPT !.lo0 = NoLo0]
invalidateBrowserTlsTrustStatus(w) == [w EXCEPT !.trust = NoTrust]
Probed(w) == [w EXCEPT !.lo0 = [known |-> TRUE, fresh |-> TRUE, seen |-> mac.lo0]]

readLoopbackAliasAddresses(w, j) ==
  IF w.lo0.fresh THEN [w EXCEPT !.jobs[j].seen = w.lo0.seen]
  ELSE [w EXCEPT !.jobs[j].wait = @ \union {"lo0"},
                 !.reading = IF @.on THEN @ ELSE [on |-> TRUE, kept |-> w.lo0]]

\* A check under way is shared when it is of the certificates that are installed now.
refreshBrowserTlsTrustStatus(w, j) ==
  IF Material = <<>>
  THEN [w EXCEPT !.trust = [of |-> <<"missing">>, state |-> "untrusted", fresh |-> TRUE],
                 !.jobs[j].verdict = "untrusted"]
  ELSE [w EXCEPT !.jobs[j].wait = @ \union {"trust"},
                 !.jobs[j].of = Material,
                 !.checks = IF \E c \in @ : c.of = Material /\ c.shared THEN @
                            ELSE {[c EXCEPT !.shared = FALSE] : c \in @}
                                 \union {[of |-> Material, before |-> VerifyCert, shared |-> TRUE]}]

\* warmBrowserDnsAliasStatus: every look at the status refreshes what is stale, once.
Warm(w) ==
  LET checking == readCachedBrowserTlsTrustStatus(w) = "checking"
      one == [w EXCEPT !.jobs["warm"] = [NoJob EXCEPT !.pc = "warm"]]
      two == IF w.lo0.fresh THEN one ELSE readLoopbackAliasAddresses(one, "warm")
  IN IF DOMAIN aliasMap = {} \/ (w.lo0.fresh /\ ~checking) \/ w.jobs["warm"].pc # "idle" THEN w
     ELSE IF checking THEN refreshBrowserTlsTrustStatus(two, "warm") ELSE two

clearBrowserDnsInstallOfferSignature(w) == [w EXCEPT !.session = NoOffer, !.durable = NoOffer]

\* One offer for each set of rows that are missing something.
maybeOfferBrowserDnsResolverInstall(w0) ==
  LET w == Warm(w0)
      missing == MissingRows(w)
  IN IF missing = {} THEN clearBrowserDnsInstallOfferSignature(w)
     ELSE IF missing \in {w.session, w.durable} THEN w
     ELSE [w EXCEPT !.session = missing, !.open = @ \union {missing}]

\* A request joins the installation that runs, whatever it asked for.
installBrowserDnsResolvers(w, forced, renew, offered) ==
  IF w.jobs["install"].pc # "idle" THEN [w EXCEPT !.jobs["install"].offered = @ \/ offered]
  ELSE IF DOMAIN aliasMap = {} THEN Warm(w)
  ELSE [Warm(w) EXCEPT !.jobs["install"] =
          [NoJob EXCEPT !.pc = "probe", !.recs = aliasMap, !.forced = forced, !.renew = renew,
                        !.offered = offered]]

\* The end of a job; one that an offer started clears the offer when it fails.
JobEnded(w, j, out) ==
  LET ended == [w EXCEPT !.jobs[j] = [NoJob EXCEPT !.out = out, !.calm = w.jobs[j].calm]]
  IN IF out = "failed" /\ w.jobs[j].offered THEN clearBrowserDnsInstallOfferSignature(ended)
     ELSE ended

JobAt(w, j, pc) == [w EXCEPT !.jobs[j].pc = pc]
Calm(w, j, b) == [w EXCEPT !.jobs[j].calm = b]
\* Somebody other than job j changes what the others may have read.
Disturb(w, j) ==
  [w EXCEPT !.jobs = [i \in SetupJobs |-> IF i = j THEN w.jobs[i] ELSE [w.jobs[i] EXCEPT !.calm = FALSE]]]

----------------------------------------------------------------------------
\* What follows when trust is settled.
AfterTrust(w, j) ==
  IF j = "attach"
  THEN JobAt(readLoopbackAliasAddresses(clearBrowserDnsInstallOfferSignature(w), j), j, "acheck")
  ELSE JobAt(IF w.jobs[j].quiet THEN w ELSE clearBrowserDnsInstallOfferSignature(w), j, "vprobe")
\* ensureBrowserTlsCertificateTrustedForCurrentUser, up to its first await.
ensureTrusted(w, j) ==
  IF mac.ca = 0 THEN AfterTrust(w, j)
  ELSE JobAt(refreshBrowserTlsTrustStatus(invalidateBrowserTlsTrustStatus(w), j), j, "trust")
\* An installation gives up; an attachment goes on without.
TrustFails(w, j) == IF j = "attach" THEN AfterTrust(w, j) ELSE JobEnded(w, j, "failed")

SetupSpend(k) == macLeft[k] > 0 /\ macLeft' = [macLeft EXCEPT ![k] = @ - 1]
Free == UNCHANGED macLeft
Waits(j, pc) == win.jobs[j].pc = pc /\ win.jobs[j].wait = {}

----------------------------------------------------------------------------
\* The requests.
install(renew) ==
  /\ SetupSpend("installs")
  /\ win' = installBrowserDnsResolvers(win, FALSE, renew, FALSE)
  /\ UNCHANGED <<aliasMap, mac, answering>>
repairLocalDns(forced) ==
  /\ SetupSpend("repairs")
  /\ answering' \in {answering, TRUE}
  /\ win' = installBrowserDnsResolvers(win, forced, FALSE, FALSE)
  /\ UNCHANGED <<aliasMap, mac>>
repairBrowserDnsAlias(h) ==
  /\ SetupSpend("repairs")
  /\ LET stale == tlsAvailable /\ (mac.leaf.life # "ok" \/ ~browserTlsStateCoversRecord(h))
     IN win' = installBrowserDnsResolvers(Warm(win), FALSE, stale, FALSE)
  /\ UNCHANGED <<aliasMap, mac, answering>>
\* The tree asks for the status; a refresh may offer the installation.
Render ==
  /\ SetupSpend("looks") /\ win' = Warm(win) /\ win' # win /\ UNCHANGED <<aliasMap, mac, answering>>
Refresh ==
  /\ SetupSpend("looks") /\ win' = maybeOfferBrowserDnsResolverInstall(win) /\ win' # win
  /\ UNCHANGED <<aliasMap, mac, answering>>
Accept(offer) ==
  /\ SetupSpend("answers")
  /\ win' = installBrowserDnsResolvers([win EXCEPT !.open = @ \ {offer}], FALSE, FALSE, TRUE)
  /\ UNCHANGED <<aliasMap, mac, answering>>
Dismiss(offer) ==
  /\ SetupSpend("answers")
  /\ win' = [win EXCEPT !.open = @ \ {offer}, !.session = offer, !.durable = offer]
  /\ UNCHANGED <<aliasMap, mac, answering>>
cleanupBrowserDnsResolvers ==
  /\ SetupSpend("cleanups") /\ win.jobs["cleanup"].pc = "idle" /\ DOMAIN aliasMap # {}
  /\ win' = [Warm(win) EXCEPT !.jobs["cleanup"] = [NoJob EXCEPT !.pc = "prompt", !.recs = aliasMap]]
  /\ UNCHANGED <<aliasMap, mac, answering>>
ensureTerminalRoutingHostReady(auto) ==
  /\ SetupSpend("attaches") /\ win.jobs["attach"].pc = "idle"
  /\ win' = [win EXCEPT !.jobs["attach"] = [NoJob EXCEPT !.pc = "aprobe", !.quiet = auto]]
  /\ UNCHANGED <<aliasMap, mac, answering>>
ensureBrowserDnsLoopbackAliasesReady ==
  /\ SetupSpend("syncs") /\ win.jobs["ready"].pc = "idle" /\ DOMAIN aliasMap # {}
  /\ win' = readLoopbackAliasAddresses(
              [win EXCEPT !.jobs["ready"] = [NoJob EXCEPT !.pc = "rread", !.recs = aliasMap]], "ready")
  /\ UNCHANGED <<aliasMap, mac, answering>>

----------------------------------------------------------------------------
\* The shared read of lo0 ends; when it failed, what was cached at its start is kept.
Lo0ReadEnds(ok) ==
  LET kept == win.reading.kept
      seen == IF ok THEN mac.lo0 ELSE kept.seen
      Told(job) == IF "lo0" \in job.wait
                   THEN [job EXCEPT !.wait = @ \ {"lo0"}, !.seen = seen] ELSE job
  IN /\ win.reading.on
     /\ IF ok THEN Free ELSE SetupSpend("faults")
     /\ win' = [win EXCEPT !.reading = NotReading,
                           !.lo0 = IF ok \/ kept.known
                                   THEN [known |-> TRUE, fresh |-> TRUE, seen |-> seen] ELSE @,
                           !.jobs = [j \in SetupJobs |-> Told(win.jobs[j])]]
     /\ UNCHANGED <<aliasMap, mac, answering>>

\* A check of the keychain ends: with the verdict of its start or of its end, or with none.
TrustCheckEnds(c, verdict) ==
  LET current == c.of = Material
      told == IF verdict # "none" THEN verdict
              ELSE IF win.trust.of = c.of THEN win.trust.state ELSE "checking"
      Told(job) == IF "trust" \in job.wait /\ job.of = c.of
                   THEN [job EXCEPT !.wait = @ \ {"trust"}, !.verdict = told] ELSE job
  IN /\ IF verdict = "none" THEN SetupSpend("faults") ELSE Free
     /\ win' = [win EXCEPT !.checks = @ \ {c},
                           !.trust = IF verdict # "none" /\ current
                                     THEN [of |-> c.of, state |-> verdict, fresh |-> TRUE] ELSE @,
                           !.jobs = [j \in SetupJobs |-> Told(win.jobs[j])]]
     /\ UNCHANGED <<aliasMap, mac, answering>>

\* The refresh of the status is complete: the tree is drawn anew, an offer may follow.
WarmEnds ==
  /\ Waits("warm", "warm") /\ Free
  /\ win' = [maybeOfferBrowserDnsResolverInstall(win) EXCEPT !.jobs["warm"] = NoJob]
  /\ UNCHANGED <<aliasMap, mac, answering>>

----------------------------------------------------------------------------
\* The installation decides on fresh reads whether it needs the administrator.
detectDrift(ok) ==
  LET job == win.jobs["install"]
      w == IF ok THEN Probed(win) ELSE win
      drift == detectBrowserDnsDrift(job.recs, ok, mac.lo0)
  IN /\ Waits("install", "probe")
     /\ IF ok THEN Free ELSE SetupSpend("faults")
     /\ win' = IF job.forced \/ job.renew \/ drift # {} THEN JobAt(w, "install", "prompt")
               ELSE [w EXCEPT !.jobs["install"].pc = "rflush", !.jobs["install"].quiet = TRUE]
     /\ UNCHANGED <<aliasMap, mac, answering>>

\* The prompt is answered.
Approve(j) ==
  /\ Waits(j, "prompt") /\ Free
  /\ win' = Calm(JobAt(win, j, IF j = "cleanup" THEN "unresolve" ELSE "aliases"), j, TRUE)
  /\ UNCHANGED <<aliasMap, mac, answering>>
Cancel(j) ==
  /\ Waits(j, "prompt") /\ SetupSpend("faults")
  /\ win' = JobEnded(win, j, "failed") /\ UNCHANGED <<aliasMap, mac, answering>>

\* The commands of the scripts, in their order.
ScriptOrder ==
  [aliases |-> "suffix", suffix |-> "unhost", unhost |-> "block", block |-> "forget",
   forget |-> "ca", ca |-> "leaf", leaf |-> "marker", marker |-> "keychain", keychain |-> "end",
   unresolve |-> "unblock", unblock |-> "end"]
\* Each name stands for itself and its secure twin.
buildBrowserTlsHostnames(recs) == DOMAIN recs
NeedsLeaf(job) ==
  ~(/\ ~job.rotated /\ mac.leaf # NoLeaf /\ mac.marker = buildBrowserTlsHostnames(job.recs)
    /\ mac.leaf.life = "ok")
NeedsCa == mac.ca = 0 \/ mac.caDue
collectTerminalLoopbackAddresses == TerminalBand
Addresses(job) == {job.recs[h] : h \in DOMAIN job.recs}
AliasesAndResolvers(job) ==
  [mac EXCEPT !.lo0 = @ \union Addresses(job) \union collectTerminalLoopbackAddresses,
              !.resolvers = @ \union DOMAIN job.recs]
SuffixResolver == [mac EXCEPT !.resolvers = (@ \union {"pm"}) \ {"legacy"}]
HostsCleaned == [mac EXCEPT !.owned = {}]
HostsBlock(job) == [mac EXCEPT !.owned = @ \union {<<h, job.recs[h]>> : h \in DOMAIN job.recs}]
LeafRemoved(job) == IF job.renew THEN [mac EXCEPT !.leaf = NoLeaf, !.marker = {"none"}] ELSE mac
CaIssued ==
  IF NeedsCa THEN [mac EXCEPT !.ca = mac.made + 1, !.made = @ + 1, !.caDue = FALSE] ELSE mac
LeafIssued(job) ==
  IF NeedsLeaf(job)
  THEN [mac EXCEPT !.made = @ + 1,
                   !.leaf = [id |-> mac.made + 1, issuer |-> mac.ca, names |-> buildBrowserTlsHostnames(job.recs),
                             life |-> "ok"]]
  ELSE mac
\* Only the files that Port Manager wrote are removed, and the alias with its file.
ResolversRemoved(job) ==
  [mac EXCEPT !.lo0 = @ \ {job.recs[h] : h \in DOMAIN job.recs \cap mac.resolvers},
              !.resolvers = @ \ (DOMAIN job.recs \union {"pm", "legacy"})]
ScriptEffect(job) ==
  CASE job.pc = "aliases" -> AliasesAndResolvers(job)
    [] job.pc = "suffix" -> SuffixResolver
    [] job.pc \in {"unhost", "unblock"} -> HostsCleaned
    [] job.pc = "block" -> HostsBlock(job)
    [] job.pc = "forget" -> LeafRemoved(job)
    [] job.pc = "ca" -> CaIssued
    [] job.pc = "leaf" -> LeafIssued(job)
    [] job.pc = "marker" -> [mac EXCEPT !.marker = buildBrowserTlsHostnames(job.recs)]
    [] job.pc = "keychain" -> [mac EXCEPT !.keychain = @ \union {mac.ca}]
    [] job.pc = "unresolve" -> ResolversRemoved(job)
\* A script without names only adds the aliases of the terminals.
NextCommand(job) == IF DOMAIN job.recs = {} THEN "end" ELSE ScriptOrder[job.pc]

\* What the job does when its script is through.
ScriptDone(w, j) ==
  CASE j = "install" -> JobAt(readLoopbackAliasAddresses(invalidateLoopbackAliasCache(w), j), j, "readback")
    [] j = "attach" ->
         LET v == invalidateLoopbackAliasCache(w)
         IN IF DOMAIN w.jobs[j].recs # {} THEN ensureTrusted(v, j)
            ELSE JobAt(readLoopbackAliasAddresses(v, j), j, "acheck")
    [] j = "cleanup" -> Warm(JobEnded(w, j, "ok"))

\* The next command of a script runs.  Registering the CA may fail without ending it.
ScriptStep(j) ==
  LET job == win.jobs[j] IN
  /\ job.pc \in DOMAIN ScriptOrder /\ Free
  /\ mac' = ScriptEffect(job)
  /\ win' = [Disturb(win, j) EXCEPT
               !.jobs[j].pc = NextCommand(job),
               !.jobs[j].rotated = @ \/ (job.pc = "ca" /\ NeedsCa)]
  /\ UNCHANGED <<aliasMap, answering>>
KeychainRefuses(j) ==
  /\ win.jobs[j].pc = "keychain" /\ SetupSpend("faults")
  /\ win' = JobAt(win, j, "end") /\ UNCHANGED <<aliasMap, mac, answering>>
\* A command fails, or the script is killed: what it did so far stays.
ScriptFails(j) ==
  /\ win.jobs[j].pc \in DOMAIN ScriptOrder /\ SetupSpend("faults")
  /\ win' = JobEnded(win, j, "failed") /\ UNCHANGED <<aliasMap, mac, answering>>
ScriptEnds(j) ==
  /\ win.jobs[j].pc = "end" /\ Free
  /\ win' = ScriptDone(win, j) /\ UNCHANGED <<aliasMap, mac, answering>>

\* lo0 was read back; then the certificate must be trusted.
readBack ==
  /\ Waits("install", "readback") /\ Free
  /\ win' = ensureTrusted(win, "install") /\ UNCHANGED <<aliasMap, mac, answering>>
trustVerdict(j) ==
  /\ Waits(j, "trust") /\ Free
  /\ win' = IF win.jobs[j].verdict = "trusted" THEN AfterTrust(win, j) ELSE JobAt(win, j, "register")
  /\ UNCHANGED <<aliasMap, mac, answering>>
\* The CA is added to the login keychain.
addTrustedCert(j) ==
  /\ Waits(j, "register") /\ Free
  /\ mac' = [mac EXCEPT !.keychain = @ \union ({mac.ca} \ {0})]
  /\ win' = JobAt(Disturb(win, j), j, "registered")
  /\ UNCHANGED <<aliasMap, answering>>
registrationFails(j) ==
  /\ Waits(j, "register") /\ SetupSpend("faults")
  /\ win' = TrustFails(win, j) /\ UNCHANGED <<aliasMap, mac, answering>>
registered(j) ==
  /\ Waits(j, "registered") /\ Free
  /\ win' = JobAt(refreshBrowserTlsTrustStatus(invalidateBrowserTlsTrustStatus(win), j), j, "retrust")
  /\ UNCHANGED <<aliasMap, mac, answering>>
secondVerdict(j) ==
  /\ Waits(j, "retrust") /\ Free
  /\ win' = IF win.jobs[j].verdict = "trusted" THEN AfterTrust(win, j) ELSE TrustFails(win, j)
  /\ UNCHANGED <<aliasMap, mac, answering>>

\* recoverBrowserDnsWithoutPrivileges: the table is pushed, trust is looked at.
recover ==
  /\ Waits("install", "rflush") /\ Free
  /\ answering' \in {answering, TRUE}
  /\ win' = JobAt(refreshBrowserTlsTrustStatus(invalidateBrowserTlsTrustStatus(win), "install"),
               "install", "rtrust")
  /\ UNCHANGED <<aliasMap, mac>>
recoverTrust ==
  /\ Waits("install", "rtrust") /\ Free
  /\ win' = IF win.jobs["install"].verdict = "untrusted" THEN ensureTrusted(win, "install")
            ELSE AfterTrust(win, "install")
  /\ UNCHANGED <<aliasMap, mac, answering>>

\* verifyBrowserAccessReadiness: lo0 is probed, trust checked anew, the table pushed and
\* the status read; then every name must resolve.
verifyProbe(ok) ==
  LET w == IF ok THEN Probed(win) ELSE win IN
  /\ Waits("install", "vprobe")
  /\ IF ok THEN Free ELSE SetupSpend("faults")
  /\ win' = JobAt(refreshBrowserTlsTrustStatus(
                 invalidateBrowserTlsTrustStatus(Calm(w, "install", ok)), "install"),
               "install", "vtrust")
  /\ UNCHANGED <<aliasMap, mac, answering>>
verifyStatus ==
  LET w == Warm(win) IN
  /\ Waits("install", "vtrust") /\ Free
  /\ answering' \in {answering, TRUE}
  /\ win' = IF DOMAIN aliasMap = {} THEN JobEnded(w, "install", "ok")
            ELSE IF ~answering' \/ MissingRows(w) # {} THEN JobEnded(w, "install", "failed")
            ELSE JobAt([w EXCEPT !.jobs["install"].recs = aliasMap], "install", "resolve")
  /\ UNCHANGED <<aliasMap, mac>>
\* getaddrinfo: the hosts file before the resolver files and the responder.
Answers(h, a) ==
  IF HostsRows(h) # {} THEN HostsRows(h)
  ELSE IF isBrowserDnsResolverConfigured(h) /\ answering THEN {a} ELSE {}
Resolves(recs) ==
  \A h \in DOMAIN recs : /\ Answers(h, recs[h]) = {recs[h]}
                         /\ isBrowserDnsResolverConfigured("pm") /\ answering
verifyBrowserDnsAliasesResolve(ok) ==
  LET w == IF ok /\ win.jobs["install"].quiet THEN clearBrowserDnsInstallOfferSignature(win) ELSE win
  IN /\ Waits("install", "resolve")
     /\ IF ok THEN Resolves(win.jobs["install"].recs) /\ Free
        ELSE IF Resolves(win.jobs["install"].recs) THEN SetupSpend("faults") ELSE Free
     /\ win' = JobEnded(w, "install", IF ok THEN "ok" ELSE "failed")
     /\ UNCHANGED <<aliasMap, mac, answering>>

----------------------------------------------------------------------------
\* A terminal is attached: the prompt opens when its alias is known to be absent.
terminalProbe(ok) ==
  LET job == win.jobs["attach"]
      w == IF ok THEN Probed(win) ELSE win
  IN /\ Waits("attach", "aprobe")
     /\ IF ok THEN Free ELSE SetupSpend("faults")
     /\ win' = IF ~ok \/ TerminalBand \subseteq mac.lo0 THEN JobEnded(w, "attach", "none")
               ELSE IF ~job.quiet THEN [w EXCEPT !.jobs["attach"].pc = "prompt",
                                                 !.jobs["attach"].recs = aliasMap]
               ELSE IF TerminalBand \subseteq w.backoff THEN JobEnded(w, "attach", "failed")
               ELSE JobAt(w, "attach", "aquiet")
     /\ UNCHANGED <<aliasMap, mac, answering>>
terminalCheck ==
  /\ Waits("attach", "acheck") /\ Free
  /\ win' = JobEnded(win, "attach",
                  IF TerminalBand \subseteq win.jobs["attach"].seen THEN "ok" ELSE "failed")
  /\ UNCHANGED <<aliasMap, mac, answering>>

\* runNonInteractiveLoopbackAliasSetup, for a terminal or for the browser's addresses:
\* a failure is remembered, and what was cached of lo0 is forgotten in either case.
QuietSetup(addresses, ok, w) ==
  invalidateLoopbackAliasCache(
    [w EXCEPT !.backoff = IF ok THEN @ \ addresses ELSE @ \union addresses])
terminalQuiet(ok) ==
  LET w == QuietSetup(TerminalBand, ok, win) IN
  /\ Waits("attach", "aquiet") /\ Free
  /\ mac' = IF ok THEN [mac EXCEPT !.lo0 = @ \union TerminalBand] ELSE mac
  /\ win' = IF ok THEN JobAt(readLoopbackAliasAddresses(Calm(w, "attach", TRUE), "attach"), "attach", "acheck")
            ELSE JobEnded(w, "attach", "failed")
  /\ UNCHANGED <<aliasMap, answering>>
readyList ==
  LET job == win.jobs["ready"]
      todo == Addresses(job) \ (job.seen \union win.backoff)
  IN /\ Waits("ready", "rread") /\ Free
     /\ win' = IF todo = {} THEN JobEnded(win, "ready", "none")
               ELSE [win EXCEPT !.jobs["ready"].pc = "rquiet", !.jobs["ready"].seen = todo]
     /\ UNCHANGED <<aliasMap, mac, answering>>
readyQuiet(a, ok) ==
  LET w == [QuietSetup({a}, ok, win) EXCEPT !.jobs["ready"].seen = @ \ {a}] IN
  /\ Waits("ready", "rquiet") /\ Free /\ a \in win.jobs["ready"].seen
  /\ mac' = IF ok THEN [mac EXCEPT !.lo0 = @ \union {a}] ELSE mac
  /\ win' = IF w.jobs["ready"].seen = {} THEN JobEnded(w, "ready", "none") ELSE w
  /\ UNCHANGED <<aliasMap, answering>>

----------------------------------------------------------------------------
\* What happens to the computer.
NewWindow(w) ==
  [lo0 |-> NoLo0, reading |-> NotReading, trust |-> NoTrust, checks |-> {},
   jobs |-> [j \in SetupJobs |-> NoJob], session |-> NoOffer, durable |-> w.durable,
   open |-> {}, backoff |-> {}]
\* It restarts: lo0 loses its aliases, whatever ran is gone.
Reboot ==
  /\ SetupSpend("reboots")
  /\ mac' = [mac EXCEPT !.lo0 = {}] /\ win' = NewWindow(win) /\ answering' = FALSE
  /\ UNCHANGED aliasMap
Lo0Dropped ==
  /\ SetupSpend("drops") /\ mac' = [mac EXCEPT !.lo0 = {}] /\ win' = Disturb(win, "none")
  /\ UNCHANGED <<aliasMap, answering>>
ResponderStops ==
  /\ SetupSpend("stops") /\ answering' = FALSE /\ win' = Disturb(win, "none")
  /\ UNCHANGED <<aliasMap, mac>>
CertificatesAge ==
  /\ SetupSpend("ages") /\ win' = Disturb(win, "none")
  /\ \/ /\ mac.leaf.life \in {"ok", "soon"}
        /\ mac' = [mac EXCEPT !.leaf.life = IF @ = "ok" THEN "soon" ELSE "expired"]
     \/ mac.ca # 0 /\ mac' = [mac EXCEPT !.caDue = TRUE]
  /\ UNCHANGED <<aliasMap, answering>>
KeychainEdited ==
  /\ SetupSpend("edits") /\ mac' = [mac EXCEPT !.keychain = {}] /\ win' = Disturb(win, "none")
  /\ UNCHANGED <<aliasMap, answering>>
FilesEdited ==
  /\ SetupSpend("edits") /\ win' = Disturb(win, "none")
  /\ \E row \in {<<h, a>> : h \in DOMAIN aliasMap, a \in {aliasMap[x] : x \in DOMAIN aliasMap}} :
       mac' \in {[mac EXCEPT !.rows = {row}], [mac EXCEPT !.owned = {}],
                 [mac EXCEPT !.resolvers = {"legacy"}]}
  /\ UNCHANGED <<aliasMap, answering>>
NetworksChange ==
  /\ SetupSpend("remaps") /\ aliasMap' \in AliasMaps \ {aliasMap} /\ win' = Disturb(win, "none")
  /\ UNCHANGED <<mac, answering>>
\* Time passes: caches go stale, and what failed may be tried again.
Lapse ==
  /\ SetupSpend("lapses")
  /\ win' = [win EXCEPT !.lo0.fresh = FALSE, !.trust.fresh = FALSE, !.backoff = {}]
  /\ UNCHANGED <<aliasMap, mac, answering>>

BlankMac == [lo0 |-> {}, resolvers |-> {"legacy"}, owned |-> {}, rows |-> {}, ca |-> 0,
             caDue |-> FALSE, leaf |-> NoLeaf, marker |-> {"none"}, keychain |-> {}, made |-> 0]
\* Everything installed for a map.
InstalledMac(m) ==
  [BlankMac EXCEPT
     !.lo0 = {m[h] : h \in DOMAIN m} \union TerminalBand,
     !.resolvers = DOMAIN m \union {"pm"}, !.owned = {<<h, m[h]>> : h \in DOMAIN m},
     !.ca = 1, !.leaf = [id |-> 2, issuer |-> 1, names |-> DOMAIN m, life |-> "ok"],
     !.marker = DOMAIN m, !.keychain = {1}, !.made = 2]

DnsSetupInit(scene) ==
  /\ aliasMap = scene.map
  /\ mac = IF scene.installed THEN InstalledMac(scene.map) ELSE BlankMac
  /\ answering = scene.installed
  /\ win = NewWindow([durable |-> NoOffer])
  /\ macLeft = scene.left

DnsSetupNext ==
  \/ \E b \in BOOLEAN : \/ install(b) \/ repairLocalDns(b) \/ ensureTerminalRoutingHostReady(b)
                        \/ Lo0ReadEnds(b) \/ detectDrift(b) \/ verifyProbe(b) \/ terminalProbe(b)
                        \/ verifyBrowserDnsAliasesResolve(b) \/ terminalQuiet(b)
                        \/ \E a \in win.jobs["ready"].seen : readyQuiet(a, b)
  \/ \E h \in DOMAIN aliasMap : repairBrowserDnsAlias(h)
  \/ Render \/ Refresh \/ (\E o \in win.open : Accept(o) \/ Dismiss(o))
  \/ cleanupBrowserDnsResolvers \/ ensureBrowserDnsLoopbackAliasesReady
  \/ \E c \in win.checks : \E v \in {c.before, VerifyCert, "none"} : TrustCheckEnds(c, v)
  \/ \E j \in {"install", "attach", "cleanup"} :
       Approve(j) \/ Cancel(j) \/ ScriptStep(j) \/ ScriptFails(j) \/ ScriptEnds(j)
  \/ \E j \in {"install", "attach"} :
       \/ KeychainRefuses(j) \/ trustVerdict(j) \/ addTrustedCert(j) \/ registrationFails(j)
       \/ registered(j) \/ secondVerdict(j)
  \/ WarmEnds \/ readBack \/ recover \/ recoverTrust \/ verifyStatus \/ terminalCheck \/ readyList
  \/ Reboot \/ Lo0Dropped \/ ResponderStops \/ CertificatesAge \/ KeychainEdited \/ FilesEdited
  \/ NetworksChange \/ Lapse

----------------------------------------------------------------------------
\* Root-owned state agrees with what the networks ask for.
RootStateIsCurrent(m) ==
  /\ {m[h] : h \in DOMAIN m} \subseteq mac.lo0
  /\ DOMAIN m \union {"pm"} \subseteq mac.resolvers
  /\ \A h \in DOMAIN m : m[h] \in HostsRows(h) /\ Owned(h) \subseteq {m[h]}
  /\ mac.leaf.life \in {"ok", "soon"} /\ DOMAIN m \subseteq mac.leaf.names \cap mac.marker

\* Nothing is asked of the administrator, unless the user forced it, while root-owned state
\* is as it should be; a terminal asks only when its alias is absent.
PromptsAreEarned ==
  LET Opens(j) == win.jobs[j].pc # "prompt" /\ win'.jobs[j].pc = "prompt" IN
  /\ Opens("install") => \/ win.jobs["install"].forced \/ win.jobs["install"].renew
                         \/ ~RootStateIsCurrent(win.jobs["install"].recs)
  /\ Opens("attach") => ~(TerminalBand \subseteq mac.lo0)

\* When the script went through undisturbed, it leaves no drift behind (readback).  An
\* installation that reports success leaves every alias working: installed, trusted and answered; a terminal
\* that is told it is ready has its alias.
SetupIsTrue ==
  /\ LET job == win.jobs["install"] IN
     /\ job.pc = "readback" /\ job.calm => RootStateIsCurrent(job.recs)
     /\ job.out = "ok" /\ job.calm /\ DOMAIN aliasMap # {} =>
          RootStateIsCurrent(aliasMap) /\ VerifyCert = "trusted" /\ Resolves(aliasMap)
  /\ win.jobs["attach"].out = "ok" /\ win.jobs["attach"].calm => TerminalBand \subseteq mac.lo0

\* The administrator is asked only for what is wrong ("opens only when root-owned state
\* drifted", installBrowserDnsResolvers), and what is reported done is done ("do not accept
\* generated files as proof", installBrowserDnsResolversExclusive).
SetupIsHonest == []SetupIsTrue /\ [][PromptsAreEarned]_dnsSetupVars
=============================================================================
