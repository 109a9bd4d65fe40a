------------------------ MODULE StateMachineProofs ------------------------
(***************************************************************************)
(* What the rule tables of hosts and clusters guarantee, for every value of *)
(* their conditions.                                                        *)
(***************************************************************************)
EXTENDS HostStateMachine, ClusterStateMachine, TLAPS

\* The rule that Run picks is a rule of the table that starts from the state.
LEMMA RunsMatch ==
  ASSUME NEW rules, NEW s, NEW r \in Runs(rules, s)
  PROVE  r \in rules /\ s \in r.from
  BY DEF Runs, Matching

----------------------------------------------------------------------------
(* The refresh of a host *)

\* What every refresh rule of a host that starts from status s respects.
HostRuleIsSafe(x, r, s) ==
  /\ r.to \in HostStatus /\ r.post \in HostPost
  /\ r.to \in Installing /\ s \notin Installing =>
       s = "preparing-successful" /\ x.cluster = "installing"
  /\ r.to = "installed" => s = "installed"
  /\ r.to = "preparing-successful" /\ s # "preparing-successful" =>
       s = "preparing-for-installation" /\ x.speed = "ok" /\ x.images = "ok"
  /\ s = "error" => r.to = "error"
  /\ r.post = "recheck-images" => r.to = "preparing-for-installation"

\* Each group of refresh rules in turn is safe.
LEMMA PreparationSafe ==
  ASSUME NEW x, NEW s \in HostStatus, NEW r \in PreparationRules(x), s \in r.from
  PROVE  HostRuleIsSafe(x, r, s)
  BY DEF HostRuleIsSafe, PreparationRules, Rule, HostStatus, HostPost, Installing, Discovery, Preparing

\* The rules for an abandoned preparation are safe.
LEMMA PreparationAbandonedSafe ==
  ASSUME NEW x, NEW s \in HostStatus, NEW r \in PreparationAbandonedRules(x), s \in r.from
  PROVE  HostRuleIsSafe(x, r, s)
  BY DEF HostRuleIsSafe, PreparationAbandonedRules, Rule, HostStatus, HostPost, Installing,
         Discovery, Preparing

\* The rules for a host that is not reachable are safe.
LEMMA DisconnectionSafe ==
  ASSUME NEW x, NEW s \in HostStatus, NEW r \in DisconnectionRules(x), s \in r.from
  PROVE  HostRuleIsSafe(x, r, s)
  BY DEF HostRuleIsSafe, DisconnectionRules, Rule, HostStatus, HostPost, Installing,
         Discovery, Preparing

\* The rule for a failed cluster is safe.
LEMMA ClusterErrorSafe ==
  ASSUME NEW x, NEW s \in HostStatus, NEW r \in ClusterErrorRules(x), s \in r.from
  PROVE  HostRuleIsSafe(x, r, s)
  BY DEF HostRuleIsSafe, ClusterErrorRules, Rule, HostStatus, HostPost, Installing,
         Discovery, Preparing

\* The rules of a running installation are safe.
LEMMA InstallationSafe ==
  ASSUME NEW x, NEW s \in HostStatus, NEW r \in InstallationRules(x), s \in r.from
  PROVE  HostRuleIsSafe(x, r, s)
  BY DEF HostRuleIsSafe, InstallationRules, Rule, HostStatus, HostPost, Installing,
         Discovery, Preparing

\* The rules of the discovery are safe.
LEMMA DiscoverySafe ==
  ASSUME NEW x, NEW s \in HostStatus, NEW r \in DiscoveryRules(x), s \in r.from
  PROVE  HostRuleIsSafe(x, r, s)
  BY DEF HostRuleIsSafe, DiscoveryRules, Rule, HostStatus, HostPost, Installing,
         Discovery, Preparing

\* The rules that stay in a final status are safe.
LEMMA TerminalSafe ==
  ASSUME NEW x, NEW s \in HostStatus, NEW r \in TerminalRules(x), s \in r.from
  PROVE  HostRuleIsSafe(x, r, s)
  BY DEF HostRuleIsSafe, TerminalRules, Rule, HostStatus, HostPost, Installing,
         Discovery, Preparing

\* Refreshing a host never starts the installer but on a prepared host of an
\* installing cluster, never passes a host whose checks did not, and never takes
\* a host out of error (internal/host/statemachine.go, the rules of
\* TransitionTypeRefresh).
THEOREM HostRefreshIsSafe ==
  ASSUME NEW x, NEW s \in HostStatus, NEW r \in Runs(HostRefreshRules(x), s)
  PROVE  HostRuleIsSafe(x, r, s)
<1>1. r \in HostRefreshRules(x) /\ s \in r.from
  BY RunsMatch
<1>. QED
  BY <1>1, PreparationSafe, PreparationAbandonedSafe, DisconnectionSafe, ClusterErrorSafe,
     InstallationSafe, DiscoverySafe, TerminalSafe DEF HostRefreshRules

\* What every refresh rule that starts from status s knows of the host and its
\* cluster: an installed host only fails with its cluster, a host becomes known with
\* an inventory, and prepares while its cluster does.
HostRuleIsGrounded(x, r, s) ==
  /\ s = "installed" /\ r.to # "installed" => x.cluster = "error"
  /\ r.to \in {"known"} \cup Preparing /\ s \notin {"known"} \cup Preparing => r.to = "known" /\ x.inv
  /\ r.to = "preparing-for-installation" =>
       x.cluster = "preparing-for-installation" /\ s \in {"known", "preparing-for-installation"}
  /\ r.to = "preparing-failed" => s = "preparing-for-installation"

\* Every refresh rule of a host is grounded.
LEMMA HostRefreshIsGrounded ==
  ASSUME NEW x, NEW s \in HostStatus, NEW r \in Runs(HostRefreshRules(x), s)
  PROVE  HostRuleIsGrounded(x, r, s)
<1>1. r \in HostRefreshRules(x) /\ s \in r.from
  BY RunsMatch
<1>. USE DEF HostRuleIsGrounded, Rule, Preparing
<1>2. CASE r \in PreparationRules(x)
  BY <1>1, <1>2 DEF PreparationRules, ClusterPreparing
<1>3. CASE r \in PreparationAbandonedRules(x)
  BY <1>1, <1>3 DEF PreparationAbandonedRules
<1>4. CASE r \in DisconnectionRules(x)
  BY <1>1, <1>4 DEF DisconnectionRules, Discovery
<1>5. CASE r \in ClusterErrorRules(x)
  BY <1>1, <1>5 DEF ClusterErrorRules
<1>6. CASE r \in InstallationRules(x)
  BY <1>1, <1>6 DEF InstallationRules, Installing
<1>7. CASE r \in DiscoveryRules(x)
  BY <1>1, <1>7 DEF DiscoveryRules, ValidInventory, Discovery
<1>8. CASE r \in TerminalRules(x)
  BY <1>1, <1>8 DEF TerminalRules
<1>. QED BY <1>1, <1>2, <1>3, <1>4, <1>5, <1>6, <1>7, <1>8 DEF HostRefreshRules

\* A host always has a refresh rule, whatever its conditions are, with two gaps:
\* one that failed preparing while its cluster still prepares, and one beyond
\* "discovering" whose inventory is gone.
THEOREM HostRefreshIsTotal ==
  ASSUME NEW x, NEW s \in HostStatus,
         x.speed \in {"ok", "unknown", "bad"}, x.images \in {"ok", "unknown", "bad"}, ~x.day2,
         s = "preparing-failed" => ~ClusterPreparing(x),
         s \in {"insufficient", "known", "pending-for-input"} => ValidInventory(x)
  PROVE  Matching(HostRefreshRules(x), s) # {}
<1>1. SUFFICES \E r \in HostRefreshRules(x) : s \in r.from
  BY DEF Matching
<1>2. CASE s = "preparing-for-installation"
  <2>1. CASE ~Reachable(x)
    <3>1. \E r \in DisconnectionRules(x) : s \in r.from
      BY <1>2, <2>1 DEF DisconnectionRules, Rule
    <3>. QED BY <3>1 DEF HostRefreshRules
  <2>2. CASE Reachable(x) /\ (ClusterPreparing(x) \/ ~NoneBad(x))
    <3>1. \E r \in PreparationRules(x) : s \in r.from
      BY <1>2, <2>2 DEF PreparationRules, Rule, NoneBad, SomeUnknown
    <3>. QED BY <3>1 DEF HostRefreshRules
  <2>3. CASE Reachable(x) /\ ~ClusterPreparing(x) /\ NoneBad(x)
    <3>1. \E r \in PreparationAbandonedRules(x) : s \in r.from
      BY <1>2, <2>3 DEF PreparationAbandonedRules, Rule
    <3>. QED BY <3>1 DEF HostRefreshRules
  <2>. QED BY <2>1, <2>2, <2>3
<1>3. CASE s = "preparing-successful"
  <2>1. CASE ~Reachable(x)
    <3>1. \E r \in DisconnectionRules(x) : s \in r.from
      BY <1>3, <2>1 DEF DisconnectionRules, Rule
    <3>. QED BY <3>1 DEF HostRefreshRules
  <2>2. CASE Reachable(x) /\ x.cluster \in {"preparing-for-installation", "installing"}
    <3>1. \E r \in PreparationRules(x) : s \in r.from
      BY <1>3, <2>2 DEF PreparationRules, Rule, ClusterPreparing
    <3>. QED BY <3>1 DEF HostRefreshRules
  <2>3. CASE Reachable(x) /\ x.cluster \notin {"preparing-for-installation", "installing"}
    <3>1. \E r \in PreparationAbandonedRules(x) : s \in r.from
      BY <1>3, <2>3 DEF PreparationAbandonedRules, Rule
    <3>. QED BY <3>1 DEF HostRefreshRules
  <2>. QED BY <2>1, <2>2, <2>3
<1>4. CASE s = "preparing-failed"
  <2>1. CASE ~Reachable(x)
    <3>1. \E r \in DisconnectionRules(x) : s \in r.from
      BY <1>4, <2>1 DEF DisconnectionRules, Rule
    <3>. QED BY <3>1 DEF HostRefreshRules
  <2>2. CASE Reachable(x)
    <3>1. \E r \in PreparationAbandonedRules(x) : s \in r.from
      BY <1>4, <2>2 DEF PreparationAbandonedRules, Rule
    <3>. QED BY <3>1 DEF HostRefreshRules
  <2>. QED BY <2>1, <2>2
<1>5. CASE s \in Discovery
  <2>1. CASE ~Reachable(x)
    <3>1. \E r \in DisconnectionRules(x) : s \in r.from
      BY <1>5, <2>1 DEF DisconnectionRules, Rule
    <3>. QED BY <3>1 DEF HostRefreshRules
  <2>2. CASE Reachable(x) /\ s = "known" /\ ClusterPreparing(x) /\ x.role
    <3>1. \E r \in PreparationRules(x) : s \in r.from
      BY <2>2 DEF PreparationRules, Rule
    <3>. QED BY <3>1 DEF HostRefreshRules
  <2>3. CASE Reachable(x) /\ ~(s = "known" /\ ClusterPreparing(x) /\ x.role)
    <3>1. \E r \in DiscoveryRules(x) : s \in r.from
      BY <1>5, <2>3 DEF DiscoveryRules, Rule, Discovery, ValidInventory
    <3>. QED BY <3>1 DEF HostRefreshRules
  <2>. QED BY <2>1, <2>2, <2>3
<1>6. CASE s \in Installing \cup {"installed", "resetting-pending-user-action"}
  <2>1. CASE x.cluster = "error"
    <3>1. \E r \in ClusterErrorRules(x) : s \in r.from
      BY <1>6, <2>1 DEF ClusterErrorRules, Rule, Installing
    <3>. QED BY <3>1 DEF HostRefreshRules
  <2>2. CASE x.cluster # "error"
    <3>1. Rule(35, {s}, x.cluster # "error", s, "none") \in InstallationRules(x)
      BY <1>6 DEF InstallationRules
    <3>2. s \in Rule(35, {s}, x.cluster # "error", s, "none").from
      BY <2>2 DEF Rule
    <3>. QED BY <3>1, <3>2 DEF HostRefreshRules
  <2>. QED BY <2>1, <2>2
<1>7. CASE s \in {"error", "cancelled"}
  <2>1. Rule(50, {s}, TRUE, s, "none") \in TerminalRules(x)
    BY <1>7 DEF TerminalRules
  <2>2. s \in Rule(50, {s}, TRUE, s, "none").from
    BY DEF Rule
  <2>. QED BY <2>1, <2>2 DEF HostRefreshRules
<1>. QED BY <1>2, <1>3, <1>4, <1>5, <1>6, <1>7 DEF HostStatus, Preparing

----------------------------------------------------------------------------
(* The requests on a host *)

\* Registering again never prepares or installs a host, and leaves one in error there.
LEMMA RegisterHostSafe ==
  ASSUME NEW x, NEW s \in HostStatus, NEW r \in Runs(RegisterHostRules(x), s), ~x.day2
  PROVE  /\ r.to \in HostStatus \ {"installed", "preparing-successful", "preparing-for-installation"}
              \/ r.to = s
         /\ r.to \in Installing => s \in Installing
         /\ s = "error" => r.to = "error"
         /\ r.post \in {"forget", "restart-preparing"} => r.to \in {"known", "discovering"}
<1>1. r \in RegisterHostRules(x) /\ s \in r.from
  BY RunsMatch
<1>. QED
  BY <1>1 DEF RegisterHostRules, Rule, HostStatus, Installing, Discovery, Preparing

\* A stage report only moves a host that is installing, on to the next status.
LEMMA HostProgressSafe ==
  ASSUME NEW x, NEW s \in HostStatus, NEW r \in Runs(HostProgressRules(x), s), ~x.day2,
         r.post # "none"
  PROVE  s \in Installing /\ r.to \in Installing \cup {"installed"}
<1>1. r \in HostProgressRules(x) /\ s \in r.from
  BY RunsMatch
<1>. QED
  BY <1>1 DEF HostProgressRules, Rule, HostStatus, Installing, Discovery, Preparing

\* Failure, cancel, reset and a lost medium withdraw a host.
LEMMA HostRequestsSafe ==
  ASSUME NEW s
  PROVE  /\ \A r \in Runs(HostInstallationFailedRules, s) : r.to = "error" /\ s # "error"
         /\ \A r \in Runs(HostCancelRules, s) : r.to \in {"cancelled", "known"} /\ (s = "error" => r.to = "cancelled")
         /\ \A r \in Runs(HostResetRules, s) : r.to = "resetting-pending-user-action"
         /\ \A r \in Runs(MediaDisconnectRules, s) :
              r.to \in {"disconnected", "error"} /\ (s = "error" => r.to = "error")
<1>. USE RunsMatch DEF Rule
<1>1. \A r \in Runs(HostInstallationFailedRules, s) : r.to = "error" /\ s # "error"
  BY DEF HostInstallationFailedRules
<1>2. \A r \in Runs(HostCancelRules, s) :
        r.to \in {"cancelled", "known"} /\ (s = "error" => r.to = "cancelled")
  BY DEF HostCancelRules
<1>3. \A r \in Runs(HostResetRules, s) : r.to = "resetting-pending-user-action"
  BY DEF HostResetRules
<1>4. \A r \in Runs(MediaDisconnectRules, s) :
        r.to \in {"disconnected", "error"} /\ (s = "error" => r.to = "error")
  BY DEF MediaDisconnectRules, Discovery
<1>. QED BY <1>1, <1>2, <1>3, <1>4

----------------------------------------------------------------------------
(* The requests on a cluster *)

\* Where the requests on a cluster may take it.
LEMMA ClusterRequestsSafe ==
  ASSUME NEW s
  PROVE  /\ \A r \in Runs(ClusterCancelRules, s) :
              \/ r.to = "cancelled" /\ s \in ClusterInstallation \cup {"error"}
              \/ r.to = "ready" /\ s = "preparing-for-installation"
         /\ \A r \in Runs(ClusterResetRules, s) : r.to = "insufficient" /\ s # "installed"
         /\ \A r \in Runs(PrepareForInstallationRules, s) :
              r.to = "preparing-for-installation" /\ s = "ready"
<1>. USE RunsMatch DEF Rule
<1>1. \A r \in Runs(ClusterCancelRules, s) :
        \/ r.to = "cancelled" /\ s \in ClusterInstallation \cup {"error"}
        \/ r.to = "ready" /\ s = "preparing-for-installation"
  BY DEF ClusterCancelRules
<1>2. \A r \in Runs(ClusterResetRules, s) : r.to = "insufficient" /\ s # "installed"
  BY DEF ClusterResetRules, ClusterInstallation
<1>3. \A r \in Runs(PrepareForInstallationRules, s) :
        r.to = "preparing-for-installation" /\ s = "ready"
  BY DEF PrepareForInstallationRules
<1>. QED BY <1>1, <1>2, <1>3

----------------------------------------------------------------------------
(* The refresh of a cluster *)

\* What every refresh rule of a cluster that starts from status s respects.
ClusterRuleIsSafe(y, r, s) ==
  /\ r.to \in ClusterStatus /\ r.post \in ClusterPost
  /\ s \in {"installed", "error", "cancelled"} => r.to = s
  /\ r.to = "cancelled" => s = "cancelled"
  /\ s \in ClusterDiscovery => r.to \in ClusterDiscovery
  /\ s \in ClusterInstallation => r.to \in ClusterInstallation \cup {"installed", "error"}
  /\ r.to \in ClusterInstallation /\ s \notin ClusterInstallation =>
       s = "preparing-for-installation" /\ y.prepared /\ y.prep = "success"

\* Refreshing a cluster never takes it out of a final status, leaves an
\* installation only by ending it, and starts one only when all hosts and the
\* preparation are done (internal/cluster/statemachine.go, the rules of
\* TransitionTypeRefreshStatus).
THEOREM ClusterRefreshIsSafe ==
  ASSUME NEW y, NEW s \in ClusterStatus, NEW r \in Runs(ClusterRefreshRules(y), s)
  PROVE  ClusterRuleIsSafe(y, r, s)
<1>1. r \in ClusterRefreshRules(y) /\ s \in r.from
  BY RunsMatch
<1>. USE DEF ClusterRuleIsSafe, Rule, ClusterStatus, ClusterPost, ClusterDiscovery, ClusterInstallation
<1>2. CASE r \in ClusterDiscoveryRules(y)
  BY <1>1, <1>2 DEF ClusterDiscoveryRules
<1>3. CASE r \in ClusterPreparationRules(y)
  BY <1>1, <1>3 DEF ClusterPreparationRules
<1>4. CASE r \in ClusterFailureRules(y)
  BY <1>1, <1>4 DEF ClusterFailureRules
<1>5. CASE r \in ClusterInstallationRules(y)
  BY <1>1, <1>5 DEF ClusterInstallationRules
<1>6. CASE r \in ClusterTerminalRules
  BY <1>1, <1>6 DEF ClusterTerminalRules
<1>. QED BY <1>1, <1>2, <1>3, <1>4, <1>5, <1>6 DEF ClusterRefreshRules

\* What the rules that complete an installation ask for.
ClusterRuleCompletes(y, r, s) ==
  /\ r.to = "installed" /\ s # "installed" => s = "finalizing" /\ y.done
  /\ r.to = "finalizing" /\ s # "finalizing" => s \in ClusterInstallation /\ y.finalizing

\* Refreshing a cluster makes it finalizing only with enough installed hosts, and
\* installed only from there and with all hosts done.
LEMMA ClusterRefreshCompletes ==
  ASSUME NEW y, NEW s \in ClusterStatus, NEW r \in Runs(ClusterRefreshRules(y), s)
  PROVE  ClusterRuleCompletes(y, r, s)
<1>1. r \in ClusterRefreshRules(y) /\ s \in r.from
  BY RunsMatch
<1>. USE DEF ClusterRuleCompletes, Rule, ClusterInstallation
<1>2. CASE r \in ClusterDiscoveryRules(y)
  BY <1>1, <1>2 DEF ClusterDiscoveryRules
<1>3. CASE r \in ClusterPreparationRules(y)
  BY <1>1, <1>3 DEF ClusterPreparationRules
<1>4. CASE r \in ClusterFailureRules(y)
  BY <1>1, <1>4 DEF ClusterFailureRules
<1>5. CASE r \in ClusterInstallationRules(y)
  BY <1>1, <1>5 DEF ClusterInstallationRules
<1>6. CASE r \in ClusterTerminalRules
  BY <1>1, <1>6 DEF ClusterTerminalRules
<1>. QED BY <1>1, <1>2, <1>3, <1>4, <1>5, <1>6 DEF ClusterRefreshRules

\* A cluster always has a refresh rule, whatever its conditions are.
THEOREM ClusterRefreshIsTotal ==
  ASSUME NEW y, NEW s \in ClusterStatus
  PROVE  Matching(ClusterRefreshRules(y), s) # {}
<1>1. SUFFICES \E r \in ClusterRefreshRules(y) : s \in r.from
  BY DEF Matching
<1>2. CASE s \in ClusterDiscovery
  <2>1. \E r \in ClusterDiscoveryRules(y) : s \in r.from
    BY <1>2 DEF ClusterDiscoveryRules, Rule
  <2>. QED BY <2>1 DEF ClusterRefreshRules
<1>3. CASE s = "installing"
  <2>1. CASE y.finalizing \/ y.installing
    <3>1. \E r \in ClusterInstallationRules(y) : s \in r.from
      BY <1>3, <2>1 DEF ClusterInstallationRules, Rule
    <3>. QED BY <3>1 DEF ClusterRefreshRules
  <2>2. CASE ~(y.finalizing \/ y.installing)
    <3>1. \E r \in ClusterFailureRules(y) : s \in r.from
      BY <1>3, <2>2 DEF ClusterFailureRules, Rule
    <3>. QED BY <3>1 DEF ClusterRefreshRules
  <2>. QED BY <2>1, <2>2
<1>4. CASE s = "installing-pending-user-action"
  <2>1. CASE y.finalizing \/ y.installing
    <3>1. \E r \in ClusterInstallationRules(y) : s \in r.from
      BY <1>4, <2>1 DEF ClusterInstallationRules, Rule
    <3>. QED BY <3>1 DEF ClusterRefreshRules
  <2>2. CASE ~(y.finalizing \/ y.installing)
    <3>1. \E r \in ClusterFailureRules(y) : s \in r.from
      BY <1>4, <2>2 DEF ClusterFailureRules, Rule
    <3>. QED BY <3>1 DEF ClusterRefreshRules
  <2>. QED BY <2>1, <2>2
<1>5. CASE s \in {"preparing-for-installation", "finalizing", "installed", "error", "cancelled"}
  <2>1. Rule(30, {s}, TRUE, s, "none") \in ClusterTerminalRules
    BY <1>5 DEF ClusterTerminalRules
  <2>2. s \in Rule(30, {s}, TRUE, s, "none").from
    BY DEF Rule
  <2>. QED BY <2>1, <2>2 DEF ClusterRefreshRules
<1>. QED BY <1>2, <1>3, <1>4, <1>5 DEF ClusterStatus, ClusterInstallation
=============================================================================
