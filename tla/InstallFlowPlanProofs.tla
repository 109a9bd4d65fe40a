----------------------- MODULE InstallFlowPlanProofs -----------------------
(***************************************************************************)
(* Plans of the monitors that outlive the installation they were made in:   *)
(* what the database may still accept of them after the installation was    *)
(* cancelled or reset and another one was started.                          *)
(***************************************************************************)
EXTENDS InstallFlowProofs, FiniteSetTheorems

----------------------------------------------------------------------------
(* The requests that withdraw an installation *)

\* Cancelling takes the hosts to "cancelled" or "known" with the cluster.
LEMMA CancelEffect ==
  ASSUME TypeOK, CancelInstallation
  PROVE  /\ \A h \in Hosts : host'[h].status \in {"cancelled", "known"}
         /\ \/ cluster'.status = "cancelled"
            \/ cluster'.status = "ready" /\ cluster.status = "preparing-for-installation"
<1>0. /\ cluster \in ClusterRow /\ \A h \in Hosts : host[h] \in HostRow
  BY DEF TypeOK
<1>1. PICK r \in Runs(ClusterCancelRules, cluster.status) : cluster' = Moved(cluster, r.to)
  BY DEF CancelInstallation
<1>2. /\ r.to = "cancelled" \/ (r.to = "ready" /\ cluster.status = "preparing-for-installation")
      /\ r.to \in ClusterStatus
  BY ClusterRequestsSafe DEF ClusterStatus, ClusterDiscovery
<1>3. cluster'.status = r.to
  BY <1>0, <1>1, <1>2, MovedClusterType
<1>4. PICK f \in [Hosts -> HostCancelRules] :
        /\ \A g \in Hosts : f[g] \in Runs(HostCancelRules, host[g].status)
        /\ host' = [g \in Hosts |-> Moved(host[g], f[g].to)]
  BY DEF CancelInstallation
<1>5. \A h \in Hosts : f[h].to \in {"cancelled", "known"} /\ f[h].to \in HostStatus
  BY <1>4, HostRequestsSafe DEF HostStatus, Discovery
<1>6. \A h \in Hosts : host'[h].status \in {"cancelled", "known"}
  BY <1>0, <1>4, <1>5, MovedFields
<1>. QED BY <1>2, <1>3, <1>6

\* Resetting makes every host wait for its reboot.
LEMMA ResetEffect ==
  ASSUME TypeOK, ResetCluster
  PROVE  /\ \A h \in Hosts : host'[h].status = "resetting-pending-user-action"
         /\ cluster'.status = "insufficient" /\ cluster.status # "installed"
<1>0. /\ cluster \in ClusterRow /\ \A h \in Hosts : host[h] \in HostRow
  BY DEF TypeOK
<1>1. PICK r \in Runs(ClusterResetRules, cluster.status) :
        cluster' = [Moved(cluster, r.to) EXCEPT !.prep = "not_started", !.kubeconfig = FALSE]
  BY DEF ResetCluster
<1>2. r.to = "insufficient" /\ r.to \in ClusterStatus /\ cluster.status # "installed"
  BY ClusterRequestsSafe DEF ClusterStatus, ClusterDiscovery
<1>3. Moved(cluster, r.to) \in ClusterRow /\ Moved(cluster, r.to).status = "insufficient"
  BY <1>0, <1>2, MovedClusterType
<1>4. cluster'.status = "insufficient"
  BY <1>1, <1>3 DEF ClusterRow
<1>5. PICK f \in [Hosts -> HostResetRules] :
        /\ \A g \in Hosts : f[g] \in Runs(HostResetRules, host[g].status)
        /\ host' = [g \in Hosts |-> Moved(host[g], f[g].to)]
  BY DEF ResetCluster
<1>6. \A h \in Hosts : f[h].to = "resetting-pending-user-action" /\ f[h].to \in HostStatus
  BY <1>5, HostRequestsSafe DEF HostStatus
<1>7. \A h \in Hosts : host'[h].status = "resetting-pending-user-action"
  BY <1>0, <1>5, <1>6, MovedFields
<1>. QED BY <1>2, <1>4, <1>7

\* The cluster is refreshed by the monitor's write.
ClusterMonitored ==
  /\ cluster.status = cmon.from /\ cluster'.status = cmon.to /\ cmon.pc = "write"
  /\ cmon'.pc # "write" /\ host' = host

\* A request refreshes the cluster after a host.
ClusterUpdated ==
  \E h \in Hosts : UpdateHost(h) /\ \E r \in RefreshCluster(Statuses') : cluster'.status = r.to

\* Every step that moves the cluster is a request, an update or the monitor's write.
LEMMA ClusterMoves ==
  ASSUME TypeOK, [Next]_vars
  PROVE  \/ cluster'.status = cluster.status
         \/ CancelInstallation \/ ResetCluster \/ ClusterUpdated \/ ClusterMonitored
         \/ Install /\ cluster'.status = "preparing-for-installation" /\ cluster.status = "ready"
<1>0. cluster \in ClusterRow /\ cluster.status \in ClusterStatus
  BY DEF TypeOK, ClusterRow
<1>. DEFINE Goal == \/ cluster'.status = cluster.status
                    \/ CancelInstallation \/ ResetCluster \/ ClusterUpdated \/ ClusterMonitored
                    \/ Install /\ cluster'.status = "preparing-for-installation" /\ cluster.status = "ready"
<1>1. CASE Install
  <2>1. PICK r \in Runs(PrepareForInstallationRules, cluster.status) :
          cluster' = [Moved(cluster, r.to) EXCEPT !.prep = "not_started", !.overdue = FALSE]
    BY <1>1 DEF Install
  <2>2. r.to = "preparing-for-installation" /\ cluster.status = "ready" /\ r.to \in ClusterStatus
    BY ClusterRequestsSafe DEF ClusterStatus
  <2>3. Moved(cluster, r.to) \in ClusterRow /\ Moved(cluster, r.to).status = r.to
    BY <1>0, <2>2, MovedClusterType
  <2>4. cluster'.status = r.to
    BY <2>1, <2>3 DEF ClusterRow
  <2>. QED BY <1>1, <2>2, <2>4
<1>2. ASSUME NEW h \in Hosts, UpdateHost(h) PROVE Goal
  <2>1. PICK r \in RefreshCluster(Statuses') : cluster' = Moved(cluster, r.to)
    BY <1>2 DEF UpdateHost, Statuses
  <2>2. r.to \in ClusterStatus
    BY RefreshClusterSafe
  <2>3. cluster'.status = r.to
    BY <1>0, <2>1, <2>2, MovedClusterType
  <2>. QED BY <1>2, <2>3 DEF ClusterUpdated
<1>3. CASE CMonWrite
  <2>1. CASE ~StatusAsLoaded(cluster, cmon.from)
    BY <1>3, <2>1 DEF CMonWrite
  <2>2. CASE StatusAsLoaded(cluster, cmon.from)
    <3>1. cmon \in ClusterPlan
      <4>1. /\ cmon \in ClusterPlan \cup {NoPlan, At("mark-failed"), At("retrigger"), At("reload")}
            /\ cmon.pc = "write"
        BY <1>3 DEF TypeOK, CMonWrite
      <4>. QED BY <4>1, PlainPlans
    <3>2. cluster'.status = cmon.to
      BY <1>0, <1>3, <2>2, <3>1, MovedClusterType DEF CMonWrite, ClusterPlan
    <3>3. cmon'.pc # "write"
      BY <1>3, <2>2, PlainPlans DEF CMonWrite
    <3>. QED BY <1>3, <2>2, <3>2, <3>3 DEF CMonWrite, StatusAsLoaded, ClusterMonitored
  <2>. QED BY <2>1, <2>2
<1>4. CASE \/ Restart \/ HostMonitor \/ CMonRead \/ CMonInstallFails \/ CMonReload
  BY <1>4 DEF Restart, HostMonitor, HMonRead, HMonWrite, CMonRead, CMonInstallFails, CMonReload
<1>5. CASE CMonMarkFailed \/ CMonRetrigger \/ Controller \/ ClusterTimesOut \/ InstallationTimesOut
  BY <1>0, <1>5 DEF CMonMarkFailed, CMonRetrigger, Controller, ReportOperators, OperatorFails, UploadIngressCert,
     ClusterTimesOut, InstallationTimesOut, ClusterRow
<1>6. ASSUME NEW a \in 1..MaxAttempts, Job(a) PROVE cluster'.status = cluster.status
  BY <1>0, <1>6 DEF Job, Launch, LaunchFails, HandlePreInstallSuccess, HandlePreInstallError, ClusterRow
<1>7. ASSUME NEW h \in Hosts, RegisterHost(h) PROVE cluster'.status = cluster.status
  <2>1. cluster' = cluster \/ cluster' = [cluster EXCEPT !.prep = "not_started"]
    BY <1>7 DEF RegisterHost
  <2>. QED BY <1>0, <2>1 DEF ClusterRow
<1>8. \A h \in Hosts :
         (Agent(h) /\ ~RegisterHost(h)) \/ HostTimesOut(h) => UNCHANGED cluster
  BY DEF Agent, CheckIn, AgentSilent, MediaDisconnected, MediaConnected, PostInventory,
     PostPoorInventory, PostImages, PostDiskSpeed, PostBadCheck, InstallCommandFails, ReportStage,
     WriteStage, HostProgress, CommitProgress, ReportFailed, HostTimesOut
<1>9. CASE UNCHANGED vars
  BY <1>9 DEF vars
<1>. QED
  BY <1>1, <1>2, <1>3, <1>4, <1>5, <1>6, <1>7, <1>8, <1>9 DEF Next, User, ClusterMonitor, Time

----------------------------------------------------------------------------
(* Hosts that can be prepared again *)

\* The statuses of a host from which its preparation starts or goes on.
Ready == {"known"} \cup Preparing

\* Of the requests, only those that end a preparation take a host to a ready
\* status, and only to "known"; none of them forgets its inventory.
LEMMA ReadyRequests ==
  ASSUME NEW s
  PROVE  /\ \A r \in Runs(HostCancelRules, s) : r.to \in Ready => r.to = "known" /\ s \in Ready
         /\ \A x : \A r \in Runs(RegisterHostRules(x), s) :
              r.to \in Ready => r.to = "known" /\ s \in Ready /\ r.post # "forget"
<1>. USE RunsMatch DEF Rule, Ready, Preparing
<1>1. \A r \in Runs(HostCancelRules, s) : r.to \in Ready => r.to = "known" /\ s \in Ready
  BY DEF HostCancelRules
<1>2. ASSUME NEW x, NEW r \in Runs(RegisterHostRules(x), s), r.to \in Ready
      PROVE  r.to = "known" /\ s \in Ready /\ r.post # "forget"
  <2>1. r \in RegisterHostRules(x) /\ s \in r.from
    BY <1>2, RunsMatch
  <2>. QED BY <1>2, <2>1 DEF RegisterHostRules
<1>. QED BY <1>1, <1>2

\* Moving, refreshing and, unless it forgets, registering a host keep its inventory.
LEMMA InventoryFields ==
  ASSUME NEW row \in HostRow, NEW r, r.to \in HostStatus
  PROVE  /\ Moved(row, r.to).inventory = row.inventory
         /\ Refreshed(row, r).inventory = row.inventory
         /\ r.post # "forget" => Registered(row, r).inventory = row.inventory
<1>1. Moved(row, r.to).inventory = row.inventory
  BY DEF HostRow, Moved
<1>2. Refreshed(row, r).inventory = row.inventory
  <2>. DEFINE lost == (row.lost \/ r.post = "lost") /\ r.post # "found"
              stuck == row.stuck \/ r.post = "stuck"
              late == IF r.to = row.status THEN row.late /\ r.post # "touch-stage" ELSE FALSE
              images == IF r.post = "recheck-images" THEN "unknown" ELSE row.images
  <2>1. Refreshed(row, r) = [Moved(row, r.to) EXCEPT !.images = images, !.lost = lost,
                                                    !.stuck = stuck, !.late = late]
    BY DEF Refreshed
  <2>2. Moved(row, r.to) \in HostRow
    BY MovedHostType
  <2>. HIDE DEF lost, stuck, late, images
  <2>. QED BY <1>1, <2>1, <2>2 DEF HostRow
<1>3. r.post # "forget" => Registered(row, r).inventory = row.inventory
  BY DEF HostRow, Registered, Moved
<1>. QED BY <1>1, <1>2, <1>3

\* How a host that neither the monitor nor an update writes may become ready.
StaysReady(h) ==
  /\ host[h].status \in Ready /\ host'[h].status \in {host[h].status, "known"}
  /\ host[h].inventory # "none" => host'[h].inventory # "none"

ReadyOutcome(h) ==
  host'[h].status \in Ready => StaysReady(h) \/ Monitored(h) \/ UpdateHost(h)

\* A host that a step does not write stays ready.
LEMMA UnchangedReady ==
  ASSUME NEW h \in Hosts, host'[h] = host[h]
  PROVE  ReadyOutcome(h)
  BY DEF ReadyOutcome, StaysReady

\* Apart from refreshes, no step makes a host ready that was not, or takes the
\* inventory of one that stays so.
LEMMA ReadyHosts ==
  ASSUME TypeOK, [Next]_vars, NEW h \in Hosts
  PROVE  ReadyOutcome(h)
<1>0. /\ host \in [Hosts -> HostRow]
      /\ \A g \in Hosts : host[g] \in HostRow /\ host[g].status \in HostStatus
  BY DEF TypeOK, HostRow
<1>1. CASE UNCHANGED host
  BY <1>1, UnchangedReady
<1>2. CASE CancelInstallation
  <2>1. PICK f \in [Hosts -> HostCancelRules] :
          /\ \A g \in Hosts : f[g] \in Runs(HostCancelRules, host[g].status)
          /\ host' = [g \in Hosts |-> Moved(host[g], f[g].to)]
    BY <1>2 DEF CancelInstallation
  <2>2. f[h].to \in HostStatus
    BY <2>1, HostRequestsSafe DEF HostStatus, Discovery
  <2>3. f[h].to \in Ready => f[h].to = "known" /\ host[h].status \in Ready
    BY <2>1, ReadyRequests
  <2>4. host'[h].status = f[h].to /\ host'[h].inventory = host[h].inventory
    BY <1>0, <2>1, <2>2, MovedFields, InventoryFields
  <2>. QED BY <2>3, <2>4 DEF ReadyOutcome, StaysReady
<1>3. CASE ResetCluster
  BY <1>3, ResetEffect DEF ReadyOutcome, Ready, Preparing
<1>4. ASSUME NEW g \in Hosts, UpdateHost(g) PROVE ReadyOutcome(h)
  <2>1. CASE h # g
    BY <1>0, <1>4, <2>1, UnchangedReady DEF UpdateHost
  <2>2. CASE h = g
    BY <1>4, <2>2 DEF ReadyOutcome
  <2>. QED BY <2>1, <2>2
<1>5. ASSUME NEW g \in Hosts, HMonWrite(g) PROVE ReadyOutcome(h)
  <2>1. CASE h # g
    BY <1>0, <1>5, <2>1, UnchangedReady DEF HMonWrite
  <2>2. CASE h = g /\ ~StatusAsLoaded(host[g], hmon[g].from)
    BY <1>5, <2>2, UnchangedReady DEF HMonWrite
  <2>3. CASE h = g /\ StatusAsLoaded(host[g], hmon[g].from)
    BY <1>0, <1>5, <2>3 DEF HMonWrite, ReadyOutcome, Monitored, StatusAsLoaded, TypeOK
  <2>. QED BY <2>1, <2>2, <2>3
<1>6. ASSUME NEW g \in Hosts, RegisterHost(g) PROVE ReadyOutcome(h)
  <2>1. PICK r \in Runs(RegisterHostRules(HostContext(host[g])), host[g].status) :
          host' = [host EXCEPT ![g] = Registered(host[g], r)]
    BY <1>6 DEF RegisterHost
  <2>2. CASE h # g
    BY <1>0, <2>1, <2>2, UnchangedReady
  <2>3. CASE h = g
    <3>1. r.to \in HostStatus
      BY <1>0, HostContextFields, RegisterHostSafe
    <3>2. r.to \in Ready => r.to = "known" /\ host[h].status \in Ready /\ r.post # "forget"
      BY <2>3, ReadyRequests
    <3>3. host'[h] = Registered(host[h], r)
      BY <1>0, <2>1, <2>3
    <3>4. host'[h].status = r.to /\ (r.post # "forget" => host'[h].inventory = host[h].inventory)
      BY <1>0, <3>1, <3>3, RegisteredFields, InventoryFields
    <3>. QED BY <3>2, <3>4 DEF ReadyOutcome, StaysReady
  <2>. QED BY <2>2, <2>3
<1>7. ASSUME NEW g \in Hosts, MediaDisconnected(g) PROVE ReadyOutcome(h)
  <2>1. PICK r \in Runs(MediaDisconnectRules, host[g].status) :
          host' = [host EXCEPT ![g] = [Moved(host[g], r.to) EXCEPT !.media = FALSE]]
    BY <1>7 DEF MediaDisconnected
  <2>2. CASE h # g
    BY <1>0, <2>1, <2>2, UnchangedReady
  <2>3. CASE h = g
    <3>1. r.to \in {"disconnected", "error"}
      BY HostRequestsSafe
    <3>2. Moved(host[g], r.to) \in HostRow /\ Moved(host[g], r.to).status = r.to
      BY <1>0, <3>1, MovedHostType DEF HostStatus, Discovery
    <3>3. host'[h].status = r.to
      BY <1>0, <2>1, <2>3, <3>2 DEF HostRow
    <3>. QED BY <3>1, <3>3 DEF ReadyOutcome, Ready, Preparing
  <2>. QED BY <2>2, <2>3
<1>8. ASSUME NEW g \in Hosts,
             \/ CheckIn(g) \/ AgentSilent(g) \/ MediaConnected(g) \/ HostTimesOut(g)
             \/ PostImages(g) \/ PostDiskSpeed(g) \/ PostBadCheck(g)
      PROVE  ReadyOutcome(h)
  <2>1. host'[h].status = host[h].status /\ host'[h].inventory = host[h].inventory
    BY <1>0, <1>8 DEF CheckIn, AgentSilent, MediaConnected, PostImages, PostDiskSpeed, PostBadCheck,
         HostTimesOut, HostRow
  <2>. QED BY <2>1 DEF ReadyOutcome, StaysReady
<1>9. ASSUME NEW g \in Hosts, PostInventory(g) \/ PostPoorInventory(g) PROVE ReadyOutcome(h)
  <2>1. /\ host'[h].status = host[h].status
        /\ host'[h].inventory \in {host[h].inventory, "good", "poor"}
    BY <1>0, <1>9 DEF PostInventory, PostPoorInventory, HostRow
  <2>. QED BY <2>1 DEF ReadyOutcome, StaysReady
<1>10. ASSUME NEW g \in Hosts, InstallCommandFails(g) \/ ReportFailed(g) PROVE ReadyOutcome(h)
  <2>1. host' = [host EXCEPT ![g] = Moved(host[g], "error")]
    BY <1>10, HostRequestsSafe DEF InstallCommandFails, ReportFailed
  <2>2. CASE h # g
    BY <1>0, <2>1, <2>2, UnchangedReady
  <2>3. CASE h = g
    <3>1. host'[h].status = "error"
      BY <1>0, <2>1, <2>3, MovedFields DEF HostStatus
    <3>. QED BY <3>1 DEF ReadyOutcome, Ready, Preparing
  <2>. QED BY <2>2, <2>3
<1>11. ASSUME NEW g \in Hosts, WriteStage(g) PROVE ReadyOutcome(h)
  <2>1. host'[h].status = host[h].status /\ host'[h].inventory = host[h].inventory
    <3>1. CASE host' = host
      BY <3>1
    <3>2. CASE host' = [host EXCEPT ![g] = [host[g] EXCEPT !.stage = report[g].to, !.late = FALSE,
                                                         !.stuck = FALSE]]
      <4>1. CASE h = g
        <5>1. host'[g] = [host[g] EXCEPT !.stage = report[g].to, !.late = FALSE, !.stuck = FALSE]
          BY <1>0, <3>2
        <5>. QED BY <1>0, <4>1, <5>1 DEF HostRow
      <4>2. CASE h # g
        BY <1>0, <3>2, <4>2
      <4>. QED BY <4>1, <4>2
    <3>. QED BY <1>11, <3>1, <3>2 DEF WriteStage
  <2>. QED BY <2>1 DEF ReadyOutcome, StaysReady
<1>12. ASSUME NEW g \in Hosts, CommitProgress(g) PROVE ReadyOutcome(h)
  <2>1. CASE host' = host
    BY <2>1, UnchangedReady
  <2>2. CASE host' = [host EXCEPT ![g] = Moved(host[g], report[g].to)]
    <3>1. CASE h # g
      BY <1>0, <2>2, <3>1, UnchangedReady
    <3>2. CASE h = g
      <4>1. report[g].to \in Installing \cup {"installed"}
        BY <1>12, ReportFields DEF TypeOK, Reports, CommitProgress
      <4>2. report[g].to \in HostStatus
        BY <4>1 DEF HostStatus
      <4>3. host'[h].status = report[g].to
        BY <1>0, <2>2, <3>2, <4>2, MovedFields
      <4>. QED BY <4>1, <4>3 DEF ReadyOutcome, Ready, Preparing, Installing
    <3>. QED BY <3>1, <3>2
  <2>. QED BY <1>12, <2>1, <2>2 DEF CommitProgress
<1>13. Install \/ Restart \/ HMonRead \/ ClusterMonitor \/ Controller => UNCHANGED host
  BY DEF Install, Restart, HMonRead, ClusterMonitor, CMonRead, CMonWrite, CMonInstallFails,
     CMonMarkFailed, CMonRetrigger, CMonReload, Controller, ReportOperators, OperatorFails, UploadIngressCert
<1>14. ClusterTimesOut \/ InstallationTimesOut => UNCHANGED host
  BY DEF ClusterTimesOut, InstallationTimesOut
<1>15. \A a \in 1..MaxAttempts : Job(a) => UNCHANGED host
  BY DEF Job, Launch, LaunchFails, HandlePreInstallSuccess, HandlePreInstallError
<1>16. \A g \in Hosts : ReportStage(g) \/ HostProgress(g) => UNCHANGED host
  BY DEF ReportStage, HostProgress
<1>. QED
  BY <1>1, <1>2, <1>3, <1>4, <1>5, <1>6, <1>7, <1>8, <1>9, <1>10, <1>11, <1>12, <1>13, <1>14, <1>15,
     <1>16
  DEF Next, User, HostMonitor, Agent, Time, vars

----------------------------------------------------------------------------
(* A host whose plan outlived its installation *)

\* The host was withdrawn and, until the monitor is done with it, cannot be prepared
\* again: requests refresh a host that prepares only if it has no inventory, and
\* one gets there without an inventory only by a stale write of the monitor.
Estranged(h) ==
  /\ host[h].status \notin Installing \cup {"installed", "preparing-successful"}
  /\ cluster.status = "cancelled" => host[h].status \notin Preparing
  /\ cluster.status # "cancelled" /\ host[h].status \in Ready => host[h].inventory # "none"

\* What a refresh of the host knows of its row.
LEMMA RefreshHostGrounded ==
  ASSUME TypeOK, NEW h \in Hosts, NEW r \in RefreshHost(h)
  PROVE  /\ host[h].status = "installed" /\ r.to # "installed" => cluster.status = "error"
         /\ r.to \in Ready /\ host[h].status \notin Ready =>
              r.to = "known" /\ host[h].inventory # "none"
         /\ r.to = "preparing-for-installation" =>
              /\ cluster.status = "preparing-for-installation"
              /\ host[h].status \in {"known", "preparing-for-installation"}
         /\ r.to = "preparing-failed" => host[h].status = "preparing-for-installation"
<1>1. r \in Runs(HostRefreshRules(HostContext(host[h])), host[h].status)
  BY DEF RefreshHost
<1>2. host[h].status \in HostStatus
  BY DEF TypeOK, HostRow
<1>3. HostRuleIsGrounded(HostContext(host[h]), r, host[h].status)
  BY <1>1, <1>2, HostRefreshIsGrounded
<1>. QED BY <1>3, HostContextFields DEF HostRuleIsGrounded, Ready

\* Only requests take a cluster to "cancelled" or from there.
LEMMA CancelledByRequest ==
  ASSUME TypeOK, PlansSafe, [Next]_vars, ~CancelInstallation, ~ResetCluster
  PROVE  cluster'.status = "cancelled" <=> cluster.status = "cancelled"
<1>1. CASE ClusterUpdated
  BY <1>1, RefreshClusterSafe DEF ClusterUpdated
<1>2. CASE ClusterMonitored
  BY <1>2 DEF ClusterMonitored, PlansSafe, ClusterPlanIsSafe
<1>. QED BY <1>1, <1>2, ClusterMoves

\* An update leaves an estranged host estranged.
LEMMA EstrangedUpdate ==
  ASSUME TypeOK, PlansSafe, [Next]_vars, NEW h \in Hosts, Estranged(h), UpdateHost(h),
         ~CancelInstallation, ~ResetCluster
  PROVE  Estranged(h)'
<1>0. host \in [Hosts -> HostRow] /\ host[h] \in HostRow
  BY DEF TypeOK
<1>1. PICK r \in RefreshHost(h) : host' = [host EXCEPT ![h] = Refreshed(host[h], r)]
  BY DEF UpdateHost
<1>2. HostMoveIsSafe(h, r)
  BY RefreshHostSafe
<1>3. /\ r.to \in Ready /\ host[h].status \notin Ready => r.to = "known" /\ host[h].inventory # "none"
      /\ r.to = "preparing-for-installation" =>
           /\ cluster.status = "preparing-for-installation"
           /\ host[h].status \in {"known", "preparing-for-installation"}
      /\ r.to = "preparing-failed" => host[h].status = "preparing-for-installation"
  BY RefreshHostGrounded
<1>4. host'[h] = Refreshed(host[h], r)
  BY <1>0, <1>1
<1>5. host'[h].status = r.to /\ host'[h].inventory = host[h].inventory
  BY <1>0, <1>2, <1>4, RefreshedFields, InventoryFields DEF HostMoveIsSafe
<1>6. host[h].status \notin Preparing
  BY DEF UpdateHost, Estranged, Ready, Preparing, Discovery
<1>7. r.to \notin Installing \cup {"installed", "preparing-successful"}
  BY <1>2, <1>6 DEF HostMoveIsSafe, Estranged, Preparing
<1>8. cluster'.status = "cancelled" <=> cluster.status = "cancelled"
  BY CancelledByRequest
<1>9. cluster'.status = "cancelled" => host'[h].status \notin Preparing
  BY <1>3, <1>5, <1>6, <1>7, <1>8 DEF Preparing
<1>10. cluster'.status # "cancelled" /\ host'[h].status \in Ready => host'[h].inventory # "none"
  BY <1>3, <1>5, <1>8 DEF Estranged
<1>. QED BY <1>5, <1>7, <1>9, <1>10 DEF Estranged

\* An estranged host stays so as long as the plan for it is pending.
LEMMA EstrangedStep ==
  ASSUME TypeOK, PlansSafe, [Next]_vars, NEW h \in Hosts,
         Estranged(h), hmon[h].pc = "write", hmon'[h] = hmon[h]
  PROVE  Estranged(h)'
<1>1. CASE CancelInstallation
  <2>1. host'[h].status \in {"cancelled", "known"}
    BY <1>1, CancelEffect
  <2>2. CASE cluster'.status = "cancelled"
    BY <2>1, <2>2 DEF Estranged, Installing, Preparing
  <2>3. CASE cluster'.status # "cancelled"
    <3>1. cluster'.status = "ready" /\ cluster.status = "preparing-for-installation"
      BY <1>1, <2>3, CancelEffect
    <3>2. ASSUME host'[h].status = "known" PROVE host'[h].inventory # "none"
      <4>1. PICK f \in [Hosts -> HostCancelRules] :
              /\ \A g \in Hosts : f[g] \in Runs(HostCancelRules, host[g].status)
              /\ host' = [g \in Hosts |-> Moved(host[g], f[g].to)]
        BY <1>1 DEF CancelInstallation
      <4>2. f[h].to \in HostStatus /\ host[h] \in HostRow
        BY <4>1, HostRequestsSafe DEF HostStatus, Discovery, TypeOK
      <4>3. f[h].to \in Ready => host[h].status \in Ready
        BY <4>1, ReadyRequests
      <4>4. host'[h].status = f[h].to /\ host'[h].inventory = host[h].inventory
        BY <4>1, <4>2, MovedFields, InventoryFields
      <4>. QED BY <3>1, <3>2, <4>3, <4>4 DEF Estranged, Ready
    <3>. QED BY <2>1, <2>3, <3>2 DEF Estranged, Installing, Ready, Preparing
  <2>. QED BY <2>2, <2>3
<1>2. CASE ResetCluster
  BY <1>2, ResetEffect DEF Estranged, Installing, Ready, Preparing
<1>3. CASE ~CancelInstallation /\ ~ResetCluster /\ UpdateHost(h)
  BY <1>3, EstrangedUpdate
<1>4. CASE ~CancelInstallation /\ ~ResetCluster /\ ~UpdateHost(h)
  <2>1. ~Monitored(h)
    BY PlainPlans DEF Monitored
  <2>2. cluster'.status = "cancelled" <=> cluster.status = "cancelled"
    BY <1>4, CancelledByRequest
  <2>3. host'[h].status \in Ready => StaysReady(h)
    BY <1>4, <2>1, ReadyHosts DEF ReadyOutcome
  <2>4. host'[h].status \notin Installing \cup {"installed"}
    <3>1. CASE Updated(h)
      <4>1. PICK r : HostMoveIsSafe(h, r) /\ host'[h] = Refreshed(host[h], r)
        BY <3>1 DEF Updated
      <4>2. host[h] \in HostRow
        BY DEF TypeOK
      <4>3. host'[h].status = r.to
        BY <4>1, <4>2, RefreshedFields DEF HostMoveIsSafe
      <4>. QED BY <4>1, <4>3 DEF HostMoveIsSafe, Estranged
    <3>2. CASE Kept(h) \/ Withdrawn(h)
      BY <3>2 DEF Kept, Withdrawn, Estranged
    <3>3. ~Advanced(h)
      BY DEF Advanced, Estranged
    <3>. QED BY <2>1, <3>1, <3>2, <3>3, HostOutcomes DEF HostOutcome
  <2>5. host'[h].status # "preparing-successful"
    BY <2>3 DEF StaysReady, Estranged, Ready, Preparing
  <2>6. cluster'.status = "cancelled" => host'[h].status \notin Preparing
    BY <2>2, <2>3 DEF StaysReady, Estranged, Ready, Preparing
  <2>7. cluster'.status # "cancelled" /\ host'[h].status \in Ready => host'[h].inventory # "none"
    BY <2>2, <2>3 DEF StaysReady, Estranged
  <2>. QED BY <2>4, <2>5, <2>6, <2>7 DEF Estranged
<1>. QED BY <1>1, <1>2, <1>3, <1>4

\* The requests that end an installation estrange its hosts.
LEMMA EndingEstranges ==
  ASSUME TypeOK, PlansSafe, [Next]_vars, NEW h \in Hosts,
         cluster.status \in InstallationPhase, cluster'.status \notin InstallationPhase
  PROVE  Estranged(h)'
<1>1. CASE CancelInstallation
  <2>1. cluster'.status = "cancelled"
    BY <1>1, CancelEffect DEF InstallationPhase, ClusterInstallation
  <2>. QED BY <1>1, <2>1, CancelEffect DEF Estranged, Installing, Preparing
<1>2. CASE ResetCluster
  BY <1>2, ResetEffect DEF Estranged, Installing, Ready, Preparing
<1>3. ~ClusterUpdated
  BY RefreshClusterSafe DEF ClusterUpdated
<1>4. ~ClusterMonitored
  BY DEF ClusterMonitored, PlansSafe, ClusterPlanIsSafe
<1>. QED BY <1>1, <1>2, <1>3, <1>4, ClusterMoves DEF InstallationPhase, ClusterInstallation

----------------------------------------------------------------------------
(* Hosts install in an installation, whatever happens *)

\* The monitor is about to start the host.
StartPlanned(h) ==
  hmon[h].pc = "write" /\ hmon[h].from = "preparing-successful" /\ hmon[h].to \in Installing

\* A plan to start a host belongs to the installation that runs, or its host is not
\* the one it was.
StartsInInstallation ==
  \A h \in Hosts : StartPlanned(h) => cluster.status \in InstallationPhase \/ Estranged(h)

\* The inductive step: in particular a plan of the host monitor that outlives a
\* cancelled or reset installation is not accepted in the next one.
LEMMA InstallationStep ==
  TypeOK /\ PlansSafe /\ HostsInstallOnlyInInstallation /\ StartsInInstallation /\ [Next]_vars
    => HostsInstallOnlyInInstallation' /\ StartsInInstallation'
<1>. SUFFICES ASSUME TypeOK, PlansSafe, HostsInstallOnlyInInstallation, StartsInInstallation, [Next]_vars
              PROVE  HostsInstallOnlyInInstallation' /\ StartsInInstallation'
  OBVIOUS
<1>0. \A h \in Hosts : host[h] \in HostRow
  BY DEF TypeOK
<1>1. EndsTogether
  BY ClusterOutcomes
<1>2. HostsInstallOnlyInInstallation'
  <2>. SUFFICES ASSUME NEW h \in Hosts, host'[h].status \in Installing \cup {"installed"}
                PROVE  cluster'.status \in InstallationPhase
    BY DEF HostsInstallOnlyInInstallation
  <2>1. SUFFICES cluster.status \in InstallationPhase
    BY <1>1, <2>1 DEF EndsTogether, Installing
  <2>2. ~Withdrawn(h)
    BY DEF Withdrawn
  <2>3. CASE Kept(h) \/ Advanced(h)
    BY <2>3 DEF HostsInstallOnlyInInstallation, Kept, Advanced
  <2>4. CASE Monitored(h)
    <3>1. hmon[h].pc = "write" /\ HostPlanIsSafe(hmon[h]) /\ hmon[h].from = host[h].status
      BY <2>4 DEF Monitored, PlansSafe
    <3>2. hmon[h].to \in HostStatus
      <4>1. hmon[h] \in HostPlan \cup {NoPlan}
        BY DEF TypeOK
      <4>. QED BY <3>1, <4>1, PlainPlans DEF HostPlan
    <3>3. host'[h].status = hmon[h].to
      BY <1>0, <2>4, <3>2, RefreshedFields DEF Monitored
    <3>4. CASE host[h].status \in Installing \cup {"installed"}
      BY <3>4 DEF HostsInstallOnlyInInstallation
    <3>5. CASE host[h].status \notin Installing \cup {"installed"}
      <4>1. StartPlanned(h) /\ host[h].status = "preparing-successful"
        BY <3>1, <3>3, <3>5 DEF StartPlanned, HostPlanIsSafe
      <4>. QED BY <4>1 DEF StartsInInstallation, Estranged
    <3>. QED BY <3>4, <3>5
  <2>5. CASE Updated(h)
    <3>1. PICK r : HostMoveIsSafe(h, r) /\ host'[h] = Refreshed(host[h], r)
      BY <2>5 DEF Updated
    <3>2. host'[h].status = r.to
      BY <1>0, <3>1, RefreshedFields DEF HostMoveIsSafe
    <3>. QED BY <3>1, <3>2 DEF HostMoveIsSafe, HostsInstallOnlyInInstallation, InstallationPhase,
                ClusterInstallation
  <2>. QED BY <2>2, <2>3, <2>4, <2>5, HostOutcomes DEF HostOutcome
<1>3. StartsInInstallation'
  <2>. SUFFICES ASSUME NEW h \in Hosts, StartPlanned(h)', cluster'.status \notin InstallationPhase
                PROVE  Estranged(h)'
    BY DEF StartsInInstallation
  <2>1. CASE hmon'[h] = hmon[h]
    <3>1. StartPlanned(h)
      BY <2>1 DEF StartPlanned
    <3>2. CASE cluster.status \in InstallationPhase
      BY <3>2, EndingEstranges
    <3>3. CASE Estranged(h)
      BY <2>1, <3>1, <3>3, EstrangedStep DEF StartPlanned
    <3>. QED BY <3>1, <3>2, <3>3 DEF StartsInInstallation
  <2>2. CASE hmon'[h] = NoPlan
    BY <2>2, PlainPlans DEF StartPlanned
  <2>3. CASE hmon'[h] \in HostPlans(h) /\ host' = host /\ cluster' = cluster
    <3>1. HostMoveIsSafe(h, hmon'[h]) /\ hmon'[h].from = host[h].status
      BY <2>3, HostPlansSafe
    <3>. QED BY <2>3, <3>1 DEF HostMoveIsSafe, StartPlanned, InstallationPhase, ClusterInstallation,
                Installing
  <2>. QED BY <2>1, <2>2, <2>3, PlanOutcomes DEF PlanOutcome
<1>. QED BY <1>2, <1>3

\* A host runs or has run the installer only under a cluster whose installation
\* started and was neither cancelled nor reset.  Nothing is asked of the
\* disturbances: requests may refresh hosts and clusters between the monitor's read
\* and its write.
THEOREM HostsAlwaysInstallInInstallation == Spec => []HostsInstallOnlyInInstallation
<1>1. Init => HostsInstallOnlyInInstallation /\ StartsInInstallation
  <2>. SUFFICES ASSUME Init PROVE HostsInstallOnlyInInstallation /\ StartsInInstallation
    OBVIOUS
  <2>1. \A h \in Hosts : host[h].status = "discovering" /\ hmon[h] = NoPlan
    BY DEF Init, NewHost
  <2>. QED BY <2>1, PlainPlans DEF HostsInstallOnlyInInstallation, StartsInInstallation, StartPlanned,
              Installing
<1>. QED BY <1>1, InstallationStep, TypeCorrect, PlansAlwaysSafe, PTL DEF Spec

----------------------------------------------------------------------------
(* Hosts that are done *)

Done == {"installed", "error"}

\* What a request or a report does to a host that is done: nothing, unless it
\* withdraws it.
LEMMA DoneRequests ==
  ASSUME NEW s \in Done
  PROVE  /\ \A r \in Runs(HostInstallationFailedRules, s) : FALSE
         /\ \A r \in Runs(MediaDisconnectRules, s) : r.to = s
         /\ \A x : \A r \in Runs(RegisterHostRules(x), s) : r.to = s
<1>. USE RunsMatch DEF Rule, Done
<1>1. \A r \in Runs(HostInstallationFailedRules, s) : FALSE
  BY DEF HostInstallationFailedRules
<1>2. \A r \in Runs(MediaDisconnectRules, s) : r.to = s
  BY DEF MediaDisconnectRules, Discovery, Preparing
<1>3. ASSUME NEW x, NEW r \in Runs(RegisterHostRules(x), s) PROVE r.to = s
  <2>1. r \in RegisterHostRules(x) /\ s \in r.from
    BY <1>3, RunsMatch
  <2>. QED BY <2>1 DEF RegisterHostRules, Discovery
<1>. QED BY <1>1, <1>2, <1>3

\* A host that is done keeps its status, unless it is withdrawn or refreshed.
LEMMA DoneHosts ==
  ASSUME TypeOK, [Next]_vars, NEW h \in Hosts, host[h].status \in Done,
         ~CancelInstallation, ~ResetCluster, ~UpdateHost(h)
  PROVE  host'[h].status = host[h].status \/ Monitored(h)
<1>0. /\ host \in [Hosts -> HostRow]
      /\ \A g \in Hosts : host[g] \in HostRow /\ host[g].status \in HostStatus
  BY DEF TypeOK, HostRow
<1>1. CASE UNCHANGED host
  BY <1>1
<1>2. ASSUME NEW g \in Hosts, UpdateHost(g) PROVE host'[h] = host[h]
  BY <1>0, <1>2 DEF UpdateHost
<1>3. ASSUME NEW g \in Hosts, HMonWrite(g) PROVE host'[h] = host[h] \/ Monitored(h)
  <2>1. CASE h # g \/ ~StatusAsLoaded(host[g], hmon[g].from)
    BY <1>0, <1>3, <2>1 DEF HMonWrite
  <2>2. CASE h = g /\ StatusAsLoaded(host[g], hmon[g].from)
    BY <1>0, <1>3, <2>2 DEF HMonWrite, Monitored, StatusAsLoaded, TypeOK
  <2>. QED BY <2>1, <2>2
<1>4. ASSUME NEW g \in Hosts, RegisterHost(g) PROVE host'[h].status = host[h].status
  <2>1. PICK r \in Runs(RegisterHostRules(HostContext(host[g])), host[g].status) :
          host' = [host EXCEPT ![g] = Registered(host[g], r)]
    BY <1>4 DEF RegisterHost
  <2>2. CASE h # g
    BY <1>0, <2>1, <2>2
  <2>3. CASE h = g
    <3>1. r.to = host[h].status
      BY <2>3, DoneRequests
    <3>2. host'[h] = Registered(host[h], r)
      BY <1>0, <2>1, <2>3
    <3>. QED BY <1>0, <3>1, <3>2, RegisteredFields
  <2>. QED BY <2>2, <2>3
<1>5. ASSUME NEW g \in Hosts, MediaDisconnected(g) PROVE host'[h].status = host[h].status
  <2>1. PICK r \in Runs(MediaDisconnectRules, host[g].status) :
          host' = [host EXCEPT ![g] = [Moved(host[g], r.to) EXCEPT !.media = FALSE]]
    BY <1>5 DEF MediaDisconnected
  <2>2. CASE h # g
    BY <1>0, <2>1, <2>2
  <2>3. CASE h = g
    <3>1. r.to = host[g].status
      BY <2>3, DoneRequests
    <3>2. Moved(host[g], r.to) \in HostRow /\ Moved(host[g], r.to).status = r.to
      BY <1>0, <3>1, MovedHostType
    <3>3. host'[h].status = r.to
      BY <1>0, <2>1, <2>3, <3>2 DEF HostRow
    <3>. QED BY <2>3, <3>1, <3>3
  <2>. QED BY <2>2, <2>3
<1>6. ASSUME NEW g \in Hosts,
             \/ CheckIn(g) \/ AgentSilent(g) \/ MediaConnected(g) \/ HostTimesOut(g)
             \/ PostImages(g) \/ PostDiskSpeed(g) \/ PostBadCheck(g)
             \/ PostInventory(g) \/ PostPoorInventory(g)
      PROVE  host'[h].status = host[h].status
  BY <1>0, <1>6 DEF CheckIn, AgentSilent, MediaConnected, PostImages, PostDiskSpeed, PostBadCheck,
     PostInventory, PostPoorInventory, HostTimesOut, HostRow
<1>7. ASSUME NEW g \in Hosts, InstallCommandFails(g) \/ ReportFailed(g) PROVE host'[h] = host[h]
  <2>1. host[g].status \notin Done
    BY <1>7, DoneRequests DEF InstallCommandFails, ReportFailed, Done, Installing
  <2>. QED BY <1>0, <1>7, <2>1 DEF InstallCommandFails, ReportFailed
<1>8. ASSUME NEW g \in Hosts, WriteStage(g) PROVE host'[h].status = host[h].status
  <2>1. CASE host' = host
    BY <2>1
  <2>2. CASE host' = [host EXCEPT ![g] = [host[g] EXCEPT !.stage = report[g].to, !.late = FALSE,
                                                       !.stuck = FALSE]]
    <3>1. host'[g] = [host[g] EXCEPT !.stage = report[g].to, !.late = FALSE, !.stuck = FALSE]
      BY <1>0, <2>2
    <3>2. host'[g].status = host[g].status
      BY <1>0, <3>1 DEF HostRow
    <3>. QED BY <1>0, <2>2, <3>2
  <2>. QED BY <1>8, <2>1, <2>2 DEF WriteStage
<1>9. ASSUME NEW g \in Hosts, CommitProgress(g) PROVE host'[h].status = host[h].status
  <2>1. CASE host' = host
    BY <2>1
  <2>2. CASE /\ StatusAsLoaded(host[g], report[g].status)
             /\ host' = [host EXCEPT ![g] = Moved(host[g], report[g].to)]
    <3>1. report[g].status \in Installing
      BY <1>9, ReportFields DEF TypeOK, Reports, CommitProgress
    <3>2. h # g
      BY <2>2, <3>1 DEF StatusAsLoaded, Done, Installing
    <3>. QED BY <1>0, <2>2, <3>2
  <2>. QED BY <1>9, <2>1, <2>2 DEF CommitProgress
<1>10. Install \/ Restart \/ HMonRead \/ ClusterMonitor \/ Controller => UNCHANGED host
  BY DEF Install, Restart, HMonRead, ClusterMonitor, CMonRead, CMonWrite, CMonInstallFails,
     CMonMarkFailed, CMonRetrigger, CMonReload, Controller, ReportOperators, OperatorFails, UploadIngressCert
<1>11. ClusterTimesOut \/ InstallationTimesOut => UNCHANGED host
  BY DEF ClusterTimesOut, InstallationTimesOut
<1>12. \A a \in 1..MaxAttempts : Job(a) => UNCHANGED host
  BY DEF Job, Launch, LaunchFails, HandlePreInstallSuccess, HandlePreInstallError
<1>13. \A g \in Hosts : ReportStage(g) \/ HostProgress(g) => UNCHANGED host
  BY DEF ReportStage, HostProgress
<1>. QED
  BY <1>1, <1>2, <1>3, <1>4, <1>5, <1>6, <1>7, <1>8, <1>9, <1>10, <1>11, <1>12, <1>13
  DEF Next, User, HostMonitor, Agent, Time, vars

----------------------------------------------------------------------------
(* Completing an installation *)

MastersInstalled == \A h \in Masters : host[h].status = "installed"
AllDone == \A h \in Hosts : host[h].status \in Done

\* The monitor is about to fail an installed host.
FailPlanned(h) == hmon[h].pc = "write" /\ hmon[h].from = "installed" /\ hmon[h].to # "installed"

\* A plan to fail an installed host belongs to a failed cluster, or the host was
\* withdrawn.
FailuresAreDue == \A h \in Hosts : FailPlanned(h) => cluster.status = "error" \/ Estranged(h)

StartedIsCounted == cluster.status \notin ClusterDiscovery => attempt # 0

\* A cluster finalizes with its masters installed, and is installed with all hosts done.
CompletedRight ==
  /\ cluster.status \in {"finalizing", "installed"} => MastersInstalled
  /\ cluster.status = "installed" => AllDone

\* A plan of the cluster monitor to go there is still right, as long as the
\* installation it was made in goes on, and no update starts another one before the
\* plan is dropped.
CompletionsAreDue ==
  cmon.pc = "write" /\ cmon.to \in {"finalizing", "installed"} =>
    /\ cmon.from \in ClusterInstallation
    /\ cluster.status \in ClusterInstallation =>
         MastersInstalled /\ (cmon.to = "installed" => AllDone)
    /\ cluster.status \notin ClusterInstallation /\ "update" \in Disturbances =>
         attempt = MaxAttempts /\ cluster.status # "preparing-for-installation"

\* With the one master of a single-node cluster, enough installed masters are all.
LEMMA EnoughIsAll ==
  ASSUME ControlPlaneCount = 1 => Cardinality(Masters) = 1, NEW hs, Installed(hs)
  PROVE  \A h \in Masters : hs[h] = "installed"
<1>. DEFINE M == {h \in Masters : hs[h] \in {"installed"}}
<1>1. IsFiniteSet(Masters)
  BY HostsAssumption, FS_Subset
<1>2. /\ M \subseteq Masters /\ IsFiniteSet(M)
      /\ Cardinality(M) <= Cardinality(Masters)
      /\ Cardinality(Masters) = Cardinality(M) => M = Masters
  BY <1>1, FS_Subset
<1>3. Cardinality(M) \in Nat /\ Cardinality(Masters) \in Nat
  BY <1>1, <1>2, FS_CardinalityType
<1>4. In(hs, Masters, {"installed"}) = Cardinality(M)
  BY DEF In
<1>5. Cardinality(M) >= Cardinality(Masters)
  BY <1>3, <1>4 DEF Installed, HasEnoughMastersAndWorkers
<1>6. M = Masters
  BY <1>2, <1>3, <1>5
<1>. QED BY <1>6

\* What a refresh that completes an installation knows of the hosts.
LEMMA RefreshClusterCompletes ==
  ASSUME TypeOK, NEW hs, NEW r \in RefreshCluster(hs)
  PROVE  /\ r.to = "installed" /\ cluster.status # "installed" =>
              cluster.status = "finalizing" /\ \A h \in Hosts : hs[h] \in Done
         /\ r.to = "finalizing" /\ cluster.status # "finalizing" =>
              cluster.status \in ClusterInstallation /\ Installed(hs)
<1>. DEFINE y == ClusterContext(cluster, hs)
<1>1. r \in Runs(ClusterRefreshRules(y), cluster.status)
  BY DEF RefreshCluster
<1>2. cluster.status \in ClusterStatus
  BY DEF TypeOK, ClusterRow
<1>3. ClusterRuleCompletes(y, r, cluster.status)
  BY <1>1, <1>2, ClusterRefreshCompletes
<1>4. y.done => \A h \in Hosts : hs[h] \in Done
  BY DEF ClusterContext, Done
<1>5. y.finalizing => Installed(hs)
  BY DEF ClusterContext
<1>. HIDE DEF y
<1>. QED BY <1>3, <1>4, <1>5 DEF ClusterRuleCompletes

\* A plan that the cluster monitor makes to complete the installation is right.
LEMMA CompletionPlanned ==
  ASSUME ControlPlaneCount = 1 => Cardinality(Masters) = 1, TypeOK, CompletedRight,
         NEW p \in ClusterPlans, p.to \in {"finalizing", "installed"}
  PROVE  /\ p.from \in ClusterInstallation /\ MastersInstalled
         /\ p.to = "installed" => AllDone
<1>1. PICK r \in RefreshCluster(Statuses) :
        /\ r.to # cluster.status
        /\ p = [pc |-> "write", from |-> cluster.status, to |-> r.to, post |-> r.post]
  BY DEF ClusterPlans
<1>2. p.from = cluster.status /\ p.to = r.to
  BY <1>1
<1>3. CASE p.to = "installed"
  <2>1. cluster.status = "finalizing" /\ \A h \in Hosts : Statuses[h] \in Done
    BY <1>1, <1>2, <1>3, RefreshClusterCompletes
  <2>2. AllDone
    BY <2>1 DEF AllDone, Statuses
  <2>. QED BY <1>2, <2>1, <2>2 DEF CompletedRight, ClusterInstallation
<1>4. CASE p.to = "finalizing"
  <2>1. cluster.status \in ClusterInstallation /\ Installed(Statuses)
    BY <1>1, <1>2, <1>4, RefreshClusterCompletes
  <2>2. \A h \in Masters : Statuses[h] = "installed"
    BY <2>1, EnoughIsAll
  <2>. QED BY <1>2, <1>4, <2>1, <2>2, HostsAssumption DEF MastersInstalled, Statuses
<1>. QED BY <1>3, <1>4

\* While an installation neither failed nor ends, hosts that are done stay done.
LEMMA DoneStay ==
  ASSUME TypeOK, PlansSafe, FailuresAreDue, [Next]_vars,
         ~CancelInstallation, ~ResetCluster, cluster.status # "error",
         NEW h \in Hosts, host[h].status \in Done
  PROVE  host'[h].status = host[h].status
<1>0. host \in [Hosts -> HostRow] /\ host[h] \in HostRow
  BY DEF TypeOK
<1>1. CASE UpdateHost(h)
  <2>1. PICK r \in RefreshHost(h) : host' = [host EXCEPT ![h] = Refreshed(host[h], r)]
    BY <1>1 DEF UpdateHost
  <2>2. HostMoveIsSafe(h, r) /\ (host[h].status = "installed" => r.to = "installed")
    BY RefreshHostSafe, RefreshHostGrounded
  <2>3. host'[h] = Refreshed(host[h], r)
    BY <1>0, <2>1
  <2>4. host'[h].status = r.to
    BY <1>0, <2>2, <2>3, RefreshedFields DEF HostMoveIsSafe
  <2>. QED BY <2>2, <2>4 DEF HostMoveIsSafe, Done
<1>2. CASE Monitored(h)
  <2>1. hmon[h].pc = "write" /\ HostPlanIsSafe(hmon[h]) /\ hmon[h].from = host[h].status
    BY <1>2 DEF Monitored, PlansSafe
  <2>2. hmon[h].to \in HostStatus
    <3>1. hmon[h] \in HostPlan \cup {NoPlan}
      BY DEF TypeOK
    <3>. QED BY <2>1, <3>1, PlainPlans DEF HostPlan
  <2>3. host'[h].status = hmon[h].to
    BY <1>0, <1>2, <2>2, RefreshedFields DEF Monitored
  <2>4. CASE host[h].status = "error"
    BY <2>1, <2>3, <2>4 DEF HostPlanIsSafe
  <2>5. CASE host[h].status = "installed"
    <3>1. ~FailPlanned(h)
      BY <2>5 DEF FailuresAreDue, Estranged
    <3>. QED BY <2>1, <2>3, <2>5, <3>1 DEF FailPlanned
  <2>. QED BY <2>4, <2>5 DEF Done
<1>. QED BY <1>1, <1>2, DoneHosts

\* The inductive step for the plans of the host monitor.
LEMMA FailuresStep == TypeOK /\ PlansSafe /\ FailuresAreDue /\ [Next]_vars => FailuresAreDue'
<1>. SUFFICES ASSUME TypeOK, PlansSafe, FailuresAreDue, [Next]_vars,
                     NEW h \in Hosts, FailPlanned(h)', cluster'.status # "error"
              PROVE  Estranged(h)'
  BY DEF FailuresAreDue
<1>1. CASE hmon'[h] = hmon[h]
  <2>1. FailPlanned(h)
    BY <1>1 DEF FailPlanned
  <2>2. CASE cluster.status = "error"
    <3>1. cluster'.status \in {"cancelled", "insufficient"}
      BY <2>2, ClusterOutcomes DEF ClusterStaysEnded
    <3>. QED BY <2>2, <3>1, EndingEstranges DEF InstallationPhase, ClusterInstallation
  <2>3. CASE Estranged(h)
    BY <1>1, <2>1, <2>3, EstrangedStep DEF FailPlanned
  <2>. QED BY <2>1, <2>2, <2>3 DEF FailuresAreDue
<1>2. CASE hmon'[h] = NoPlan
  BY <1>2, PlainPlans DEF FailPlanned
<1>3. CASE hmon'[h] \in HostPlans(h) /\ host' = host /\ cluster' = cluster
  <2>1. PICK r \in RefreshHost(h) :
          hmon'[h] = [pc |-> "write", from |-> host[h].status, to |-> r.to, post |-> r.post]
    BY <1>3 DEF HostPlans
  <2>2. host[h].status = "installed" /\ r.to # "installed"
    BY <2>1 DEF FailPlanned
  <2>. QED BY <1>3, <2>2, RefreshHostGrounded
<1>. QED BY <1>1, <1>2, <1>3, PlanOutcomes DEF PlanOutcome

\* Starting an installation is the only step that counts one.
LEMMA AttemptOutcome ==
  ASSUME TypeOK, [Next]_vars
  PROVE  /\ attempt' = attempt \/ (Install /\ attempt < MaxAttempts /\ attempt' = attempt + 1)
         /\ attempt \in 0..MaxAttempts /\ attempt' \in 0..MaxAttempts
<1>1. attempt \in 0..MaxAttempts /\ attempt' \in 0..MaxAttempts
  BY TypeStep DEF TypeOK
<1>2. Install => attempt < MaxAttempts /\ attempt' = attempt + 1
  BY DEF Install
<1>3. Restart \/ HostMonitor \/ ClusterMonitor \/ Controller \/ Time => UNCHANGED attempt
  BY DEF Restart, HostMonitor, HMonRead, HMonWrite, ClusterMonitor, CMonRead, CMonWrite,
     CMonInstallFails, CMonMarkFailed, CMonRetrigger, CMonReload, Controller, ReportOperators, OperatorFails,
     UploadIngressCert, Time, ClusterTimesOut, InstallationTimesOut, HostTimesOut
<1>4. \A h \in Hosts : UpdateHost(h) \/ Agent(h) => UNCHANGED attempt
  BY DEF UpdateHost, Agent, CheckIn, AgentSilent, RegisterHost, MediaDisconnected, MediaConnected,
     PostInventory, PostPoorInventory, PostImages, PostDiskSpeed, PostBadCheck, InstallCommandFails,
     ReportStage, WriteStage, HostProgress, CommitProgress, ReportFailed
<1>5. \A a \in 1..MaxAttempts : Job(a) => UNCHANGED attempt
  BY DEF Job, Launch, LaunchFails, HandlePreInstallSuccess, HandlePreInstallError
<1>6. CancelInstallation \/ ResetCluster => UNCHANGED attempt
  BY DEF CancelInstallation, ResetCluster
<1>. QED BY <1>1, <1>2, <1>3, <1>4, <1>5, <1>6 DEF Next, User, vars

\* A cluster gets beyond its discovery by an installation.
LEMMA StartedStep == TypeOK /\ PlansSafe /\ StartedIsCounted /\ [Next]_vars => StartedIsCounted'
<1>. SUFFICES ASSUME TypeOK, PlansSafe, StartedIsCounted, [Next]_vars,
                     cluster'.status \notin ClusterDiscovery
              PROVE  attempt' # 0
  BY DEF StartedIsCounted
<1>1. CASE Install
  <2>1. attempt' = attempt + 1
    BY <1>1 DEF Install
  <2>. QED BY <2>1, AttemptOutcome
<1>2. CASE ~Install
  <2>1. attempt' = attempt
    BY <1>2, AttemptOutcome
  <2>2. cluster.status \notin ClusterDiscovery
    <3>1. CASE ClusterUpdated
      BY <3>1, RefreshClusterSafe DEF ClusterUpdated
    <3>2. CASE ClusterMonitored
      BY <3>2 DEF ClusterMonitored, PlansSafe, ClusterPlanIsSafe
    <3>3. CASE CancelInstallation
      <4>1. \A r \in Runs(ClusterCancelRules, cluster.status) : cluster.status \notin ClusterDiscovery
        BY ClusterRequestsSafe DEF ClusterInstallation, ClusterDiscovery
      <4>. QED BY <3>3, <4>1 DEF CancelInstallation
    <3>4. CASE ResetCluster
      BY <3>4, ResetEffect DEF ClusterDiscovery
    <3>. QED BY <1>2, <3>1, <3>2, <3>3, <3>4, ClusterMoves
  <2>. QED BY <2>1, <2>2 DEF StartedIsCounted
<1>. QED BY <1>1, <1>2

\* An update neither starts a preparation nor, but from one, an installation.
LEMMA UpdatesStartNothing ==
  ASSUME TypeOK, ClusterUpdated
  PROVE  /\ cluster'.status = "preparing-for-installation" => cluster.status = "preparing-for-installation"
         /\ cluster'.status \in ClusterInstallation =>
              cluster.status \in ClusterInstallation \cup {"preparing-for-installation"}
<1>1. PICK r \in RefreshCluster(Statuses') : cluster'.status = r.to
  BY DEF ClusterUpdated
<1>2. cluster.status \in ClusterStatus
  BY DEF TypeOK, ClusterRow
<1>3. /\ cluster.status \in {"installed", "error", "cancelled"} => r.to = cluster.status
      /\ cluster.status \in InstallationPhase => r.to \in InstallationPhase
      /\ cluster.status \in ClusterDiscovery => r.to \in ClusterDiscovery
  BY RefreshClusterSafe
<1>. QED BY <1>1, <1>2, <1>3 DEF ClusterStatus, InstallationPhase, ClusterInstallation, ClusterDiscovery

\* The inductive step for the cluster and the plans of its monitor.
LEMMA CompletedStep ==
  ASSUME "update" \notin Disturbances \/ MaxAttempts <= 1,
         ControlPlaneCount = 1 => Cardinality(Masters) = 1
  PROVE  (TypeOK /\ PlansSafe /\ FailuresAreDue /\ StartedIsCounted /\ CompletedRight
            /\ CompletionsAreDue /\ [Next]_vars) => CompletedRight' /\ CompletionsAreDue'
<1>. SUFFICES ASSUME TypeOK, PlansSafe, FailuresAreDue, StartedIsCounted, CompletedRight,
                     CompletionsAreDue, [Next]_vars
              PROVE  CompletedRight' /\ CompletionsAreDue'
  OBVIOUS
<1>1. ClusterUpdated => "update" \in Disturbances
  BY DEF ClusterUpdated, UpdateHost, Disturb
<1>2. ASSUME CancelInstallation \/ ResetCluster
      PROVE  cluster'.status \in {"cancelled", "ready", "insufficient"}
  BY <1>2, CancelEffect, ResetEffect
<1>3. ASSUME cluster.status # "error", ~CancelInstallation, ~ResetCluster
      PROVE  (MastersInstalled => MastersInstalled') /\ (AllDone => AllDone')
  <2>1. \A h \in Hosts : host[h].status \in Done => host'[h].status = host[h].status
    BY <1>3, DoneStay
  <2>2. MastersInstalled => MastersInstalled'
    BY <2>1, HostsAssumption DEF MastersInstalled, Done
  <2>3. AllDone => AllDone'
    BY <2>1 DEF AllDone
  <2>. QED BY <2>2, <2>3
<1>4. CompletedRight'
  <2>. SUFFICES ASSUME cluster'.status \in {"finalizing", "installed"}
                PROVE  MastersInstalled' /\ (cluster'.status = "installed" => AllDone')
    BY DEF CompletedRight
  <2>1. ~CancelInstallation /\ ~ResetCluster
    BY <1>2
  <2>2. CASE cluster'.status = cluster.status
    BY <1>3, <2>1, <2>2 DEF CompletedRight
  <2>3. CASE ClusterMonitored
    <3>1. MastersInstalled /\ (cmon.to = "installed" => AllDone) /\ cluster.status # "error"
      BY <2>3 DEF ClusterMonitored, CompletionsAreDue, ClusterInstallation
    <3>. QED BY <1>3, <2>1, <2>3, <3>1 DEF ClusterMonitored
  <2>4. CASE ClusterUpdated /\ cluster'.status # cluster.status
    <3>1. PICK r \in RefreshCluster(Statuses') : cluster'.status = r.to
      BY <2>4 DEF ClusterUpdated
    <3>2. /\ r.to = "installed" =>
               cluster.status = "finalizing" /\ \A h \in Hosts : Statuses'[h] \in Done
          /\ r.to = "finalizing" => Installed(Statuses')
      BY <2>4, <3>1, RefreshClusterCompletes
    <3>3. CASE r.to = "installed"
      BY <1>3, <2>1, <3>1, <3>2, <3>3 DEF CompletedRight, AllDone, Statuses
    <3>4. CASE r.to = "finalizing"
      <4>1. \A h \in Masters : Statuses'[h] = "installed"
        BY <3>2, <3>4, EnoughIsAll
      <4>. QED BY <3>1, <3>4, <4>1, HostsAssumption DEF MastersInstalled, Statuses
    <3>. QED BY <3>1, <3>3, <3>4
  <2>. QED BY <2>1, <2>2, <2>3, <2>4, ClusterMoves
<1>5. CompletionsAreDue'
  <2>. SUFFICES ASSUME cmon'.pc = "write", cmon'.to \in {"finalizing", "installed"}
                PROVE  /\ cmon'.from \in ClusterInstallation
                       /\ cluster'.status \in ClusterInstallation =>
                            MastersInstalled' /\ (cmon'.to = "installed" => AllDone')
                       /\ cluster'.status \notin ClusterInstallation /\ "update" \in Disturbances =>
                            /\ attempt' = MaxAttempts
                            /\ cluster'.status # "preparing-for-installation"
    BY DEF CompletionsAreDue
  <2>1. CASE cmon' \in ClusterPlans /\ host' = host /\ cluster' = cluster
    <3>1. /\ cmon'.from \in ClusterInstallation /\ MastersInstalled
          /\ cmon'.to = "installed" => AllDone
      BY <2>1, CompletionPlanned
    <3>2. cmon'.from = cluster.status
      BY <2>1 DEF ClusterPlans
    <3>. QED BY <2>1, <3>1, <3>2 DEF MastersInstalled, AllDone
  <2>2. CASE cmon' = cmon
    <3>1. cmon.from \in ClusterInstallation
      BY <2>2 DEF CompletionsAreDue
    <3>2. ~ClusterMonitored
      BY <2>2 DEF ClusterMonitored
    <3>3. ASSUME cluster.status \in ClusterInstallation, cluster'.status \in ClusterInstallation
          PROVE  MastersInstalled' /\ (cmon.to = "installed" => AllDone')
      <4>1. ~CancelInstallation /\ ~ResetCluster
        BY <1>2, <3>3 DEF ClusterInstallation
      <4>2. MastersInstalled /\ (cmon.to = "installed" => AllDone) /\ cluster.status # "error"
        BY <2>2, <3>3 DEF CompletionsAreDue, ClusterInstallation
      <4>. QED BY <1>3, <4>1, <4>2
    <3>4. cluster.status \notin ClusterInstallation => cluster'.status \notin ClusterInstallation
      <4>. SUFFICES ASSUME cluster.status \notin ClusterInstallation,
                           cluster'.status \in ClusterInstallation
                    PROVE  FALSE
        OBVIOUS
      <4>1. ~CancelInstallation /\ ~ResetCluster
        BY <1>2 DEF ClusterInstallation
      <4>2. ClusterUpdated
        BY <3>2, <4>1, ClusterMoves DEF ClusterInstallation
      <4>3. cluster.status = "preparing-for-installation"
        BY <4>2, UpdatesStartNothing
      <4>. QED BY <1>1, <2>2, <4>2, <4>3 DEF CompletionsAreDue
    <3>5. ASSUME cluster'.status \notin ClusterInstallation, "update" \in Disturbances
          PROVE  attempt' = MaxAttempts /\ cluster'.status # "preparing-for-installation"
      <4>1. attempt = MaxAttempts /\ cluster.status # "preparing-for-installation"
        <5>1. CASE cluster.status \in ClusterInstallation
          <6>1. attempt # 0
            BY <5>1 DEF StartedIsCounted, ClusterInstallation, ClusterDiscovery
          <6>2. MaxAttempts <= 1 /\ MaxAttempts \in Nat
            BY <3>5, BoundsAssumption
          <6>3. attempt = MaxAttempts
            BY <6>1, <6>2, AttemptOutcome
          <6>. QED BY <5>1, <6>3 DEF ClusterInstallation
        <5>2. CASE cluster.status \notin ClusterInstallation
          BY <2>2, <3>5, <5>2 DEF CompletionsAreDue
        <5>. QED BY <5>1, <5>2
      <4>2. MaxAttempts \in Nat
        BY BoundsAssumption
      <4>3. ~Install /\ attempt' = attempt
        <5>1. Install => attempt < MaxAttempts
          BY DEF Install
        <5>. QED BY <4>1, <4>2, <5>1, AttemptOutcome
      <4>4. cluster'.status # "preparing-for-installation"
        BY <1>2, <3>2, <4>1, <4>3, UpdatesStartNothing, ClusterMoves
      <4>. QED BY <4>1, <4>3, <4>4
    <3>. QED BY <2>2, <3>1, <3>3, <3>4, <3>5
  <2>. QED BY <2>1, <2>2, ClusterPlanOutcomes, PlainPlans
<1>. QED BY <1>4, <1>5

\* An installed cluster has all its masters and no node that is still being
\* installed, although the cluster monitor counted them on rows it loaded earlier
\* (HasEnoughMastersAndWorkers, areAllHostsDone).  A single-node cluster has one
\* master (SufficientMastersCount).  Updates of hosts and a second installation do not
\* go together: an update can start the second, and then a plan that outlived the
\* first is accepted in it.
THEOREM InstalledClusterAlwaysHasItsNodes ==
  ASSUME "update" \notin Disturbances \/ MaxAttempts <= 1,
         ControlPlaneCount = 1 => Cardinality(Masters) = 1
  PROVE  Spec => []InstalledClusterHasItsNodes
<1>. DEFINE Inv == FailuresAreDue /\ StartedIsCounted /\ CompletedRight /\ CompletionsAreDue
<1>1. Init => Inv
  <2>. SUFFICES ASSUME Init PROVE Inv
    OBVIOUS
  <2>1. cmon = NoPlan /\ cluster.status = "insufficient" /\ \A h \in Hosts : hmon[h] = NoPlan
    BY DEF Init, NewCluster
  <2>. QED BY <2>1, PlainPlans DEF FailuresAreDue, FailPlanned, StartedIsCounted, CompletedRight,
              CompletionsAreDue, ClusterDiscovery
<1>2. TypeOK /\ PlansSafe /\ Inv /\ [Next]_vars => Inv'
  BY FailuresStep, StartedStep, CompletedStep
<1>3. Inv => InstalledClusterHasItsNodes
  BY DEF CompletedRight, InstalledClusterHasItsNodes, MastersInstalled, AllDone, Done
<1>. HIDE DEF Inv
<1>. QED BY <1>1, <1>2, <1>3, TypeCorrect, PlansAlwaysSafe, PTL DEF Spec
=============================================================================
