------------------------- MODULE InstallFlowProofs -------------------------
(***************************************************************************)
(* Safety of InstallFlow for every set of hosts, topology, number of        *)
(* installations and number of disturbances.                                *)
(***************************************************************************)
EXTENDS InstallFlow, StateMachineProofs

USE HostsAssumption, BoundsAssumption, SoftTimeoutsAssumption

----------------------------------------------------------------------------
(* The helpers that write rows keep their types *)

\* The stages a report may carry are the members of HostStage.
LEMMA HostStageValues ==
  HostStage = {"", "Writing image to disk", "Rebooting", "Done"}
<1>1. \A i \in 1..4 : i = 1 \/ i = 2 \/ i = 3 \/ i = 4
  OBVIOUS
<1>2. /\ HostStages[1] = "" /\ HostStages[2] = "Writing image to disk"
      /\ HostStages[3] = "Rebooting" /\ HostStages[4] = "Done"
  BY DEF HostStages
<1>3. \A i \in 1..4 : HostStages[i] \in {"", "Writing image to disk", "Rebooting", "Done"}
  BY <1>1, <1>2
<1>4. 1 \in 1..4 /\ 2 \in 1..4 /\ 3 \in 1..4 /\ 4 \in 1..4
  OBVIOUS
<1>. QED BY <1>2, <1>3, <1>4, Zenon DEF HostStage

\* A new status keeps the row of a host a row.
LEMMA MovedHostType ==
  ASSUME NEW row \in HostRow, NEW s \in HostStatus
  PROVE  Moved(row, s) \in HostRow /\ Moved(row, s).status = s
  BY DEF HostRow, Moved

\* A new status keeps the row of a cluster a row.
LEMMA MovedClusterType ==
  ASSUME NEW row \in ClusterRow, NEW s \in ClusterStatus
  PROVE  Moved(row, s) \in ClusterRow /\ Moved(row, s).status = s
  BY DEF ClusterRow, Moved

\* The post-transition of a refresh (PostRefreshHost) keeps the row a row.
LEMMA RefreshedType ==
  ASSUME NEW row \in HostRow, NEW r, r.to \in HostStatus
  PROVE  Refreshed(row, r) \in HostRow /\ Refreshed(row, r).status = r.to
<1>1. row.lost \in BOOLEAN /\ row.stuck \in BOOLEAN /\ row.late \in BOOLEAN
  BY DEF HostRow
<1>. DEFINE lost == (row.lost \/ r.post = "lost") /\ r.post # "found"
            stuck == row.stuck \/ r.post = "stuck"
            late == IF r.to = row.status THEN row.late /\ r.post # "touch-stage" ELSE FALSE
            images == IF r.post = "recheck-images" THEN "unknown" ELSE row.images
<1>2. lost \in BOOLEAN /\ stuck \in BOOLEAN /\ late \in BOOLEAN
  BY <1>1, Zenon
<1>3. images \in Verdict
  BY DEF HostRow, Verdict
<1>4. Moved(row, r.to) \in HostRow /\ Moved(row, r.to).status = r.to
  BY MovedHostType
<1>5. Refreshed(row, r) = [Moved(row, r.to) EXCEPT !.images = images, !.lost = lost,
                                                  !.stuck = stuck, !.late = late]
  BY DEF Refreshed
<1>. HIDE DEF lost, stuck, late, images
<1>. QED BY <1>2, <1>3, <1>4, <1>5 DEF HostRow

\* The post-transition of a registration (PostRegisterHost) keeps the row a row.
LEMMA RegisteredType ==
  ASSUME NEW row \in HostRow, NEW r, r.to \in HostStatus
  PROVE  Registered(row, r) \in HostRow /\ Registered(row, r).status = r.to
  BY HostStageValues DEF HostRow, Registered, Moved, Verdict
----------------------------------------------------------------------------
(* What the machines do to the rows of this module *)

\* What the proofs need of the conditions of a host's rules.
LEMMA HostContextFields ==
  ASSUME NEW row
  PROVE  /\ HostContext(row).cluster = cluster.status
         /\ HostContext(row).speed = row.speed /\ HostContext(row).images = row.images
         /\ ~HostContext(row).day2
         /\ HostContext(row).inv <=> row.inventory # "none"
         /\ HostContext(row).full
  BY DEF HostContext

\* A refresh of a host that is stored, in the terms of its row.
HostMoveIsSafe(h, r) ==
  /\ r.to \in HostStatus /\ r.post \in HostPost
  /\ r.to \in Installing /\ host[h].status \notin Installing =>
       host[h].status = "preparing-successful" /\ cluster.status = "installing"
  /\ r.to = "installed" => host[h].status = "installed"
  /\ r.to = "preparing-successful" /\ host[h].status # "preparing-successful" =>
       host[h].status = "preparing-for-installation" /\ host[h].speed = "ok" /\ host[h].images = "ok"
  /\ host[h].status = "error" => r.to = "error"
  /\ r.post = "recheck-images" => r.to = "preparing-for-installation"

\* HostRefreshIsSafe, of the rows of this module.
LEMMA RefreshHostSafe ==
  ASSUME TypeOK, NEW h \in Hosts, NEW r \in RefreshHost(h)
  PROVE  HostMoveIsSafe(h, r)
<1>1. r \in Runs(HostRefreshRules(HostContext(host[h])), host[h].status)
  BY DEF RefreshHost
<1>2. host[h].status \in HostStatus
  BY DEF TypeOK, HostRow
<1>3. HostRuleIsSafe(HostContext(host[h]), r, host[h].status)
  BY <1>1, <1>2, HostRefreshIsSafe
<1>. QED BY <1>3, HostContextFields DEF HostRuleIsSafe, HostMoveIsSafe

\* ClusterRefreshIsSafe, of the rows of this module.
LEMMA RefreshClusterSafe ==
  ASSUME TypeOK, NEW hs, NEW r \in RefreshCluster(hs)
  PROVE  /\ r.to \in ClusterStatus /\ r.post \in ClusterPost
         /\ cluster.status \in {"installed", "error", "cancelled"} => r.to = cluster.status
         /\ cluster.status \in InstallationPhase => r.to \in InstallationPhase
         /\ r.to = "cancelled" => cluster.status = "cancelled"
         /\ cluster.status \in ClusterDiscovery => r.to \in ClusterDiscovery
<1>1. r \in Runs(ClusterRefreshRules(ClusterContext(cluster, hs)), cluster.status)
  BY DEF RefreshCluster
<1>2. cluster.status \in ClusterStatus
  BY DEF TypeOK, ClusterRow
<1>3. ClusterRuleIsSafe(ClusterContext(cluster, hs), r, cluster.status)
  BY <1>1, <1>2, ClusterRefreshIsSafe
<1>. QED BY <1>3 DEF ClusterRuleIsSafe, InstallationPhase

\* What the monitors plan, as long as the plan is not carried out.
HostPlanIsSafe(p) ==
  /\ p.to \in Installing => p.from \in Installing \cup {"preparing-successful"}
  /\ p.to = "installed" => p.from = "installed"
  /\ p.to = "preparing-successful" =>
       p.from \in {"preparing-for-installation", "preparing-successful"}
  /\ p.from = "error" => p.to = "error"
  /\ p.post = "recheck-images" => p.to = "preparing-for-installation"

ClusterPlanIsSafe(p) ==
  /\ p.from \notin {"installed", "error", "cancelled"} /\ p.to # "cancelled"
  /\ p.from \in InstallationPhase => p.to \in InstallationPhase
  /\ p.from \in ClusterDiscovery => p.to \in ClusterDiscovery

\* What the host monitor plans is safe when it plans it, and has the lasting shape.
LEMMA HostPlansSafe ==
  ASSUME TypeOK, NEW h \in Hosts, NEW p \in HostPlans(h)
  PROVE  /\ p \in HostPlan /\ HostPlanIsSafe(p) /\ p.from = host[h].status
         /\ HostMoveIsSafe(h, p)
<1>1. PICK r \in RefreshHost(h) :
        p = [pc |-> "write", from |-> host[h].status, to |-> r.to, post |-> r.post]
  BY DEF HostPlans
<1>2. HostMoveIsSafe(h, r)
  BY RefreshHostSafe
<1>3. host[h].status \in HostStatus
  BY DEF TypeOK, HostRow
<1>4. p.from = host[h].status /\ p.to = r.to /\ p.post = r.post /\ p.pc = "write"
  BY <1>1
<1>5. p \in HostPlan
  BY <1>1, <1>2, <1>3 DEF HostPlan, HostMoveIsSafe
<1>6. HostMoveIsSafe(h, p)
  BY <1>2, <1>4 DEF HostMoveIsSafe
<1>7. HostPlanIsSafe(p)
  BY <1>4, <1>6 DEF HostPlanIsSafe, HostMoveIsSafe
<1>. QED BY <1>4, <1>5, <1>6, <1>7

\* The same of the cluster monitor.
LEMMA ClusterPlansSafe ==
  ASSUME TypeOK, NEW p \in ClusterPlans
  PROVE  p \in ClusterPlan /\ ClusterPlanIsSafe(p)
<1>1. PICK r \in RefreshCluster(Statuses) :
        /\ r.to # cluster.status
        /\ p = [pc |-> "write", from |-> cluster.status, to |-> r.to, post |-> r.post]
  BY DEF ClusterPlans
<1>2. cluster.status \in ClusterStatus
  BY DEF TypeOK, ClusterRow
<1>3. p.from = cluster.status /\ p.to = r.to
  BY <1>1
<1>4. p \in ClusterPlan
  BY <1>1, <1>2, RefreshClusterSafe DEF ClusterPlan
<1>5. ClusterPlanIsSafe(p)
  BY <1>1, <1>3, RefreshClusterSafe DEF ClusterPlanIsSafe
<1>. QED BY <1>4, <1>5
----------------------------------------------------------------------------
(* Types *)

\* Disturbances stay within their bound.
LEMMA DisturbedType ==
  ASSUME TypeOK, NEW kind, Disturb(kind)
  PROVE  disturbed' \in 0..MaxDisturbances
<1>1. disturbed \in 0..MaxDisturbances
  BY DEF TypeOK
<1>. QED BY <1>1 DEF Disturb

\* Every value that a handler of reports may have.
Reports == StageReport \cup {NoReport, AfterStage}

\* What a handler has yet to write tells the two writes apart.
LEMMA ReportFields ==
  ASSUME NEW r \in Reports
  PROVE  /\ r.pc = "write" => r.to \in HostStage
         /\ r.pc = "commit" => r.status \in Installing /\ r.to \in Installing \cup {"installed"}
<1>1. NoReport.pc = "none" /\ AfterStage.pc = "run"
  BY DEF NoReport, AfterStage
<1>2. CASE r \in [pc : {"write"}, status : Installing, to : HostStage]
  BY <1>2
<1>3. CASE r \in [pc : {"commit"}, status : Installing, to : Installing \cup {"installed"}]
  BY <1>3
<1>. QED BY <1>1, <1>2, <1>3 DEF Reports, StageReport

\* The idle and the named steps of the monitors are no planned writes.
LEMMA PlainPlans ==
  /\ NoPlan.pc = "idle"
  /\ At("mark-failed").pc = "mark-failed"
  /\ At("retrigger").pc = "retrigger"
  /\ At("reload").pc = "reload"
  BY DEF NoPlan, At

\* Replacing one field of a row by a value of its type keeps it a row.
LEMMA HostFieldTypes ==
  ASSUME NEW row \in HostRow
  PROVE  /\ \A b \in BOOLEAN : [row EXCEPT !.conn = b] \in HostRow
         /\ [row EXCEPT !.media = TRUE] \in HostRow
         /\ \A i \in {"none", "poor", "good"} : [row EXCEPT !.inventory = i] \in HostRow
         /\ \A v \in Verdict : [row EXCEPT !.images = v] \in HostRow
         /\ \A v \in Verdict : [row EXCEPT !.speed = v] \in HostRow
         /\ [row EXCEPT !.late = TRUE] \in HostRow
         /\ \A st \in HostStage :
              [row EXCEPT !.stage = st, !.late = FALSE, !.stuck = FALSE] \in HostRow
  BY DEF HostRow

\* The new cluster and its hosts have their types.
LEMMA TypeInit == Init => TypeOK
<1>. SUFFICES ASSUME Init PROVE TypeOK
  OBVIOUS
<1>1. cluster \in ClusterRow
  BY DEF Init, NewCluster, ClusterRow, ClusterStatus, ClusterDiscovery, PreparationStatus
<1>2. host \in [Hosts -> HostRow]
  BY HostStageValues DEF Init, NewHost, HostRow, HostStatus, Discovery, Verdict
<1>3. hmon \in [Hosts -> HostPlan \cup {NoPlan}]
  BY DEF Init
<1>4. report \in [Hosts -> StageReport \cup {NoReport, AfterStage}]
  BY DEF Init
<1>5. job \in [1..MaxAttempts -> JobState]
  BY DEF Init, JobState
<1>6. attempt \in 0..MaxAttempts /\ disturbed \in 0..MaxDisturbances /\ cmon = NoPlan
  BY DEF Init
<1>. QED BY <1>1, <1>2, <1>3, <1>4, <1>5, <1>6 DEF TypeOK

\* What a step of the machines of one host does keeps its row a row.
LEMMA HostType ==
  ASSUME TypeOK, NEW h \in Hosts, NEW row \in HostRow, host' = [host EXCEPT ![h] = row]
  PROVE  host' \in [Hosts -> HostRow]
  BY DEF TypeOK

\* Every action keeps every type.
LEMMA TypeStep == TypeOK /\ [Next]_vars => TypeOK'
<1>. SUFFICES ASSUME TypeOK, [Next]_vars PROVE TypeOK'
  OBVIOUS
<1>0. /\ cluster \in ClusterRow /\ cluster.status \in ClusterStatus
      /\ \A h \in Hosts : host[h] \in HostRow /\ host[h].status \in HostStatus
  BY DEF TypeOK, ClusterRow, HostRow
<1>1. CASE Install
  <2>1. PICK r \in Runs(PrepareForInstallationRules, cluster.status) :
          cluster' = [Moved(cluster, r.to) EXCEPT !.prep = "not_started", !.overdue = FALSE]
    BY <1>1 DEF Install
  <2>2. Moved(cluster, r.to) \in ClusterRow
    BY <1>0, ClusterRequestsSafe, MovedClusterType DEF ClusterStatus
  <2>3. cluster' \in ClusterRow
    BY <2>1, <2>2 DEF ClusterRow, PreparationStatus
  <2>4. attempt \in 0..MaxAttempts /\ job \in [1..MaxAttempts -> JobState]
    BY DEF TypeOK
  <2>5. attempt' \in 0..MaxAttempts /\ job' \in [1..MaxAttempts -> JobState]
    BY <1>1, <2>4 DEF Install, JobState
  <2>. QED BY <1>1, <2>3, <2>5 DEF TypeOK, Install
<1>2. CASE CancelInstallation
  <2>1. cluster' \in ClusterRow
    BY <1>0, <1>2, ClusterRequestsSafe, MovedClusterType DEF CancelInstallation, ClusterStatus, ClusterDiscovery
  <2>2. PICK f \in [Hosts -> HostCancelRules] :
          /\ \A h \in Hosts : f[h] \in Runs(HostCancelRules, host[h].status)
          /\ host' = [h \in Hosts |-> Moved(host[h], f[h].to)]
    BY <1>2 DEF CancelInstallation
  <2>3. \A h \in Hosts : f[h].to \in HostStatus
    BY <2>2, HostRequestsSafe DEF HostStatus, Discovery
  <2>4. host' \in [Hosts -> HostRow]
    BY <1>0, <2>2, <2>3, MovedHostType
  <2>. QED BY <1>2, <2>1, <2>4, DisturbedType DEF TypeOK, CancelInstallation
<1>3. CASE ResetCluster
  <2>1. PICK r \in Runs(ClusterResetRules, cluster.status) :
          cluster' = [Moved(cluster, r.to) EXCEPT !.prep = "not_started", !.kubeconfig = FALSE]
    BY <1>3 DEF ResetCluster
  <2>2. Moved(cluster, r.to) \in ClusterRow
    BY <1>0, ClusterRequestsSafe, MovedClusterType DEF ClusterStatus, ClusterDiscovery
  <2>3. cluster' \in ClusterRow
    BY <2>1, <2>2 DEF ClusterRow, PreparationStatus
  <2>4. PICK f \in [Hosts -> HostResetRules] :
          /\ \A h \in Hosts : f[h] \in Runs(HostResetRules, host[h].status)
          /\ host' = [h \in Hosts |-> Moved(host[h], f[h].to)]
    BY <1>3 DEF ResetCluster
  <2>5. \A h \in Hosts : f[h].to \in HostStatus
    BY <2>4, HostRequestsSafe DEF HostStatus
  <2>6. host' \in [Hosts -> HostRow]
    BY <1>0, <2>4, <2>5, MovedHostType
  <2>. QED BY <1>3, <2>3, <2>6, DisturbedType DEF TypeOK, ResetCluster
<1>4. ASSUME NEW h \in Hosts, UpdateHost(h) PROVE TypeOK'
  <2>1. PICK r \in RefreshHost(h) : host' = [host EXCEPT ![h] = Refreshed(host[h], r)]
    BY <1>4 DEF UpdateHost
  <2>2. host' \in [Hosts -> HostRow]
    BY <1>0, <2>1, RefreshHostSafe, RefreshedType, HostType DEF HostMoveIsSafe
  <2>3. PICK q \in RefreshCluster([g \in Hosts |-> host'[g].status]) : cluster' = Moved(cluster, q.to)
    BY <1>4 DEF UpdateHost
  <2>4. cluster' \in ClusterRow
    BY <1>0, <2>3, RefreshClusterSafe, MovedClusterType
  <2>. QED BY <1>4, <2>2, <2>4, DisturbedType DEF TypeOK, UpdateHost
<1>5. ASSUME NEW a \in 1..MaxAttempts, Job(a) PROVE TypeOK'
  <2>1. job' \in [1..MaxAttempts -> JobState]
    BY <1>5 DEF TypeOK, Job, Launch, LaunchFails, HandlePreInstallSuccess, HandlePreInstallError, JobState
  <2>2. cluster' \in ClusterRow
    BY <1>0, <1>5 DEF Job, Launch, LaunchFails, HandlePreInstallSuccess, HandlePreInstallError,
         ClusterRow, PreparationStatus
  <2>3. disturbed' \in 0..MaxDisturbances
    BY <1>5, DisturbedType DEF TypeOK, Job, Launch, LaunchFails, HandlePreInstallSuccess,
         HandlePreInstallError
  <2>. QED BY <1>5, <2>1, <2>2, <2>3 DEF TypeOK, Job, Launch, LaunchFails,
              HandlePreInstallSuccess, HandlePreInstallError
<1>6. CASE Restart
  <2>1. job' \in [1..MaxAttempts -> JobState]
    BY <1>6 DEF TypeOK, Restart, JobState
  <2>2. /\ hmon' \in [Hosts -> HostPlan \cup {NoPlan}]
        /\ report' \in [Hosts -> Reports]
    BY <1>6 DEF Restart, Reports
  <2>. QED BY <1>6, <2>1, <2>2, DisturbedType DEF TypeOK, Restart, Reports
<1>7. CASE HMonRead
  <2>1. \A h \in Hosts : HostPlans(h) \subseteq HostPlan
    BY HostPlansSafe
  <2>2. hmon' = [h \in Hosts |-> IF HostPlans(h) = {} THEN NoPlan
                                 ELSE CHOOSE p \in HostPlans(h) : TRUE]
    BY <1>7 DEF HMonRead
  <2>3. \A h \in Hosts : HostPlans(h) # {} => (CHOOSE p \in HostPlans(h) : TRUE) \in HostPlans(h)
    OBVIOUS
  <2>4. hmon' \in [Hosts -> HostPlan \cup {NoPlan}]
    BY <2>1, <2>2, <2>3
  <2>. QED BY <1>7, <2>4 DEF TypeOK, HMonRead
<1>8. ASSUME NEW h \in Hosts, HMonWrite(h) PROVE TypeOK'
  <2>1. hmon[h] \in HostPlan
    <3>1. hmon[h] \in HostPlan \cup {NoPlan} /\ hmon[h].pc = "write"
      BY <1>8 DEF TypeOK, HMonWrite
    <3>. QED BY <3>1, PlainPlans
  <2>2. hmon[h].to \in HostStatus
    BY <2>1 DEF HostPlan
  <2>3. host' \in [Hosts -> HostRow]
    BY <1>0, <1>8, <2>2, RefreshedType, HostType DEF HMonWrite, TypeOK
  <2>4. hmon' \in [Hosts -> HostPlan \cup {NoPlan}]
    BY <1>8 DEF HMonWrite, TypeOK
  <2>. QED BY <1>8, <2>3, <2>4 DEF TypeOK, HMonWrite
<1>9. CASE CMonRead
  <2>1. cmon' \in ClusterPlans \cup {At("retrigger")}
    BY <1>9 DEF CMonRead
  <2>2. cmon' \in ClusterPlan \cup {At("retrigger")}
    BY <2>1, ClusterPlansSafe
  <2>. QED BY <1>9, <2>2 DEF TypeOK, CMonRead
<1>10. CASE CMonWrite
  <2>1. cmon \in ClusterPlan
    <3>1. /\ cmon \in ClusterPlan \cup {NoPlan, At("mark-failed"), At("retrigger"), At("reload")}
          /\ cmon.pc = "write"
      BY <1>10 DEF TypeOK, CMonWrite
    <3>. QED BY <3>1, PlainPlans
  <2>2. cmon.to \in ClusterStatus
    BY <2>1 DEF ClusterPlan
  <2>3. cluster' \in ClusterRow
    BY <1>0, <1>10, <2>2, MovedClusterType DEF CMonWrite
  <2>4. cmon' \in {NoPlan, At("mark-failed")}
    BY <1>10 DEF CMonWrite
  <2>. QED BY <1>10, <2>3, <2>4 DEF TypeOK, CMonWrite
<1>11. CASE CMonInstallFails
  BY <1>11, DisturbedType DEF TypeOK, CMonInstallFails
<1>12. CASE CMonMarkFailed \/ CMonRetrigger
  <2>1. cluster' \in ClusterRow
    BY <1>0, <1>12 DEF CMonMarkFailed, CMonRetrigger, ClusterRow, PreparationStatus
  <2>. QED BY <1>12, <2>1 DEF TypeOK, CMonMarkFailed, CMonRetrigger
<1>13. CASE CMonReload
  <2>1. cmon' \in ClusterPlans \cup {NoPlan}
    BY <1>13 DEF CMonReload
  <2>2. cmon' \in ClusterPlan \cup {NoPlan}
    BY <2>1, ClusterPlansSafe
  <2>. QED BY <1>13, <2>2 DEF TypeOK, CMonReload
<1>14. ASSUME NEW h \in Hosts, CheckIn(h) \/ AgentSilent(h) \/ MediaConnected(h) PROVE TypeOK'
  <2>1. host' \in [Hosts -> HostRow]
    BY <1>0, <1>14, HostFieldTypes, HostType DEF CheckIn, AgentSilent, MediaConnected
  <2>. QED BY <1>14, <2>1, DisturbedType DEF TypeOK, CheckIn, AgentSilent, MediaConnected
<1>15. ASSUME NEW h \in Hosts, RegisterHost(h) PROVE TypeOK'
  <2>1. PICK r \in Runs(RegisterHostRules(HostContext(host[h])), host[h].status) :
          /\ host' = [host EXCEPT ![h] = Registered(host[h], r)]
          /\ cluster' = IF r.post = "restart-preparing"
                        THEN [cluster EXCEPT !.prep = "not_started"] ELSE cluster
    BY <1>15 DEF RegisterHost
  <2>2. r.to \in HostStatus
    BY <1>0, HostContextFields, RegisterHostSafe
  <2>3. host' \in [Hosts -> HostRow]
    BY <1>0, <2>1, <2>2, RegisteredType, HostType
  <2>4. cluster' \in ClusterRow
    BY <1>0, <2>1 DEF ClusterRow, PreparationStatus
  <2>. QED BY <1>15, <2>3, <2>4, DisturbedType DEF TypeOK, RegisterHost
<1>16. ASSUME NEW h \in Hosts, MediaDisconnected(h) PROVE TypeOK'
  <2>1. PICK r \in Runs(MediaDisconnectRules, host[h].status) :
          host' = [host EXCEPT ![h] = [Moved(host[h], r.to) EXCEPT !.media = FALSE]]
    BY <1>16 DEF MediaDisconnected
  <2>2. Moved(host[h], r.to) \in HostRow
    BY <1>0, HostRequestsSafe, MovedHostType DEF HostStatus, Discovery
  <2>3. [Moved(host[h], r.to) EXCEPT !.media = FALSE] \in HostRow
    BY <2>2 DEF HostRow
  <2>4. host' \in [Hosts -> HostRow]
    BY <2>1, <2>3, HostType
  <2>. QED BY <1>16, <2>4, DisturbedType DEF TypeOK, MediaDisconnected
<1>17. ASSUME NEW h \in Hosts,
              \/ PostInventory(h) \/ PostPoorInventory(h) \/ PostImages(h) \/ PostDiskSpeed(h)
              \/ PostBadCheck(h)
       PROVE  TypeOK'
  <2>1. host' \in [Hosts -> HostRow]
    BY <1>0, <1>17, HostFieldTypes, HostType DEF PostInventory, PostPoorInventory, PostImages,
         PostDiskSpeed, PostBadCheck, Verdict
  <2>. QED BY <1>17, <2>1, DisturbedType DEF TypeOK, PostInventory, PostPoorInventory, PostImages,
              PostDiskSpeed, PostBadCheck
<1>18. ASSUME NEW h \in Hosts, InstallCommandFails(h) PROVE TypeOK'
  <2>1. host' \in [Hosts -> HostRow]
    <3>1. PICK r \in Runs(HostInstallationFailedRules, host[h].status) :
            host' = [host EXCEPT ![h] = Moved(host[h], r.to)]
      BY <1>18 DEF InstallCommandFails
    <3>2. r.to \in HostStatus
      BY HostRequestsSafe DEF HostStatus
    <3>. QED BY <1>0, <3>1, <3>2, MovedHostType, HostType
  <2>. QED BY <1>18, <2>1, DisturbedType DEF TypeOK, InstallCommandFails
<1>19. ASSUME NEW h \in Hosts, ReportStage(h) PROVE TypeOK'
  <2>1. report' \in [Hosts -> Reports]
    <3>1. PICK stage \in HostStage :
            report' = [report EXCEPT ![h] = [pc |-> "write", status |-> host[h].status, to |-> stage]]
      BY <1>19 DEF ReportStage
    <3>2. [pc |-> "write", status |-> host[h].status, to |-> stage] \in Reports
      BY <1>19 DEF ReportStage, Reports, StageReport
    <3>. QED BY <3>1, <3>2 DEF TypeOK, Reports
  <2>. QED BY <1>19, <2>1 DEF TypeOK, ReportStage, Reports
<1>20. ASSUME NEW h \in Hosts, WriteStage(h) PROVE TypeOK'
  <2>1. report[h].to \in HostStage
    BY <1>20, ReportFields DEF TypeOK, Reports, WriteStage
  <2>2. host' \in [Hosts -> HostRow]
    BY <1>0, <1>20, <2>1, HostFieldTypes, HostType DEF TypeOK, WriteStage
  <2>3. report' \in [Hosts -> Reports]
    BY <1>20 DEF TypeOK, WriteStage, Reports
  <2>. QED BY <1>20, <2>2, <2>3 DEF TypeOK, WriteStage, Reports
<1>21. ASSUME NEW h \in Hosts, HostProgress(h) PROVE TypeOK'
  <2>1. ASSUME NEW r \in Runs(HostProgressRules(HostContext(host[h])), host[h].status),
               r.post # "none"
        PROVE  [pc |-> "commit", status |-> host[h].status, to |-> r.to] \in Reports
    BY <1>0, <2>1, HostContextFields, HostProgressSafe DEF Reports, StageReport
  <2>2. report' \in [Hosts -> Reports]
    BY <1>21, <2>1 DEF TypeOK, HostProgress, Reports
  <2>. QED BY <1>21, <2>2 DEF TypeOK, HostProgress, Reports
<1>22. ASSUME NEW h \in Hosts, CommitProgress(h) PROVE TypeOK'
  <2>1. report[h].to \in HostStatus
    BY <1>22, ReportFields DEF TypeOK, Reports, CommitProgress, HostStatus
  <2>2. host' \in [Hosts -> HostRow]
    BY <1>0, <1>22, <2>1, MovedHostType, HostType DEF CommitProgress, TypeOK
  <2>3. report' \in [Hosts -> Reports]
    BY <1>22 DEF TypeOK, CommitProgress, Reports
  <2>. QED BY <1>22, <2>2, <2>3 DEF TypeOK, CommitProgress, Reports
<1>23. ASSUME NEW h \in Hosts, ReportFailed(h) PROVE TypeOK'
  <2>1. host' \in [Hosts -> HostRow]
    BY <1>0, <1>23, MovedHostType, HostType DEF ReportFailed, HostStatus
  <2>. QED BY <1>23, <2>1, DisturbedType DEF TypeOK, ReportFailed
<1>24. CASE Controller
  <2>1. attempt \in 0..MaxAttempts
    BY DEF TypeOK
  <2>2. cluster' \in ClusterRow
    <3>1. attempt \in 0..MaxAttempts /\ 0 \in 0..MaxAttempts
      BY <2>1
    <3>2. CASE ReportOperators
      BY <1>0, <3>1, <3>2 DEF ReportOperators, ClusterRow
    <3>3. CASE OperatorFails
      BY <1>0, <3>1, <3>3 DEF OperatorFails, ClusterRow
    <3>4. CASE UploadIngressCert
      BY <1>0, <3>4 DEF UploadIngressCert, ClusterRow
    <3>. QED BY <1>24, <3>2, <3>3, <3>4 DEF Controller
  <2>. QED BY <1>24, <2>2, DisturbedType
       DEF TypeOK, Controller, ReportOperators, OperatorFails, UploadIngressCert
<1>25. CASE ClusterTimesOut \/ InstallationTimesOut
  <2>1. cluster' \in ClusterRow
    BY <1>0, <1>25 DEF ClusterTimesOut, InstallationTimesOut, ClusterRow
  <2>. QED BY <1>25, <2>1 DEF TypeOK, ClusterTimesOut, InstallationTimesOut
<1>26. ASSUME NEW h \in Hosts, HostTimesOut(h) PROVE TypeOK'
  <2>1. host' \in [Hosts -> HostRow]
    BY <1>0, <1>26, HostFieldTypes, HostType DEF HostTimesOut
  <2>. QED BY <1>26, <2>1 DEF TypeOK, HostTimesOut
<1>27. CASE UNCHANGED vars
  BY <1>27 DEF TypeOK, vars
<1>. QED
  BY <1>1, <1>2, <1>3, <1>4, <1>5, <1>6, <1>7, <1>8, <1>9, <1>10, <1>11, <1>12, <1>13, <1>14, <1>15,
     <1>16, <1>17, <1>18, <1>19, <1>20, <1>21, <1>22, <1>23, <1>24, <1>25, <1>26, <1>27
  DEF Next, User, HostMonitor, ClusterMonitor, Agent, Time

\* No request, monitor, goroutine or agent ever takes a row out of the statuses
\* and values the code knows (TypeOK), however many hosts and installations.
THEOREM TypeCorrect == Spec => []TypeOK
  BY TypeInit, TypeStep, PTL DEF Spec
----------------------------------------------------------------------------
(* Totality *)

\* Whatever happened, the monitors find a rule for every row but the two kinds
\* of host that RefreshIsDefined excepts.
THEOREM RefreshAlwaysDefined == Spec => []RefreshIsDefined
<1>1. ASSUME TypeOK PROVE RefreshIsDefined
  <2>1. Matching(ClusterRefreshRules(ClusterContext(cluster, Statuses)), cluster.status) # {}
    <3>1. cluster.status \in ClusterStatus
      BY <1>1 DEF TypeOK, ClusterRow
    <3>. QED BY <3>1, ClusterRefreshIsTotal
  <2>2. ASSUME NEW h \in Hosts,
               ~(host[h].status = "preparing-failed" /\ cluster.status = "preparing-for-installation"),
               ~(host[h].status \in Discovery /\ host[h].inventory = "none")
        PROVE  Matching(HostRefreshRules(HostContext(host[h])), host[h].status) # {}
    <3>. DEFINE x == HostContext(host[h])
    <3>1. /\ host[h].status \in HostStatus
          /\ host[h].speed \in {"ok", "unknown", "bad"} /\ host[h].images \in {"ok", "unknown", "bad"}
      BY <1>1 DEF TypeOK, HostRow, Verdict
    <3>2. /\ x.cluster = cluster.status /\ ~x.day2 /\ x.full
          /\ x.speed = host[h].speed /\ x.images = host[h].images
          /\ x.inv <=> host[h].inventory # "none"
      BY HostContextFields
    <3>. HIDE DEF x
    <3>3. host[h].status = "preparing-failed" => ~ClusterPreparing(x)
      BY <2>2, <3>2 DEF ClusterPreparing
    <3>4. host[h].status \in {"insufficient", "known", "pending-for-input"} => ValidInventory(x)
      BY <2>2, <3>2 DEF ValidInventory, Discovery
    <3>5. Matching(HostRefreshRules(x), host[h].status) # {}
      BY <3>1, <3>2, <3>3, <3>4, HostRefreshIsTotal
    <3>. QED BY <3>5 DEF x
  <2>. QED BY <2>1, <2>2 DEF RefreshIsDefined
<1>. QED BY <1>1, TypeCorrect, PTL

----------------------------------------------------------------------------
(* Plans that are not carried out yet *)

PlansSafe ==
  /\ \A h \in Hosts : hmon[h].pc = "write" => HostPlanIsSafe(hmon[h])
  /\ cmon.pc = "write" => ClusterPlanIsSafe(cmon)

\* What a step does to the plan of a host.
PlanOutcome(h) ==
  \/ hmon'[h] = hmon[h]
  \/ hmon'[h] = NoPlan
  \/ hmon'[h] \in HostPlans(h) /\ host' = host /\ cluster' = cluster

\* A step leaves the plan for a host, drops it, or makes it on the rows of that step.
LEMMA PlanOutcomes ==
  ASSUME TypeOK, [Next]_vars, NEW h \in Hosts
  PROVE  PlanOutcome(h)
<1>0. hmon \in [Hosts -> HostPlan \cup {NoPlan}]
  BY DEF TypeOK
<1>1. CASE HMonRead
  <2>1. hmon'[h] = IF HostPlans(h) = {} THEN NoPlan ELSE CHOOSE p \in HostPlans(h) : TRUE
    BY <1>1 DEF HMonRead
  <2>. QED BY <1>1, <2>1 DEF PlanOutcome, HMonRead
<1>2. ASSUME NEW g \in Hosts, HMonWrite(g) PROVE PlanOutcome(h)
  BY <1>0, <1>2 DEF HMonWrite, PlanOutcome
<1>3. CASE Restart
  BY <1>3 DEF Restart, PlanOutcome
<1>4. CASE UNCHANGED hmon
  BY <1>4 DEF PlanOutcome
<1>5. User \/ ClusterMonitor \/ Controller \/ Time => UNCHANGED hmon
  BY DEF User, Install, CancelInstallation, ResetCluster, UpdateHost, ClusterMonitor, CMonRead,
     CMonWrite, CMonInstallFails, CMonMarkFailed, CMonRetrigger, CMonReload, Controller,
     ReportOperators, OperatorFails, UploadIngressCert, Time, ClusterTimesOut, InstallationTimesOut, HostTimesOut
<1>6. \A a \in 1..MaxAttempts : Job(a) => UNCHANGED hmon
  BY DEF Job, Launch, LaunchFails, HandlePreInstallSuccess, HandlePreInstallError
<1>7. \A g \in Hosts : Agent(g) => UNCHANGED hmon
  BY DEF Agent, CheckIn, AgentSilent, RegisterHost, MediaDisconnected, MediaConnected, PostInventory,
     PostPoorInventory, PostImages, PostDiskSpeed, PostBadCheck, InstallCommandFails, ReportStage,
     WriteStage, HostProgress, CommitProgress, ReportFailed
<1>. QED
  BY <1>1, <1>2, <1>3, <1>4, <1>5, <1>6, <1>7 DEF Next, HostMonitor, vars

\* A step leaves the cluster monitor's plan, makes it, or turns to a plain step.
LEMMA ClusterPlanOutcomes ==
  ASSUME TypeOK, [Next]_vars
  PROVE  \/ cmon' = cmon
         \/ cmon' \in ClusterPlans /\ host' = host /\ cluster' = cluster
         \/ cmon' \in {NoPlan, At("mark-failed"), At("retrigger"), At("reload")}
<1>1. CASE ClusterMonitor
  BY <1>1 DEF ClusterMonitor, CMonRead, CMonWrite, CMonInstallFails, CMonMarkFailed, CMonRetrigger,
     CMonReload
<1>2. CASE Restart
  BY <1>2 DEF Restart
<1>3. CASE UNCHANGED cmon
  BY <1>3
<1>4. User \/ HostMonitor \/ Controller \/ Time => UNCHANGED cmon
  BY DEF User, Install, CancelInstallation, ResetCluster, UpdateHost, HostMonitor, HMonRead, HMonWrite,
     Controller, ReportOperators, OperatorFails, UploadIngressCert, Time, ClusterTimesOut, InstallationTimesOut,
     HostTimesOut
<1>5. \A a \in 1..MaxAttempts : Job(a) => UNCHANGED cmon
  BY DEF Job, Launch, LaunchFails, HandlePreInstallSuccess, HandlePreInstallError
<1>6. \A g \in Hosts : Agent(g) => UNCHANGED cmon
  BY DEF Agent, CheckIn, AgentSilent, RegisterHost, MediaDisconnected, MediaConnected, PostInventory,
     PostPoorInventory, PostImages, PostDiskSpeed, PostBadCheck, InstallCommandFails, ReportStage,
     WriteStage, HostProgress, CommitProgress, ReportFailed
<1>. QED BY <1>1, <1>2, <1>3, <1>4, <1>5, <1>6 DEF Next, vars

\* Nothing is planned at first.
LEMMA PlansInit == Init => PlansSafe
  BY PlainPlans DEF Init, PlansSafe

\* Plans keep the shape of a safe plan until they are carried out or dropped.
LEMMA PlansStep == TypeOK /\ PlansSafe /\ [Next]_vars => PlansSafe'
<1>. SUFFICES ASSUME TypeOK, PlansSafe, [Next]_vars PROVE PlansSafe'
  OBVIOUS
<1>1. ASSUME NEW h \in Hosts, hmon'[h].pc = "write" PROVE HostPlanIsSafe(hmon'[h])
  BY <1>1, PlanOutcomes, HostPlansSafe, PlainPlans DEF PlansSafe, PlanOutcome
<1>2. ASSUME cmon'.pc = "write" PROVE ClusterPlanIsSafe(cmon')
  BY <1>2, ClusterPlanOutcomes, ClusterPlansSafe, PlainPlans DEF PlansSafe
<1>. QED BY <1>1, <1>2 DEF PlansSafe, HostPlanIsSafe, ClusterPlanIsSafe
----------------------------------------------------------------------------
(* What a step does to a host and to the cluster *)

\* A new status leaves the verdicts of the checks alone.
LEMMA MovedFields ==
  ASSUME NEW row \in HostRow, NEW s \in HostStatus
  PROVE  /\ Moved(row, s).status = s
         /\ Moved(row, s).images = row.images /\ Moved(row, s).speed = row.speed
  BY DEF HostRow, Moved

\* What a refresh writes to the status and the verdicts of a host.
LEMMA RefreshedFields ==
  ASSUME NEW row \in HostRow, NEW r, r.to \in HostStatus
  PROVE  /\ Refreshed(row, r).status = r.to /\ Refreshed(row, r).speed = row.speed
         /\ r.post # "recheck-images" => Refreshed(row, r).images = row.images
<1>. DEFINE lost == (row.lost \/ r.post = "lost") /\ r.post # "found"
            stuck == row.stuck \/ r.post = "stuck"
            late == IF r.to = row.status THEN row.late /\ r.post # "touch-stage" ELSE FALSE
            images == IF r.post = "recheck-images" THEN "unknown" ELSE row.images
<1>1. Refreshed(row, r) = [Moved(row, r.to) EXCEPT !.images = images, !.lost = lost,
                                                  !.stuck = stuck, !.late = late]
  BY DEF Refreshed
<1>2. r.post # "recheck-images" => images = row.images
  OBVIOUS
<1>3. /\ Moved(row, r.to) \in HostRow
      /\ Moved(row, r.to).status = r.to /\ Moved(row, r.to).speed = row.speed
  BY MovedHostType, MovedFields
<1>. HIDE DEF lost, stuck, late, images
<1>. QED BY <1>1, <1>2, <1>3 DEF HostRow

\* What a registration writes to the status and the verdicts of a host.
LEMMA RegisteredFields ==
  ASSUME NEW row \in HostRow, NEW r, r.to \in HostStatus
  PROVE  /\ Registered(row, r).status = r.to /\ Registered(row, r).speed = row.speed
         /\ r.post \notin {"forget", "restart-preparing"} => Registered(row, r).images = row.images
  BY RegisteredType DEF HostRow, Registered, Moved

\* A disk that passed its check stays so.
SpeedStays(h) == host[h].speed = "ok" => host'[h].speed = "ok"

Answered(row) == row.images # "unknown"

\* The host keeps its status, and the answer it has.
Kept(h) ==
  host'[h].status = host[h].status /\ (Answered(host[h]) => Answered(host'[h]))

\* The host is, after the step, neither prepared nor installing; one in error is
\* so by a request that ends the error.
Withdrawn(h) ==
  /\ host'[h].status \notin Installing \cup {"installed", "preparing-for-installation",
                                            "preparing-successful"}
  /\ host[h].status = "error" =>
       host'[h].status \in {"error", "cancelled", "resetting-pending-user-action"}

\* The host goes on in its installation.
Advanced(h) ==
  /\ host[h].status \in Installing
  /\ host'[h].status \in Installing \cup {"installed"}
  /\ Answered(host[h]) => Answered(host'[h])

\* The monitor carries out its plan.
Monitored(h) ==
  /\ hmon[h].pc = "write" /\ hmon[h].from = host[h].status /\ hmon'[h] = NoPlan
  /\ host'[h] = Refreshed(host[h], hmon[h])

\* A request refreshes the host.
Updated(h) ==
  /\ "update" \in Disturbances
  /\ \E r : HostMoveIsSafe(h, r) /\ host'[h] = Refreshed(host[h], r)

HostOutcome(h) ==
  /\ SpeedStays(h)
  /\ Kept(h) \/ Withdrawn(h) \/ Advanced(h) \/ Monitored(h) \/ Updated(h)

\* A host that a step does not write is kept.
LEMMA UnchangedHostOutcome ==
  ASSUME NEW h \in Hosts, host'[h] = host[h]
  PROVE  HostOutcome(h)
  BY DEF HostOutcome, SpeedStays, Kept, Answered

\* Every step of the system does one of five things to each host, and none of them
\* forgets that its disk passed.
LEMMA HostOutcomes ==
  ASSUME TypeOK, [Next]_vars, NEW h \in Hosts
  PROVE  HostOutcome(h)
<1>0. /\ host \in [Hosts -> HostRow]
      /\ \A g \in Hosts : host[g] \in HostRow /\ host[g].status \in HostStatus
  BY DEF TypeOK, HostRow
<1>1. CASE UNCHANGED host
  BY <1>1, UnchangedHostOutcome
<1>2. CASE CancelInstallation
  <2>1. PICK f \in [Hosts -> HostCancelRules] :
          /\ \A g \in Hosts : f[g] \in Runs(HostCancelRules, host[g].status)
          /\ host' = [g \in Hosts |-> Moved(host[g], f[g].to)]
    BY <1>2 DEF CancelInstallation
  <2>2. f[h].to \in {"cancelled", "known"} /\ (host[h].status = "error" => f[h].to = "cancelled")
    BY <2>1, HostRequestsSafe
  <2>3. f[h].to \in HostStatus
    BY <2>2 DEF HostStatus, Discovery
  <2>4. host'[h].status = f[h].to /\ host'[h].speed = host[h].speed
    BY <1>0, <2>1, <2>3, MovedFields
  <2>. QED BY <2>2, <2>4 DEF HostOutcome, SpeedStays, Withdrawn, Installing
<1>3. CASE ResetCluster
  <2>1. PICK f \in [Hosts -> HostResetRules] :
          /\ \A g \in Hosts : f[g] \in Runs(HostResetRules, host[g].status)
          /\ host' = [g \in Hosts |-> Moved(host[g], f[g].to)]
    BY <1>3 DEF ResetCluster
  <2>2. f[h].to = "resetting-pending-user-action" /\ f[h].to \in HostStatus
    BY <2>1, HostRequestsSafe DEF HostStatus
  <2>3. host'[h].status = f[h].to /\ host'[h].speed = host[h].speed
    BY <1>0, <2>1, <2>2, MovedFields
  <2>. QED BY <2>2, <2>3 DEF HostOutcome, SpeedStays, Withdrawn, Installing
<1>4. ASSUME NEW g \in Hosts, UpdateHost(g) PROVE HostOutcome(h)
  <2>1. PICK r \in RefreshHost(g) : host' = [host EXCEPT ![g] = Refreshed(host[g], r)]
    BY <1>4 DEF UpdateHost
  <2>2. CASE h # g
    BY <1>0, <2>1, <2>2, UnchangedHostOutcome
  <2>3. CASE h = g
    <3>1. HostMoveIsSafe(h, r) /\ host'[h] = Refreshed(host[h], r) /\ "update" \in Disturbances
      BY <1>0, <1>4, <2>1, <2>3, RefreshHostSafe DEF UpdateHost, Disturb
    <3>2. host'[h].speed = host[h].speed
      BY <1>0, <3>1, RefreshedFields DEF HostMoveIsSafe
    <3>. QED BY <3>1, <3>2 DEF HostOutcome, SpeedStays, Updated
  <2>. QED BY <2>2, <2>3
<1>5. ASSUME NEW g \in Hosts, HMonWrite(g) PROVE HostOutcome(h)
  <2>1. CASE h # g
    BY <1>0, <1>5, <2>1, UnchangedHostOutcome DEF HMonWrite
  <2>2. CASE h = g /\ ~StatusAsLoaded(host[g], hmon[g].from)
    BY <1>5, <2>2, UnchangedHostOutcome DEF HMonWrite
  <2>3. CASE h = g /\ StatusAsLoaded(host[g], hmon[g].from)
    <3>1. Monitored(h)
      BY <1>0, <1>5, <2>3 DEF HMonWrite, Monitored, StatusAsLoaded, TypeOK
    <3>2. hmon[h] \in HostPlan
      <4>1. hmon[h] \in HostPlan \cup {NoPlan} /\ hmon[h].pc = "write"
        BY <3>1 DEF TypeOK, Monitored
      <4>. QED BY <4>1, PlainPlans
    <3>3. host'[h].speed = host[h].speed
      BY <1>0, <3>1, <3>2, RefreshedFields DEF Monitored, HostPlan
    <3>. QED BY <3>1, <3>3 DEF HostOutcome, SpeedStays
  <2>. QED BY <2>1, <2>2, <2>3
<1>6. ASSUME NEW g \in Hosts, RegisterHost(g) PROVE HostOutcome(h)
  <2>1. PICK r \in Runs(RegisterHostRules(HostContext(host[g])), host[g].status) :
          host' = [host EXCEPT ![g] = Registered(host[g], r)]
    BY <1>6 DEF RegisterHost
  <2>2. CASE h # g
    BY <1>0, <2>1, <2>2, UnchangedHostOutcome
  <2>3. CASE h = g
    <3>1. /\ r.to \in HostStatus \ {"installed", "preparing-successful", "preparing-for-installation"}
               \/ r.to = host[g].status
          /\ r.to \in Installing => host[g].status \in Installing
          /\ host[g].status = "error" => r.to = "error"
          /\ r.post \in {"forget", "restart-preparing"} => r.to \in {"known", "discovering"}
      BY <1>0, HostContextFields, RegisterHostSafe
    <3>2. r.to \in HostStatus /\ host'[h] = Registered(host[h], r)
      BY <1>0, <2>1, <2>3, <3>1
    <3>3. CASE r.to \in Installing
      BY <1>0, <2>3, <3>1, <3>2, <3>3, RegisteredFields DEF HostOutcome, SpeedStays, Advanced, Answered, Installing
    <3>4. CASE r.to \in {"installed", "preparing-successful", "preparing-for-installation"}
      BY <1>0, <2>3, <3>1, <3>2, <3>4, RegisteredFields DEF HostOutcome, SpeedStays, Kept, Answered
    <3>5. CASE r.to \notin Installing \cup {"installed", "preparing-successful",
                                            "preparing-for-installation"}
      BY <1>0, <2>3, <3>1, <3>2, <3>5, RegisteredFields DEF HostOutcome, SpeedStays, Withdrawn
    <3>. QED BY <3>3, <3>4, <3>5
  <2>. QED BY <2>2, <2>3
<1>7. ASSUME NEW g \in Hosts, MediaDisconnected(g) PROVE HostOutcome(h)
  <2>1. PICK r \in Runs(MediaDisconnectRules, host[g].status) :
          host' = [host EXCEPT ![g] = [Moved(host[g], r.to) EXCEPT !.media = FALSE]]
    BY <1>7 DEF MediaDisconnected
  <2>2. CASE h # g
    BY <1>0, <2>1, <2>2, UnchangedHostOutcome
  <2>3. CASE h = g
    <3>1. r.to \in {"disconnected", "error"} /\ (host[g].status = "error" => r.to = "error")
      BY HostRequestsSafe
    <3>2. /\ Moved(host[g], r.to) \in HostRow
          /\ Moved(host[g], r.to).status = r.to /\ Moved(host[g], r.to).speed = host[g].speed
      BY <1>0, <3>1, MovedHostType, MovedFields DEF HostStatus, Discovery
    <3>3. host'[h].status = r.to /\ host'[h].speed = host[h].speed
      BY <1>0, <2>1, <2>3, <3>2 DEF HostRow
    <3>. QED BY <2>3, <3>1, <3>3 DEF HostOutcome, SpeedStays, Withdrawn, Installing
  <2>. QED BY <2>2, <2>3
<1>8. ASSUME NEW g \in Hosts,
             \/ CheckIn(g) \/ AgentSilent(g) \/ MediaConnected(g) \/ PostInventory(g)
             \/ PostPoorInventory(g) \/ HostTimesOut(g)
      PROVE  HostOutcome(h)
  <2>1. /\ host'[h].status = host[h].status
        /\ host'[h].images = host[h].images /\ host'[h].speed = host[h].speed
    BY <1>0, <1>8 DEF CheckIn, AgentSilent, MediaConnected, PostInventory, PostPoorInventory,
         HostTimesOut, HostRow
  <2>. QED BY <2>1 DEF HostOutcome, SpeedStays, Kept, Answered
<1>9. ASSUME NEW g \in Hosts, PostImages(g) \/ PostDiskSpeed(g) \/ PostBadCheck(g)
      PROVE  HostOutcome(h)
  <2>1. /\ host'[h].status = host[h].status
        /\ host'[h].images \in {host[h].images, "ok", "bad"}
        /\ host[h].speed = "ok" => host'[h].speed = "ok"
    BY <1>0, <1>9 DEF PostImages, PostDiskSpeed, PostBadCheck, HostRow
  <2>. QED BY <2>1 DEF HostOutcome, SpeedStays, Kept, Answered
<1>10. ASSUME NEW g \in Hosts, InstallCommandFails(g) PROVE HostOutcome(h)
  <2>1. PICK r \in Runs(HostInstallationFailedRules, host[g].status) :
          host' = [host EXCEPT ![g] = Moved(host[g], r.to)]
    BY <1>10 DEF InstallCommandFails
  <2>2. CASE h # g
    BY <1>0, <2>1, <2>2, UnchangedHostOutcome
  <2>3. CASE h = g
    <3>1. r.to = "error" /\ r.to \in HostStatus
      BY HostRequestsSafe DEF HostStatus
    <3>2. host'[h].status = "error" /\ host'[h].speed = host[h].speed
      BY <1>0, <2>1, <2>3, <3>1, MovedFields
    <3>. QED BY <3>2 DEF HostOutcome, SpeedStays, Withdrawn, Installing
  <2>. QED BY <2>2, <2>3
<1>11. ASSUME NEW g \in Hosts, WriteStage(g) PROVE HostOutcome(h)
  <2>1. /\ host'[h].status = host[h].status
        /\ host'[h].images = host[h].images /\ host'[h].speed = host[h].speed
    <3>1. CASE host' = host
      BY <3>1
    <3>2. CASE host' = [host EXCEPT ![g] = [host[g] EXCEPT !.stage = report[g].to, !.late = FALSE,
                                                         !.stuck = FALSE]]
      <4>1. CASE h = g
        <5>1. host'[g] = [host[g] EXCEPT !.stage = report[g].to, !.late = FALSE, !.stuck = FALSE]
          BY <1>0, <3>2
        <5>. QED BY <1>0, <4>1, <5>1 DEF HostRow
      <4>2. CASE h # g
        BY <1>0, <3>2, <4>2
      <4>. QED BY <4>1, <4>2
    <3>. QED BY <1>11, <3>1, <3>2 DEF WriteStage
  <2>. QED BY <2>1 DEF HostOutcome, SpeedStays, Kept, Answered
<1>12. ASSUME NEW g \in Hosts, CommitProgress(g) PROVE HostOutcome(h)
  <2>1. CASE host' = host
    BY <2>1, UnchangedHostOutcome
  <2>2. CASE /\ StatusAsLoaded(host[g], report[g].status)
             /\ host' = [host EXCEPT ![g] = Moved(host[g], report[g].to)]
    <3>1. CASE h # g
      BY <1>0, <2>2, <3>1, UnchangedHostOutcome
    <3>2. CASE h = g
      <4>1. report[g].status \in Installing /\ report[g].to \in Installing \cup {"installed"}
        BY <1>12, ReportFields DEF TypeOK, Reports, CommitProgress
      <4>2. report[g].to \in HostStatus
        BY <4>1 DEF HostStatus
      <4>3. /\ host'[h].status = report[g].to
            /\ host'[h].images = host[h].images /\ host'[h].speed = host[h].speed
        BY <1>0, <2>2, <3>2, <4>2, MovedFields
      <4>. QED BY <2>2, <3>2, <4>1, <4>3 DEF HostOutcome, SpeedStays, Advanced, Answered, StatusAsLoaded
    <3>. QED BY <3>1, <3>2
  <2>. QED BY <1>12, <2>1, <2>2 DEF CommitProgress
<1>13. ASSUME NEW g \in Hosts, ReportFailed(g) PROVE HostOutcome(h)
  <2>1. CASE h # g
    BY <1>0, <1>13, <2>1, UnchangedHostOutcome DEF ReportFailed
  <2>2. CASE h = g
    <3>1. host'[h].status = "error" /\ host'[h].speed = host[h].speed
      BY <1>0, <1>13, <2>2, MovedFields DEF ReportFailed, HostStatus
    <3>. QED BY <3>1 DEF HostOutcome, SpeedStays, Withdrawn, Installing
  <2>. QED BY <2>1, <2>2
<1>14. Install \/ Restart \/ HMonRead \/ ClusterMonitor \/ Controller => UNCHANGED host
  BY DEF Install, Restart, HMonRead, ClusterMonitor, CMonRead, CMonWrite, CMonInstallFails,
     CMonMarkFailed, CMonRetrigger, CMonReload, Controller, ReportOperators, OperatorFails, UploadIngressCert
<1>15. ClusterTimesOut \/ InstallationTimesOut => UNCHANGED host
  BY DEF ClusterTimesOut, InstallationTimesOut
<1>16. \A a \in 1..MaxAttempts : Job(a) => UNCHANGED host
  BY DEF Job, Launch, LaunchFails, HandlePreInstallSuccess, HandlePreInstallError
<1>17. \A g \in Hosts : ReportStage(g) \/ HostProgress(g) => UNCHANGED host
  BY DEF ReportStage, HostProgress
<1>. QED
  BY <1>1, <1>2, <1>3, <1>4, <1>5, <1>6, <1>7, <1>8, <1>9, <1>10, <1>11, <1>12, <1>13, <1>14, <1>15,
     <1>16, <1>17
  DEF Next, User, HostMonitor, Agent, Time, vars
ClusterStaysEnded ==
  /\ cluster.status = "installed" => cluster'.status = "installed"
  /\ cluster.status = "error" => cluster'.status \in {"error", "cancelled", "insufficient"}
  /\ cluster.status = "cancelled" => cluster'.status \in {"cancelled", "insufficient"}

\* An installation ends for its hosts when it ends for the cluster.
EndsTogether ==
  cluster.status \in InstallationPhase =>
    \/ cluster'.status \in InstallationPhase
    \/ \A h \in Hosts : host'[h].status \in {"cancelled", "known", "resetting-pending-user-action"}

\* Every step that ends an installation withdraws all its hosts in the same transaction.
LEMMA ClusterOutcomes ==
  ASSUME TypeOK, PlansSafe, [Next]_vars
  PROVE  ClusterStaysEnded /\ EndsTogether
<1>0. /\ cluster \in ClusterRow /\ cluster.status \in ClusterStatus
      /\ \A h \in Hosts : host[h] \in HostRow /\ host[h].status \in HostStatus
  BY DEF TypeOK, ClusterRow, HostRow
<1>. USE DEF ClusterStaysEnded, EndsTogether
<1>1. CASE cluster'.status = cluster.status
  BY <1>1
<1>2. CASE Install
  BY <1>2, ClusterRequestsSafe DEF Install, InstallationPhase, ClusterInstallation
<1>3. CASE CancelInstallation
  <2>1. PICK r \in Runs(ClusterCancelRules, cluster.status) : cluster' = Moved(cluster, r.to)
    BY <1>3 DEF CancelInstallation
  <2>2. /\ \/ r.to = "cancelled" /\ cluster.status \in ClusterInstallation \cup {"error"}
           \/ r.to = "ready" /\ cluster.status = "preparing-for-installation"
        /\ r.to \in ClusterStatus
    BY ClusterRequestsSafe DEF ClusterStatus, ClusterDiscovery
  <2>3. cluster'.status = r.to
    BY <1>0, <2>1, <2>2, MovedClusterType
  <2>4. ClusterStaysEnded
    BY <2>2, <2>3 DEF ClusterInstallation
  <2>5. PICK f \in [Hosts -> HostCancelRules] :
          /\ \A g \in Hosts : f[g] \in Runs(HostCancelRules, host[g].status)
          /\ host' = [g \in Hosts |-> Moved(host[g], f[g].to)]
    BY <1>3 DEF CancelInstallation
  <2>6. \A h \in Hosts : f[h].to \in {"cancelled", "known"} /\ f[h].to \in HostStatus
    BY <2>5, HostRequestsSafe DEF HostStatus, Discovery
  <2>7. \A h \in Hosts : host'[h].status \in {"cancelled", "known"}
    BY <1>0, <2>5, <2>6, MovedFields
  <2>. QED BY <2>4, <2>7
<1>4. CASE ResetCluster
  <2>1. PICK r \in Runs(ClusterResetRules, cluster.status) :
          cluster' = [Moved(cluster, r.to) EXCEPT !.prep = "not_started", !.kubeconfig = FALSE]
    BY <1>4 DEF ResetCluster
  <2>2. r.to = "insufficient" /\ r.to \in ClusterStatus /\ cluster.status # "installed"
    BY ClusterRequestsSafe DEF ClusterStatus, ClusterDiscovery
  <2>3. Moved(cluster, r.to) \in ClusterRow /\ Moved(cluster, r.to).status = "insufficient"
    BY <1>0, <2>2, MovedClusterType
  <2>4. cluster'.status = "insufficient"
    BY <2>1, <2>3 DEF ClusterRow
  <2>5. PICK f \in [Hosts -> HostResetRules] :
          /\ \A g \in Hosts : f[g] \in Runs(HostResetRules, host[g].status)
          /\ host' = [g \in Hosts |-> Moved(host[g], f[g].to)]
    BY <1>4 DEF ResetCluster
  <2>6. \A h \in Hosts : f[h].to = "resetting-pending-user-action" /\ f[h].to \in HostStatus
    BY <2>5, HostRequestsSafe DEF HostStatus
  <2>7. \A h \in Hosts : host'[h].status = "resetting-pending-user-action"
    BY <1>0, <2>5, <2>6, MovedFields
  <2>. QED BY <2>2, <2>4, <2>7
<1>5. ASSUME NEW h \in Hosts, UpdateHost(h) PROVE ClusterStaysEnded /\ EndsTogether
  <2>1. PICK r \in RefreshCluster([g \in Hosts |-> host'[g].status]) : cluster' = Moved(cluster, r.to)
    BY <1>5 DEF UpdateHost
  <2>2. /\ r.to \in ClusterStatus
        /\ cluster.status \in {"installed", "error", "cancelled"} => r.to = cluster.status
        /\ cluster.status \in InstallationPhase => r.to \in InstallationPhase
    BY RefreshClusterSafe
  <2>3. cluster'.status = r.to
    BY <1>0, <2>1, <2>2, MovedClusterType
  <2>. QED BY <2>2, <2>3
<1>6. CASE CMonWrite
  <2>1. CASE ~StatusAsLoaded(cluster, cmon.from)
    BY <1>1, <1>6, <2>1 DEF CMonWrite
  <2>2. CASE StatusAsLoaded(cluster, cmon.from)
    <3>1. cluster.status = cmon.from /\ ClusterPlanIsSafe(cmon) /\ cluster' = Moved(cluster, cmon.to)
      BY <1>6, <2>2 DEF CMonWrite, StatusAsLoaded, PlansSafe
    <3>2. cmon \in ClusterPlan
      <4>1. /\ cmon \in ClusterPlan \cup {NoPlan, At("mark-failed"), At("retrigger"), At("reload")}
            /\ cmon.pc = "write"
        BY <1>6 DEF TypeOK, CMonWrite
      <4>. QED BY <4>1, PlainPlans
    <3>3. cluster'.status = cmon.to
      BY <1>0, <3>1, <3>2, MovedClusterType DEF ClusterPlan
    <3>. QED BY <3>1, <3>3 DEF ClusterPlanIsSafe
  <2>. QED BY <2>1, <2>2
<1>7. CASE \/ Restart \/ HostMonitor \/ CMonRead \/ CMonInstallFails \/ CMonReload
  BY <1>1, <1>7 DEF Restart, HostMonitor, HMonRead, HMonWrite, CMonRead, CMonInstallFails, CMonReload
<1>8. CASE CMonMarkFailed \/ CMonRetrigger \/ Controller \/ ClusterTimesOut \/ InstallationTimesOut
  <2>1. cluster'.status = cluster.status
    BY <1>0, <1>8 DEF CMonMarkFailed, CMonRetrigger, Controller, ReportOperators, OperatorFails, UploadIngressCert,
         ClusterTimesOut, InstallationTimesOut, ClusterRow
  <2>. QED BY <1>1, <2>1
<1>9. ASSUME NEW a \in 1..MaxAttempts, Job(a) PROVE ClusterStaysEnded /\ EndsTogether
  <2>1. cluster'.status = cluster.status
    BY <1>0, <1>9 DEF Job, Launch, LaunchFails, HandlePreInstallSuccess, HandlePreInstallError, ClusterRow
  <2>. QED BY <1>1, <2>1
<1>10. ASSUME NEW h \in Hosts, RegisterHost(h) PROVE ClusterStaysEnded /\ EndsTogether
  <2>1. cluster' = cluster \/ cluster' = [cluster EXCEPT !.prep = "not_started"]
    BY <1>10 DEF RegisterHost
  <2>2. cluster'.status = cluster.status
    BY <1>0, <2>1 DEF ClusterRow
  <2>. QED BY <1>1, <2>2
<1>11. \A h \in Hosts :
         (Agent(h) /\ ~RegisterHost(h)) \/ HostTimesOut(h) => UNCHANGED cluster
  BY DEF Agent, CheckIn, AgentSilent, MediaDisconnected, MediaConnected, PostInventory,
     PostPoorInventory, PostImages, PostDiskSpeed, PostBadCheck, InstallCommandFails, ReportStage,
     WriteStage, HostProgress, CommitProgress, ReportFailed, HostTimesOut
<1>. QED
  BY <1>1, <1>2, <1>3, <1>4, <1>5, <1>6, <1>7, <1>8, <1>9, <1>10, <1>11
  DEF Next, User, ClusterMonitor, Time, vars

----------------------------------------------------------------------------
(* Ended installations *)

\* No step revives an ended installation.
LEMMA EndedStep == TypeOK /\ PlansSafe /\ [Next]_vars => StaysEnded
<1>. SUFFICES ASSUME TypeOK, PlansSafe, [Next]_vars PROVE StaysEnded
  OBVIOUS
<1>1. ASSUME NEW h \in Hosts, host[h].status = "error"
      PROVE  host'[h].status \in {"error", "cancelled", "resetting-pending-user-action"}
  <2>0. host[h] \in HostRow
    BY DEF TypeOK
  <2>1. CASE Kept(h) \/ Withdrawn(h)
    BY <1>1, <2>1 DEF Kept, Withdrawn
  <2>2. CASE Advanced(h)
    BY <1>1, <2>2 DEF Advanced, Installing
  <2>3. CASE Monitored(h)
    <3>1. hmon[h].to = "error"
      BY <1>1, <2>3 DEF Monitored, PlansSafe, HostPlanIsSafe
    <3>2. hmon[h].to \in HostStatus
      BY <3>1 DEF HostStatus
    <3>. QED BY <2>0, <2>3, <3>1, <3>2, RefreshedFields DEF Monitored
  <2>4. CASE Updated(h)
    <3>1. PICK r : HostMoveIsSafe(h, r) /\ host'[h] = Refreshed(host[h], r)
      BY <2>4 DEF Updated
    <3>2. r.to = "error" /\ r.to \in HostStatus
      BY <1>1, <3>1 DEF HostMoveIsSafe
    <3>. QED BY <2>0, <3>1, <3>2, RefreshedFields
  <2>. QED BY <2>1, <2>2, <2>3, <2>4, HostOutcomes DEF HostOutcome
<1>. QED BY <1>1, ClusterOutcomes DEF StaysEnded, ClusterStaysEnded

\* The plans of the monitors always have the shape of safe plans.
LEMMA PlansAlwaysSafe == Spec => []PlansSafe
  BY PlansInit, PlansStep, TypeCorrect, PTL DEF Spec

\* No monitor, goroutine or agent, however late it writes, revives a cluster or
\* a host whose installation ended.
THEOREM EndedStaysEnded == Spec => EndedInstallationsStayEnded
  BY EndedStep, TypeCorrect, PlansAlwaysSafe, PTL DEF Spec, EndedInstallationsStayEnded

----------------------------------------------------------------------------
(* Hosts pass their checks before they install, and install in an installation *)

\* A plan to pass a host was made when its disk had passed, and disks stay passed.
DisksSafe ==
  /\ DisksPassed
  /\ \A h \in Hosts :
       hmon[h].pc = "write" /\ hmon[h].to = "preparing-successful" => host[h].speed = "ok"

\* At first no host is prepared, and nothing is planned.
LEMMA DisksInit == Init => DisksSafe
<1>. SUFFICES ASSUME Init PROVE DisksSafe
  OBVIOUS
<1>1. \A h \in Hosts : host[h].status = "discovering" /\ hmon[h] = NoPlan
  BY DEF Init, NewHost
<1>. QED BY <1>1, PlainPlans DEF DisksSafe, DisksPassed, Installing

\* Only a refresh takes a host beyond its preparation, and it asks for the disk.
LEMMA DisksStep == TypeOK /\ PlansSafe /\ DisksSafe /\ [Next]_vars => DisksSafe'
<1>. SUFFICES ASSUME TypeOK, PlansSafe, DisksSafe, [Next]_vars PROVE DisksSafe'
  OBVIOUS
<1>0. \A h \in Hosts : host[h] \in HostRow /\ SpeedStays(h)
  BY HostOutcomes DEF TypeOK, HostOutcome
<1>1. ASSUME NEW h \in Hosts, host'[h].status \in Installing \cup {"preparing-successful"}
      PROVE  host[h].speed = "ok"
  <2>1. CASE Kept(h) \/ Advanced(h)
    BY <1>1, <2>1 DEF DisksSafe, DisksPassed, Kept, Advanced
  <2>2. CASE Monitored(h)
    <3>1. hmon[h] \in HostPlan
      <4>1. hmon[h] \in HostPlan \cup {NoPlan} /\ hmon[h].pc = "write"
        BY <2>2 DEF TypeOK, Monitored
      <4>. QED BY <4>1, PlainPlans
    <3>2. host'[h].status = hmon[h].to /\ HostPlanIsSafe(hmon[h])
      BY <1>0, <2>2, <3>1, RefreshedFields DEF Monitored, PlansSafe, HostPlan
    <3>3. CASE hmon[h].to = "preparing-successful"
      BY <2>2, <3>3 DEF Monitored, DisksSafe
    <3>4. CASE hmon[h].to \in Installing
      BY <2>2, <3>2, <3>4 DEF Monitored, HostPlanIsSafe, DisksSafe, DisksPassed
    <3>. QED BY <1>1, <3>2, <3>3, <3>4
  <2>3. CASE Updated(h)
    <3>1. PICK r : HostMoveIsSafe(h, r) /\ host'[h] = Refreshed(host[h], r)
      BY <2>3 DEF Updated
    <3>2. host'[h].status = r.to
      BY <1>0, <3>1, RefreshedFields DEF HostMoveIsSafe
    <3>. QED BY <1>1, <3>1, <3>2 DEF HostMoveIsSafe, DisksSafe, DisksPassed
  <2>4. ~Withdrawn(h)
    BY <1>1 DEF Withdrawn
  <2>. QED BY <2>1, <2>2, <2>3, <2>4, HostOutcomes DEF HostOutcome
<1>2. ASSUME NEW h \in Hosts, hmon'[h].pc = "write", hmon'[h].to = "preparing-successful"
      PROVE  host[h].speed = "ok"
  <2>1. CASE hmon'[h] = hmon[h]
    BY <1>2, <2>1 DEF DisksSafe
  <2>2. CASE hmon'[h] \in HostPlans(h)
    <3>1. HostMoveIsSafe(h, hmon'[h])
      BY <2>2, HostPlansSafe
    <3>. QED BY <1>2, <3>1 DEF HostMoveIsSafe, DisksSafe, DisksPassed
  <2>. QED BY <1>2, <2>1, <2>2, PlanOutcomes, PlainPlans DEF PlanOutcome
<1>. QED BY <1>0, <1>1, <1>2 DEF DisksSafe, DisksPassed, SpeedStays

\* Disks and plans, together.
LEMMA DisksAlwaysSafe == Spec => []DisksSafe
  BY DisksInit, DisksStep, TypeCorrect, PlansAlwaysSafe, PTL DEF Spec

\* No rule, stale plan, update of the user or late answer lets a host be prepared, or go
\* on to install, without a disk that passed its check.
THEOREM DisksAlwaysPassed == Spec => []DisksPassed
<1>1. DisksSafe => DisksPassed
  BY DEF DisksSafe
<1>. QED BY <1>1, DisksAlwaysSafe, PTL

\* The rest holds as long as no user updates a host.
Safe == HostsInstallOnlyInInstallation /\ ImagesAnswered /\ AcceptedPlansAreRight

\* New hosts neither install nor are prepared, and nothing is planned.
LEMMA SafeInit == Init => Safe
<1>. SUFFICES ASSUME Init PROVE Safe
  OBVIOUS
<1>1. \A h \in Hosts : host[h].status = "discovering" /\ hmon[h] = NoPlan
  BY DEF Init, NewHost
<1>. QED
  BY <1>1, PlainPlans DEF Safe, HostsInstallOnlyInInstallation, ImagesAnswered,
     AcceptedPlansAreRight, Installing

\* The inductive step.
LEMMA SafeStep ==
  ASSUME "update" \notin Disturbances
  PROVE  TypeOK /\ PlansSafe /\ DisksSafe /\ Safe /\ [Next]_vars => Safe'
<1>. SUFFICES ASSUME TypeOK, PlansSafe, DisksSafe, Safe, [Next]_vars PROVE Safe'
  OBVIOUS
<1>0. \A h \in Hosts : host[h] \in HostRow /\ host[h].status \in HostStatus
  BY DEF TypeOK, HostRow
<1>1. \A h \in Hosts : Kept(h) \/ Withdrawn(h) \/ Advanced(h) \/ Monitored(h)
  BY HostOutcomes DEF HostOutcome, Updated
<1>2. EndsTogether
  BY ClusterOutcomes
<1>3. \A h \in Hosts : Monitored(h) =>
        /\ host'[h].status = hmon[h].to /\ host'[h].speed = host[h].speed
        /\ hmon[h].post # "recheck-images" => host'[h].images = host[h].images
        /\ HostPlanIsSafe(hmon[h]) /\ hmon[h].pc = "write" /\ hmon[h].from = host[h].status
  <2>. SUFFICES ASSUME NEW h \in Hosts, Monitored(h)
                PROVE  /\ host'[h].status = hmon[h].to /\ host'[h].speed = host[h].speed
                       /\ hmon[h].post # "recheck-images" => host'[h].images = host[h].images
                       /\ HostPlanIsSafe(hmon[h]) /\ hmon[h].pc = "write"
                       /\ hmon[h].from = host[h].status
    OBVIOUS
  <2>1. hmon[h] \in HostPlan \cup {NoPlan} /\ hmon[h].pc = "write"
    BY DEF TypeOK, Monitored
  <2>2. hmon[h].to \in HostStatus
    BY <2>1, PlainPlans DEF HostPlan
  <2>3. HostPlanIsSafe(hmon[h])
    BY <2>1 DEF PlansSafe
  <2>. QED BY <1>0, <2>1, <2>2, <2>3, RefreshedFields DEF Monitored
<1>4. HostsInstallOnlyInInstallation'
  <2>. SUFFICES ASSUME NEW h \in Hosts, host'[h].status \in Installing \cup {"installed"}
                PROVE  cluster'.status \in InstallationPhase
    BY DEF HostsInstallOnlyInInstallation
  <2>1. ~Withdrawn(h)
    BY DEF Withdrawn
  <2>2. CASE Kept(h) \/ Advanced(h)
    <3>1. cluster.status \in InstallationPhase
      BY <2>2 DEF Safe, HostsInstallOnlyInInstallation, Kept, Advanced
    <3>. QED BY <1>2, <3>1 DEF EndsTogether, Installing
  <2>3. CASE Monitored(h)
    <3>1. cluster.status \in InstallationPhase
      BY <1>3, <2>3 DEF Safe, AcceptedPlansAreRight, StatusAsLoaded
    <3>. QED BY <1>2, <3>1 DEF EndsTogether, Installing
  <2>. QED BY <1>1, <2>1, <2>2, <2>3
<1>5. ImagesAnswered'
  <2>. SUFFICES ASSUME NEW h \in Hosts, host'[h].status \in Installing \cup {"preparing-successful"}
                PROVE  Answered(host'[h])
    BY DEF ImagesAnswered, Answered
  <2>1. ~Withdrawn(h)
    BY DEF Withdrawn
  <2>2. CASE Kept(h) \/ Advanced(h)
    BY <2>2 DEF Safe, ImagesAnswered, Kept, Advanced, Answered
  <2>3. CASE Monitored(h)
    <3>1. Answered(host[h])
      BY <1>3, <2>3 DEF Safe, ImagesAnswered, AcceptedPlansAreRight, StatusAsLoaded,
           HostPlanIsSafe, Answered
    <3>2. hmon[h].post # "recheck-images"
      BY <1>3, <2>3 DEF HostPlanIsSafe, Installing
    <3>. QED BY <1>3, <2>3, <3>1, <3>2 DEF Answered
  <2>. QED BY <1>1, <2>1, <2>2, <2>3
<1>6. AcceptedPlansAreRight'
  <2>. SUFFICES ASSUME NEW h \in Hosts, hmon'[h].pc = "write", host'[h].status = hmon'[h].from
                PROVE  /\ hmon'[h].to \in Installing \cup {"installed"} =>
                            cluster'.status \in InstallationPhase
                       /\ hmon'[h].to = "preparing-successful" => Answered(host'[h])
    <3>1. DisksSafe'
      BY DisksStep
    <3>. QED BY <3>1 DEF AcceptedPlansAreRight, StatusAsLoaded, Answered, DisksSafe
  <2>1. CASE hmon'[h] \in HostPlans(h) /\ host' = host /\ cluster' = cluster
    <3>1. HostMoveIsSafe(h, hmon'[h])
      BY <2>1, HostPlansSafe
    <3>. QED BY <2>1, <3>1 DEF HostMoveIsSafe, Safe, HostsInstallOnlyInInstallation,
                ImagesAnswered, InstallationPhase, ClusterInstallation, Answered
  <2>2. CASE hmon'[h] = hmon[h]
    <3>1. HostPlanIsSafe(hmon[h])
      BY <2>2 DEF PlansSafe
    <3>2. ~Monitored(h)
      BY PlainPlans DEF Monitored
    <3>3. ASSUME hmon[h].to \in Installing \cup {"installed"}
          PROVE  cluster'.status \in InstallationPhase
      <4>1. host'[h].status \in Installing \cup {"installed", "preparing-successful"}
        BY <2>2, <3>1, <3>3 DEF HostPlanIsSafe
      <4>2. CASE Kept(h)
        <5>1. cluster.status \in InstallationPhase
          BY <2>2, <3>3, <4>2 DEF Safe, AcceptedPlansAreRight, StatusAsLoaded, Kept
        <5>. QED BY <1>2, <4>1, <5>1 DEF EndsTogether, Installing
      <4>3. CASE Advanced(h)
        BY <1>4, <4>3 DEF HostsInstallOnlyInInstallation, Advanced
      <4>. QED BY <1>1, <3>2, <4>1, <4>2, <4>3 DEF Withdrawn
    <3>4. ASSUME hmon[h].to = "preparing-successful" PROVE Answered(host'[h])
      <4>1. host'[h].status \in {"preparing-for-installation", "preparing-successful"}
        BY <2>2, <3>1, <3>4 DEF HostPlanIsSafe
      <4>2. Kept(h)
        BY <1>1, <3>2, <4>1 DEF Withdrawn, Advanced, Installing
      <4>3. Answered(host[h])
        BY <2>2, <3>4, <4>2 DEF Safe, AcceptedPlansAreRight, StatusAsLoaded, Kept, Answered
      <4>. QED BY <4>2, <4>3 DEF Kept
    <3>. QED BY <2>2, <3>3, <3>4
  <2>. QED BY <2>1, <2>2, PlanOutcomes, PlainPlans DEF PlanOutcome
<1>. QED BY <1>4, <1>5, <1>6 DEF Safe

\* The three hold together.
LEMMA SafeAlways ==
  ASSUME "update" \notin Disturbances
  PROVE  Spec => []Safe
<1>1. TypeOK /\ PlansSafe /\ DisksSafe /\ Safe /\ [Next]_vars => Safe'
  BY SafeStep
<1>. QED BY <1>1, SafeInit, TypeCorrect, PlansAlwaysSafe, DisksAlwaysSafe, PTL DEF Spec

\* As long as no request refreshes hosts, the status that the monitor's update asks for
\* is enough: a plan that the database would accept is right on the rows as they are now.
THEOREM AcceptedPlansAreAlwaysRight ==
  ASSUME "update" \notin Disturbances
  PROVE  Spec => []AcceptedPlansAreRight
<1>1. Safe => AcceptedPlansAreRight
  BY DEF Safe
<1>. QED BY <1>1, SafeAlways, PTL
=============================================================================
