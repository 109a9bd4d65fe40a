---------------------------- MODULE InstallFlow ----------------------------
(***************************************************************************)
(* The installation of one day-1 cluster: the user's requests, the          *)
(* goroutine that prepares the installation, the two background monitors of *)
(* the leader, and the agents of the hosts, all writing the cluster and     *)
(* host rows of one database.                                               *)
(*                                                                         *)
(* A request runs in a transaction that holds the row of the cluster: it is *)
(* one action.  A monitor loads rows, runs the machine on what it loaded and *)
(* writes "where status = <the status it loaded>", without a transaction: a *)
(* read action plans the writes and write actions carry them out, with      *)
(* anything in between.  A cycle that would write nothing is a stuttering   *)
(* step and has no action.                                                  *)
(***************************************************************************)
EXTENDS Integers, FiniteSets, HostStateMachine, ClusterStateMachine

CONSTANTS
  Hosts,              \* the hosts bound to the cluster
  Masters,            \* those with the role master; the others are workers
  ControlPlaneCount,  \* 1 for a single-node cluster
  MinMasters,         \* masters the topology needs, when it is not single-node
  SoftTimeouts,       \* ENABLE_SOFT_TIMEOUTS of the service
  Timers,             \* the kinds of timeout that may elapse in this instance
  MaxAttempts,        \* bound: installations the user starts
  Disturbances,       \* the kinds of disturbance of this instance
  MaxDisturbances     \* bound: disturbances of a behaviour

MinWorkers == 2       \* MinimumNumberOfWorkersForNonSchedulableMastersClusterInHaMode

ASSUME HostsAssumption == IsFiniteSet(Hosts) /\ Hosts # {} /\ Masters \subseteq Hosts
ASSUME BoundsAssumption ==
  /\ MaxAttempts \in Nat /\ MaxDisturbances \in Nat
  /\ ControlPlaneCount \in Nat /\ MinMasters \in Nat
ASSUME SoftTimeoutsAssumption == SoftTimeouts \in BOOLEAN

VARIABLES
  cluster,   \* the row of the cluster
  attempt,   \* number of installations started
  job,       \* the preparation goroutine of each attempt
  host,      \* the rows of the hosts
  hmon,      \* the host monitor: the write it has yet to do for each host
  cmon,      \* the cluster monitor: its next step
  report,    \* the stage report of each host that is being handled
  disturbed  \* disturbances so far

vars == <<cluster, attempt, job, host, hmon, cmon, report, disturbed>>

\* late: the timeout that runs in the current status has elapsed; overdue: the
\* one of the whole installation; operators: the attempt in which the monitored
\* operators were last reported available, 0 if never; soft: the organisation of
\* the user has soft timeouts.
ClusterRow ==
  [status : ClusterStatus, prep : PreparationStatus, late : BOOLEAN, overdue : BOOLEAN,
   kubeconfig : BOOLEAN, operators : 0..MaxAttempts, soft : BOOLEAN]

Verdict == {"ok", "unknown", "bad"}
HostRow ==
  [status : HostStatus, conn : BOOLEAN, media : BOOLEAN, inventory : {"none", "poor", "good"},
   images : Verdict, speed : Verdict, stage : HostStage, late : BOOLEAN, lost : BOOLEAN,
   stuck : BOOLEAN]

JobState == {"idle", "launching", "running", "ok", "failed", "aborted", "lost"}

NewCluster(soft) ==
  [status |-> "insufficient", prep |-> "not_started", late |-> FALSE, overdue |-> FALSE,
   kubeconfig |-> FALSE, operators |-> 0, soft |-> soft]
NewHost ==
  [status |-> "discovering", conn |-> TRUE, media |-> TRUE, inventory |-> "none",
   images |-> "unknown", speed |-> "unknown", stage |-> "", late |-> FALSE, lost |-> FALSE,
   stuck |-> FALSE]

\* A planned write, from the status that was loaded.
HostPlan == [pc : {"write"}, from : HostStatus, to : HostStatus, post : HostPost]
ClusterPlan == [pc : {"write"}, from : ClusterStatus, to : ClusterStatus, post : ClusterPost]
At(pc) == [pc |-> pc, from |-> "", to |-> "", post |-> "none"]
NoPlan == At("idle")

\* A stage report: none, between its two writes, and with what it has yet to write if
\* the host still has the status that was loaded.
NoReport == [pc |-> "none", status |-> "", to |-> ""]
AfterStage == [NoReport EXCEPT !.pc = "run"]
StageReport ==
  [pc : {"write"}, status : Installing, to : HostStage]
    \cup [pc : {"commit"}, status : Installing, to : Installing \cup {"installed"}]

Init ==
  /\ \E soft \in BOOLEAN : (soft => SoftTimeouts) /\ cluster = NewCluster(soft)
  /\ attempt = 0
  /\ job = [a \in 1..MaxAttempts |-> "idle"]
  /\ host = [h \in Hosts |-> NewHost]
  /\ hmon = [h \in Hosts |-> NoPlan]
  /\ cmon = NoPlan
  /\ report = [h \in Hosts |-> NoReport]
  /\ disturbed = 0

\* Something outside the normal course of an installation; bounded.
Disturb(kind) ==
  /\ kind \in Disturbances
  /\ disturbed < MaxDisturbances
  /\ disturbed' = disturbed + 1

----------------------------------------------------------------------------
(* Conditions *)

Statuses == [h \in Hosts |-> host[h].status]
In(hs, H, S) == Cardinality({h \in H : hs[h] \in S})

\* Mutant: one master more than there is.
TooManyMastersAndWorkers(hs, S) ==
  IF ControlPlaneCount = 1 THEN In(hs, Masters, S) = 2
  ELSE In(hs, Masters, S) > Cardinality(Masters)

\* Mutant: one master less than there is.
OneMasterShort(hs, S) == In(hs, Masters, S) >= Cardinality(Masters) - 1

HasEnoughMastersAndWorkers(hs, S) ==
  LET workers == Hosts \ Masters IN
  IF ControlPlaneCount = 1
  THEN In(hs, Masters, S) = 1 /\ In(hs, workers, S) = 0
  ELSE /\ Cardinality(Masters) >= MinMasters
       /\ In(hs, Masters, S) >= Cardinality(Masters)
       /\ Cardinality(workers) >= MinWorkers => In(hs, workers, S) >= MinWorkers

Installed(hs) == HasEnoughMastersAndWorkers(hs, {"installed"})

IsReadyToInstall == {"known", "preparing-for-installation", "preparing-successful"}

\* Network and operator inputs are complete: the cluster is fit once its hosts are.
ClusterContext(row, hs) ==
  [dhcp |-> FALSE, inputs |-> TRUE, vips |-> TRUE,
   fit |-> \A h \in Hosts : hs[h] \in IsReadyToInstall,
   late |-> row.late, overdue |-> row.overdue, prep |-> row.prep,
   prepared |-> \A h \in Hosts : hs[h] = "preparing-successful",
   unpreparing |-> \E h \in Hosts : hs[h] \notin Preparing \cup {"known"},
   failed |-> \E h \in Hosts : hs[h] = "preparing-failed",
   installing |-> HasEnoughMastersAndWorkers(hs, Installing \cup {"installed", "preparing-successful"}),
   finalizing |-> Installed(hs),
   pending |-> \E h \in Hosts : hs[h] = "installing-pending-user-action",
   done |-> \A h \in Hosts : hs[h] \in {"installed", "error"},
   complete |-> row.kubeconfig /\ row.operators # 0,
   soft |-> SoftTimeouts /\ row.soft, stageLate |-> FALSE, stageSoft |-> FALSE, stageNoted |-> FALSE,
   console |-> FALSE]

\* A host that rebooted into the installed system no longer checks in.
IsConnected(row) == row.conn \/ row.stage \in {"Rebooting", "Done"}

HostContext(row) ==
  [cluster |-> cluster.status, role |-> TRUE, conn |-> IsConnected(row), media |-> row.media,
   speed |-> row.speed, images |-> row.images,
   inv |-> row.inventory # "none", full |-> TRUE, hw |-> TRUE, cidr |-> TRUE, uuid |-> TRUE,
   enough |-> row.inventory = "good" /\ row.speed # "bad",
   day2 |-> FALSE, soft |-> SoftTimeouts /\ cluster.soft, stage |-> row.stage, late |-> row.late,
   lost |-> row.lost, stuck |-> row.stuck,
   without |-> Installed(Statuses), after |-> cluster.status = "installed"]

\* RefreshStatus: what the machines run (x and y are bound rather than passed so
\* that TLC evaluates the conditions once).
RefreshHost(h) ==
  UNION {Runs(HostRefreshRules(x), host[h].status) : x \in {HostContext(host[h])}}

RefreshCluster(hs) ==
  UNION {Runs(ClusterRefreshRules(y), cluster.status) : y \in {ClusterContext(cluster, hs)}}

----------------------------------------------------------------------------
(* Writes *)

\* A new status restarts its timeout.
Moved(row, status) ==
  [row EXCEPT !.status = status, !.late = IF status = row.status THEN row.late ELSE FALSE]

\* What the post-transition of a host's refresh rule writes.
Refreshed(row, r) ==
  [Moved(row, r.to) EXCEPT
     !.images = IF r.post = "recheck-images" THEN "unknown" ELSE row.images,
     !.lost = (row.lost \/ r.post = "lost") /\ r.post # "found",
     !.stuck = row.stuck \/ r.post = "stuck",
     !.late = IF r.to = row.status THEN row.late /\ r.post # "touch-stage" ELSE FALSE]

\* What the post-transition of a registration rule writes to the host.
Registered(row, r) ==
  [Moved(row, r.to) EXCEPT
     !.inventory = IF r.post = "forget" THEN "none" ELSE @,
     !.images = IF r.post \in {"forget", "restart-preparing"} THEN "unknown" ELSE @,
     !.stage = IF r.post \in {"forget", "restart-preparing"} THEN "" ELSE @]

\* Mutant: the update does not ask for the status that was loaded.
AnyStatus(row, from) == TRUE

\* The condition of every update: "where id = ? and status = ?".
StatusAsLoaded(row, from) == row.status = from

----------------------------------------------------------------------------
(* The user: the requests of the REST API *)

Install ==
  /\ attempt < MaxAttempts
  /\ \E r \in Runs(PrepareForInstallationRules, cluster.status) :
       cluster' = [Moved(cluster, r.to) EXCEPT !.prep = "not_started", !.overdue = FALSE]
  /\ attempt' = attempt + 1
  /\ job' = [job EXCEPT ![attempt + 1] = "launching"]
  /\ UNCHANGED <<host, hmon, cmon, report, disturbed>>

\* Cancel and reset run one machine per row in one transaction: a host without
\* a rule fails the request.
CancelInstallation ==
  /\ Disturb("cancel")
  /\ \E r \in Runs(ClusterCancelRules, cluster.status) :
       cluster' = Moved(cluster, r.to)
  /\ \E f \in [Hosts -> HostCancelRules] :
       /\ \A h \in Hosts : f[h] \in Runs(HostCancelRules, host[h].status)
       /\ host' = [h \in Hosts |-> Moved(host[h], f[h].to)]
  /\ UNCHANGED <<attempt, job, hmon, cmon, report>>

ResetCluster ==
  /\ Disturb("reset")
  /\ \E r \in Runs(ClusterResetRules, cluster.status) :
       cluster' = [Moved(cluster, r.to) EXCEPT !.prep = "not_started", !.kubeconfig = FALSE]
  /\ \E f \in [Hosts -> HostResetRules] :
       /\ \A h \in Hosts : f[h] \in Runs(HostResetRules, host[h].status)
       /\ host' = [h \in Hosts |-> Moved(host[h], f[h].to)]
  /\ UNCHANGED <<attempt, job, hmon, cmon, report>>

\* Updating a host refreshes it and then its cluster in the transaction of the
\* request.  RefreshInventory refuses a host that is being prepared.  The rule
\* that marks the preparation failed writes through another connection the row
\* that this transaction locks, so no update commits with it.
UpdateHost(h) ==
  /\ Disturb("update")
  /\ host[h].inventory # "none" => host[h].status \in Discovery \cup {"installing-in-progress"}
  /\ \E r \in RefreshHost(h) : host' = [host EXCEPT ![h] = Refreshed(host[h], r)]
  /\ \E r \in RefreshCluster([g \in Hosts |-> host'[g].status]) :
       r.post # "mark-failed" /\ cluster' = Moved(cluster, r.to)
  /\ UNCHANGED <<attempt, job, hmon, cmon, report>>

----------------------------------------------------------------------------
(* The goroutine that prepares an installation *)

Launch(a) ==
  /\ job[a] = "launching"
  /\ job' = [job EXCEPT ![a] = "running"]
  /\ UNCHANGED <<cluster, attempt, host, hmon, cmon, report, disturbed>>

\* Installing fails after the cluster was moved to preparing: no goroutine.
LaunchFails(a) ==
  /\ job[a] = "launching"
  /\ Disturb("launch")
  /\ job' = [job EXCEPT ![a] = "aborted"]
  /\ UNCHANGED <<cluster, attempt, host, hmon, cmon, report>>

HandlePreInstallSuccess(a) ==
  /\ job[a] = "running"
  /\ job' = [job EXCEPT ![a] = "ok"]
  /\ cluster' = [cluster EXCEPT !.prep = "success"]
  /\ UNCHANGED <<attempt, host, hmon, cmon, report, disturbed>>

HandlePreInstallError(a) ==
  /\ job[a] = "running"
  /\ Disturb("preparation")
  /\ job' = [job EXCEPT ![a] = "failed"]
  /\ cluster' = [cluster EXCEPT !.prep = "failed"]
  /\ UNCHANGED <<attempt, host, hmon, cmon, report>>

\* The process restarts: requests, goroutines and monitor cycles are gone.
Restart ==
  /\ Disturb("restart")
  /\ job' = [a \in 1..MaxAttempts |-> IF job[a] \in {"launching", "running"} THEN "lost" ELSE job[a]]
  /\ hmon' = [h \in Hosts |-> NoPlan]
  /\ cmon' = NoPlan
  /\ report' = [h \in Hosts |-> NoReport]
  /\ UNCHANGED <<cluster, attempt, host>>

----------------------------------------------------------------------------
(* The host monitor *)

HostPlans(h) ==
  {[pc |-> "write", from |-> host[h].status, to |-> r.to, post |-> r.post] :
     r \in {r \in RefreshHost(h) : Refreshed(host[h], r) # host[h]}}

\* A cycle loads the cluster with its hosts.
HMonRead ==
  /\ \A h \in Hosts : hmon[h] = NoPlan
  /\ UNCHANGED <<cluster, attempt, job, host, cmon, report, disturbed>>
  /\ \E plans \in {[h \in Hosts |-> HostPlans(h)]} :
       /\ \E h \in Hosts : plans[h] # {}
       /\ hmon' = [h \in Hosts |-> IF plans[h] = {} THEN NoPlan ELSE CHOOSE p \in plans[h] : TRUE]

\* UpdateHost writes the row if it still has the status that was loaded.
HMonWrite(h) ==
  /\ hmon[h].pc = "write"
  /\ host' = IF StatusAsLoaded(host[h], hmon[h].from)
             THEN [host EXCEPT ![h] = Refreshed(host[h], hmon[h])] ELSE host
  /\ hmon' = [hmon EXCEPT ![h] = NoPlan]
  /\ UNCHANGED <<cluster, attempt, job, cmon, report, disturbed>>

----------------------------------------------------------------------------
(* The cluster monitor *)

ClusterPlans ==
  {[pc |-> "write", from |-> cluster.status, to |-> r.to, post |-> r.post] :
     r \in {r \in RefreshCluster(Statuses) : r.post # "none" /\ r.to # cluster.status}}

\* handleReRegisteredHostsDuringPreparation
AllPreparedAgain ==
  /\ cluster.status = "preparing-for-installation"
  /\ \A h \in Hosts : host[h].status = "preparing-successful"
  /\ cluster.prep = "not_started"

\* A cycle loads the cluster with its hosts and refreshes it; if that left it
\* as it was, the cycle looks for hosts that were prepared again.
CMonRead ==
  /\ cmon = NoPlan
  /\ cluster.status # "installed"
  /\ UNCHANGED <<cluster, attempt, job, host, hmon, report, disturbed>>
  /\ \E plans \in {ClusterPlans} :
       \/ cmon' \in plans
       \/ plans = {} /\ AllPreparedAgain /\ cmon' = At("retrigger")

\* UpdateCluster writes the row if it still has the status that was loaded;
\* otherwise the cycle ends with an error.
CMonWrite ==
  /\ cmon.pc = "write"
  /\ IF StatusAsLoaded(cluster, cmon.from)
     THEN /\ cluster' = Moved(cluster, cmon.to)
          /\ cmon' = IF cmon.post = "mark-failed" THEN At("mark-failed") ELSE NoPlan
     ELSE /\ cluster' = cluster
          /\ cmon' = NoPlan
  /\ UNCHANGED <<attempt, job, host, hmon, report, disturbed>>

\* Creating the DNS records fails, and with it the transition to installing.
CMonInstallFails ==
  /\ cmon.pc = "write" /\ cmon.post = "dns"
  /\ Disturb("dns")
  /\ cmon' = NoPlan
  /\ UNCHANGED <<cluster, attempt, job, host, hmon, report>>

\* The second write of a preparation that timed out does not ask for a status.
CMonMarkFailed ==
  /\ cmon.pc = "mark-failed"
  /\ cluster' = [cluster EXCEPT !.prep = "failed"]
  /\ cmon' = NoPlan
  /\ UNCHANGED <<attempt, job, host, hmon, report, disturbed>>

CMonRetrigger ==
  /\ cmon.pc = "retrigger"
  /\ cluster' = [cluster EXCEPT !.prep = "success"]
  /\ cmon' = At("reload")
  /\ UNCHANGED <<attempt, job, host, hmon, report, disturbed>>

\* ... and refreshes the cluster again.
CMonReload ==
  /\ cmon.pc = "reload"
  /\ UNCHANGED <<cluster, attempt, job, host, hmon, report, disturbed>>
  /\ \E plans \in {ClusterPlans} : cmon' \in (IF plans = {} THEN {NoPlan} ELSE plans)

----------------------------------------------------------------------------
(* The agents of the hosts, and the installer and controller they start *)

\* V2GetNextSteps records the check-in.
CheckIn(h) ==
  /\ ~host[h].conn
  /\ host' = [host EXCEPT ![h].conn = TRUE]
  /\ UNCHANGED <<cluster, attempt, job, hmon, cmon, report, disturbed>>

\* No check-in for longer than the disconnection time.
AgentSilent(h) ==
  /\ host[h].conn
  /\ Disturb("silence")
  /\ host' = [host EXCEPT ![h].conn = FALSE]
  /\ UNCHANGED <<cluster, attempt, job, hmon, cmon, report>>

RegisterHost(h) ==
  /\ Disturb("register")
  /\ \E r \in Runs(RegisterHostRules(HostContext(host[h])), host[h].status) :
       /\ r.post # "reject"
       /\ host' = [host EXCEPT ![h] = Registered(host[h], r)]
       /\ cluster' = IF r.post = "restart-preparing"
                     THEN [cluster EXCEPT !.prep = "not_started"] ELSE cluster
  /\ UNCHANGED <<attempt, job, hmon, cmon, report>>

\* A step fails because the live media is gone; ignored when already known.
MediaDisconnected(h) ==
  /\ host[h].media
  /\ Disturb("media")
  /\ \E r \in Runs(MediaDisconnectRules, host[h].status) :
       host' = [host EXCEPT ![h] = [Moved(host[h], r.to) EXCEPT !.media = FALSE]]
  /\ UNCHANGED <<cluster, attempt, job, hmon, cmon, report>>

\* A step succeeds again.
MediaConnected(h) ==
  /\ ~host[h].media
  /\ host' = [host EXCEPT ![h].media = TRUE]
  /\ UNCHANGED <<cluster, attempt, job, hmon, cmon, report, disturbed>>

\* The replies to the steps the service asks for in each status.
PostInventory(h) ==
  /\ host[h].conn
  /\ host[h].status \in Discovery
  /\ host[h].inventory # "good"
  /\ host' = [host EXCEPT ![h].inventory = "good"]
  /\ UNCHANGED <<cluster, attempt, job, hmon, cmon, report, disturbed>>

PostPoorInventory(h) ==
  /\ host[h].conn
  /\ host[h].status \in Discovery
  /\ Disturb("inventory")
  /\ host' = [host EXCEPT ![h].inventory = "poor"]
  /\ UNCHANGED <<cluster, attempt, job, hmon, cmon, report>>

PostImages(h) ==
  /\ host[h].conn
  /\ host[h].status = "preparing-for-installation"
  /\ host[h].images # "ok"
  /\ host' = [host EXCEPT ![h].images = "ok"]
  /\ UNCHANGED <<cluster, attempt, job, hmon, cmon, report, disturbed>>

PostDiskSpeed(h) ==
  /\ host[h].conn
  /\ host[h].status = "preparing-for-installation"
  /\ host[h].speed = "unknown"
  /\ host' = [host EXCEPT ![h].speed = "ok"]
  /\ UNCHANGED <<cluster, attempt, job, hmon, cmon, report, disturbed>>

\* Mutant: a disk that has a result is checked again.
PostBadCheckAgain(h) ==
  /\ host[h].conn
  /\ host[h].status \in Preparing \cup Discovery
  /\ Disturb("checks")
  /\ \E f \in {"images", "speed"} : host' = [host EXCEPT ![h] = [@ EXCEPT ![f] = "bad"]]
  /\ UNCHANGED <<cluster, attempt, job, hmon, cmon, report>>

\* A check fails; its reply may come after the host left the preparation.  The disk is
\* checked once: the service asks for it only while it has no result.
PostBadCheck(h) ==
  /\ host[h].conn
  /\ host[h].status \in Preparing \cup Discovery
  /\ Disturb("checks")
  /\ \/ host' = [host EXCEPT ![h].images = "bad"]
     \/ host[h].speed = "unknown" /\ host' = [host EXCEPT ![h].speed = "bad"]
  /\ UNCHANGED <<cluster, attempt, job, hmon, cmon, report>>

InstallCommandFails(h) ==
  /\ Disturb("install")
  /\ \E r \in Runs(HostInstallationFailedRules, host[h].status) :
       host' = [host EXCEPT ![h] = Moved(host[h], r.to)]
  /\ UNCHANGED <<cluster, attempt, job, hmon, cmon, report>>

Index(stage) == CHOOSE i \in 1..4 : HostStages[i] = stage

\* V2UpdateHostInstallProgress loads the host and checks the stage against it; one
\* that is not lower is accepted, reporting the same one again writes nothing.
ReportStage(h) ==
  /\ report[h].pc = "none"
  /\ host[h].status \in Installing
  /\ \E stage \in HostStage :
       /\ Index(stage) > Index(host[h].stage)
       /\ report' = [report EXCEPT ![h] = [pc |-> "write", status |-> host[h].status, to |-> stage]]
  /\ UNCHANGED <<cluster, attempt, job, host, hmon, cmon, disturbed>>

\* UpdateHostProgress writes the stage if the status is still the one it loaded.
WriteStage(h) ==
  /\ report[h].pc = "write"
  /\ IF StatusAsLoaded(host[h], report[h].status)
     THEN /\ host' = [host EXCEPT ![h] =
                        [@ EXCEPT !.stage = report[h].to, !.late = FALSE, !.stuck = FALSE]]
          /\ report' = [report EXCEPT ![h] = AfterStage]
     ELSE /\ host' = host
          /\ report' = [report EXCEPT ![h] = NoReport]
  /\ UNCHANGED <<cluster, attempt, job, hmon, cmon, disturbed>>

\* ... loads the host again, and runs the machine on it: a rule without a post-transition
\* leaves the host as it is ...
HostProgress(h) ==
  LET moves == {r \in Runs(HostProgressRules(HostContext(host[h])), host[h].status) : r.post # "none"}
  IN
  /\ report[h].pc = "run"
  /\ \/ moves = {} /\ report' = [report EXCEPT ![h] = NoReport]
     \/ \E r \in moves :
          report' = [report EXCEPT ![h] = [pc |-> "commit", status |-> host[h].status, to |-> r.to]]
  /\ UNCHANGED <<cluster, attempt, job, host, hmon, cmon, disturbed>>

\* ... the others write the new status if the old one is still that of the host.
CommitProgress(h) ==
  /\ report[h].pc = "commit"
  /\ host' = IF StatusAsLoaded(host[h], report[h].status)
             THEN [host EXCEPT ![h] = Moved(host[h], report[h].to)] ELSE host
  /\ report' = [report EXCEPT ![h] = NoReport]
  /\ UNCHANGED <<cluster, attempt, job, hmon, cmon, disturbed>>

\* The installer reports the stage "Failed".
ReportFailed(h) ==
  /\ host[h].status \in Installing
  /\ Disturb("failed")
  /\ host' = [host EXCEPT ![h] = Moved(host[h], "error")]
  /\ UNCHANGED <<cluster, attempt, job, hmon, cmon, report>>

\* The controller reports the monitored operators available, whatever the cluster is ...
ReportOperators ==
  /\ cluster.operators # attempt
  /\ cluster' = [cluster EXCEPT !.operators = attempt]
  /\ UNCHANGED <<attempt, job, host, hmon, cmon, report, disturbed>>

\* ... or that one of them no longer is.
OperatorFails ==
  /\ cluster.operators # 0
  /\ Disturb("operators")
  /\ cluster' = [cluster EXCEPT !.operators = 0]
  /\ UNCHANGED <<attempt, job, host, hmon, cmon, report>>

\* The check of the status and the upload, which the code does one after the other.
UploadIngressCert ==
  /\ cluster.status = "finalizing"
  /\ ~cluster.kubeconfig
  /\ cluster' = [cluster EXCEPT !.kubeconfig = TRUE]
  /\ UNCHANGED <<attempt, job, host, hmon, cmon, report, disturbed>>

----------------------------------------------------------------------------
(* Time: a timeout elapses, where a rule asks for it *)

ClusterTimesOut ==
  /\ "cluster" \in Timers
  /\ cluster.status \in {"preparing-for-installation", "finalizing"}
  /\ ~cluster.late
  /\ cluster' = [cluster EXCEPT !.late = TRUE]
  /\ UNCHANGED <<attempt, job, host, hmon, cmon, report, disturbed>>

InstallationTimesOut ==
  /\ "installation" \in Timers
  /\ \/ cluster.status = "installing-pending-user-action"
     \/ SoftTimeouts /\ cluster.soft /\ cluster.status \in ClusterInstallation
  /\ ~cluster.overdue
  /\ cluster' = [cluster EXCEPT !.overdue = TRUE]
  /\ UNCHANGED <<attempt, job, host, hmon, cmon, report, disturbed>>

HostTimesOut(h) ==
  /\ "host" \in Timers
  /\ \/ host[h].status \in {"preparing-for-installation", "installing", "installing-in-progress"}
     \/ host[h].status = "installing-pending-user-action" /\ Installed(Statuses)
  /\ ~host[h].late
  /\ host' = [host EXCEPT ![h].late = TRUE]
  /\ UNCHANGED <<cluster, attempt, job, hmon, cmon, report, disturbed>>

----------------------------------------------------------------------------
User == Install \/ CancelInstallation \/ ResetCluster \/ \E h \in Hosts : UpdateHost(h)

Job(a) == Launch(a) \/ LaunchFails(a) \/ HandlePreInstallSuccess(a) \/ HandlePreInstallError(a)

HostMonitor == HMonRead \/ \E h \in Hosts : HMonWrite(h)

ClusterMonitor ==
  CMonRead \/ CMonWrite \/ CMonInstallFails \/ CMonMarkFailed \/ CMonRetrigger \/ CMonReload

Agent(h) ==
  \/ CheckIn(h) \/ AgentSilent(h) \/ RegisterHost(h) \/ MediaDisconnected(h) \/ MediaConnected(h)
  \/ PostInventory(h) \/ PostPoorInventory(h) \/ PostImages(h) \/ PostDiskSpeed(h) \/ PostBadCheck(h)
  \/ InstallCommandFails(h) \/ ReportStage(h) \/ WriteStage(h) \/ HostProgress(h)
  \/ CommitProgress(h) \/ ReportFailed(h)

Controller == ReportOperators \/ OperatorFails \/ UploadIngressCert

Time == ClusterTimesOut \/ InstallationTimesOut \/ \E h \in Hosts : HostTimesOut(h)

Next ==
  \/ User \/ Restart \/ HostMonitor \/ ClusterMonitor \/ Controller \/ Time
  \/ \E a \in 1..MaxAttempts : Job(a)
  \/ \E h \in Hosts : Agent(h)

Spec == Init /\ [][Next]_vars

\* The monitors run on a ticker, the goroutine and a request that started end,
\* and time passes.  Nothing is asked of users and agents.
FairSpec ==
  /\ Spec
  /\ WF_vars(HostMonitor) /\ WF_vars(ClusterMonitor)
  /\ WF_vars(ClusterTimesOut) /\ WF_vars(InstallationTimesOut)
  /\ \A a \in 1..MaxAttempts : WF_vars(Job(a))
  /\ \A h \in Hosts :
       /\ WF_vars(HostTimesOut(h))
       /\ WF_vars(WriteStage(h) \/ HostProgress(h) \/ CommitProgress(h))

\* The agents and the controller answer too.
HealthySpec ==
  /\ FairSpec
  /\ WF_vars(ReportOperators \/ UploadIngressCert)
  /\ \A h \in Hosts :
       WF_vars(PostInventory(h) \/ PostImages(h) \/ PostDiskSpeed(h) \/ ReportStage(h))

----------------------------------------------------------------------------
(* Properties *)

\* Every row, snapshot and report has the shape the code gives it; in
\* particular no rule takes a cluster or a host to a status unknown here.
TypeOK ==
  /\ cluster \in ClusterRow
  /\ attempt \in 0..MaxAttempts
  /\ job \in [1..MaxAttempts -> JobState]
  /\ host \in [Hosts -> HostRow]
  /\ hmon \in [Hosts -> HostPlan \cup {NoPlan}]
  /\ cmon \in ClusterPlan \cup {NoPlan, At("mark-failed"), At("retrigger"), At("reload")}
  /\ report \in [Hosts -> StageReport \cup {NoReport, AfterStage}]
  /\ disturbed \in 0..MaxDisturbances

InstallationPhase == ClusterInstallation \cup {"installed", "error"}

\* A host runs or has run the installer only under a cluster whose installation
\* started and was neither cancelled nor reset, although the monitor that starts
\* it works on a cluster it loaded earlier.
HostsInstallOnlyInInstallation ==
  \A h \in Hosts : host[h].status \in Installing \cup {"installed"} => cluster.status \in InstallationPhase

\* The disk of a host that finished preparing, or went on to install, passed its check:
\* whatever the monitor loaded earlier, an update of the user refreshed, or an agent
\* answered late.
DisksPassed ==
  \A h \in Hosts : host[h].status \in Installing \cup {"preparing-successful"} => host[h].speed = "ok"

\* ... and its agent answered about the images since it last registered, although the
\* monitor judges answers it loaded before the agent restarted.  (The answer that counts
\* was a good one; a bad one that comes later is recorded and no longer acted on.)  It
\* holds as long as no user updates the host, which may bring a host that registered
\* again back to the status that the monitor loaded.
ImagesAnswered ==
  \A h \in Hosts :
    host[h].status \in Installing \cup {"preparing-successful"} => host[h].images # "unknown"

\* A write that the host monitor planned on older rows and that the database would
\* still accept is still right: accepted on the status alone, it never starts a
\* host of an installation that ended, nor passes one whose checks were reset.  As long
\* as no user updates the host between its read and its write: an update can bring a
\* host that registered again back to the status that was loaded.
AcceptedPlansAreRight ==
  \A h \in Hosts :
    hmon[h].pc = "write" /\ StatusAsLoaded(host[h], hmon[h].from) =>
      /\ hmon[h].to \in Installing \cup {"installed"} => cluster.status \in InstallationPhase
      /\ hmon[h].to = "preparing-successful" => host[h].speed = "ok" /\ host[h].images # "unknown"

\* An installed cluster has all the nodes its topology needs, and no node that
\* is still being installed, although the monitor counted them earlier.
InstalledClusterHasItsNodes ==
  cluster.status = "installed" =>
    /\ \A h \in Masters : host[h].status = "installed"
    /\ \A h \in Hosts : host[h].status \in {"installed", "error"}

\* Every monitored row has a rule to run.  Two exceptions: a host that failed
\* preparing waits for its cluster to notice, and a stale refresh can leave a
\* host that registered again without an inventory outside "discovering".
RefreshIsDefined ==
  /\ Matching(ClusterRefreshRules(ClusterContext(cluster, Statuses)), cluster.status) # {}
  /\ \A h \in Hosts :
       \/ Matching(HostRefreshRules(HostContext(host[h])), host[h].status) # {}
       \/ host[h].status = "preparing-failed" /\ cluster.status = "preparing-for-installation"
       \/ host[h].status \in Discovery /\ host[h].inventory = "none"

StaysEnded ==
  /\ cluster.status = "installed" => cluster'.status = "installed"
  /\ cluster.status = "error" => cluster'.status \in {"error", "cancelled", "insufficient"}
  /\ cluster.status = "cancelled" => cluster'.status \in {"cancelled", "insufficient"}
  /\ \A h \in Hosts : host[h].status = "error" =>
       host'[h].status \in {"error", "cancelled", "resetting-pending-user-action"}

\* No late write revives an installation that ended: an installed cluster stays
\* so, a failed one is cancelled or reset, a cancelled one is reset; a host in
\* error is cancelled or reset.
EndedInstallationsStayEnded == [][StaysEnded]_vars

\* A preparation always ends, whatever hosts and goroutine do: together the
\* timeouts of cluster and host and the rules for failures leave no gap. (That a
\* cluster which is preparing leaves that status is the same as that it is in
\* another one again and again; the properties below are stated that way.)
PreparationEnds == []<>(cluster.status # "preparing-for-installation")

\* An installation always ends, whatever hosts and users do.
InstallationEnds == []<>(cluster.status \notin ClusterInstallation)

\* A host does not stay in a preparation that its cluster left.
HostsLeavePreparation ==
  \A h \in Hosts :
    []<>(host[h].status \notin Preparing \/ cluster.status = "preparing-for-installation")

\* No host goes on installing under a cluster that failed.
FailedClusterStopsHosts ==
  \A h \in Hosts :
    []<>(host[h].status \notin Installing \/ cluster.status # "error")

\* Once the preparation succeeded, failing DNS requests only delay an installation
\* whose hosts answer: nobody waits for an event that cannot come.
PreparedInstallationSucceeds ==
  (attempt = 1 /\ job[1] = "ok") ~> (cluster.status = "installed")

----------------------------------------------------------------------------
(* What the documentation of the code says of it, and the code does not do *)

\* "This transition is fired when cluster installation preperation is complete
\* and all hosts within the cluster have also finished preparing"
\* (cluster/statemachine.go, "Refresh preparing cluster - done preparing"): the
\* goroutine of the installation that is running ended.
InstallingAfterPreparation ==
  cluster.status = "installing" => job[attempt] \notin {"launching", "running"}

\* "The cluster installation is considered complete, all operators are healthy
\* and the cluster is ready to use" (cluster/statemachine.go, state Installed):
\* the operators reported in this installation.
InstalledMeansOperatorsHealthy ==
  cluster.status = "installed" => cluster.operators = attempt
=============================================================================
