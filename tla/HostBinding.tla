---------------------------- MODULE HostBinding ----------------------------
(***************************************************************************)
(* Hosts of a late-binding InfraEnv and the clusters they are bound to.     *)
(* The wish is the cluster reference of the Agent resource; the Agent       *)
(* controller turns it into binding and unbinding, the ClusterDeployment    *)
(* controller deletes clusters, the monitor refreshes the hosts of the pool *)
(* and each machine registers when its agent starts.  They share rows of    *)
(* the database, and every write of a status asks for the status it was     *)
(* decided on.                                                              *)
(***************************************************************************)
EXTENDS Integers

CONSTANTS
  Hosts,
  Clusters,
  Reclaimable,  \* the hosts without BareMetalHost, if there is an image service
  MaxFaults,    \* bound: agents and machines that stop, failed checks and clean-ups, restarts
  MaxChanges    \* bound: changes of wishes and deletions of clusters

ASSUME BindingAssumption ==
  /\ "none" \notin Clusters
  /\ Reclaimable \subseteq Hosts
  /\ MaxFaults \in Nat /\ MaxChanges \in Nat

VARIABLES
  host,      \* the rows of the hosts: status, cluster_id, kind
  machine,   \* what each machine runs: "starting" is an agent that did not register yet
  agent,     \* the Agent resources: cluster reference, DeprovisionInfo
  cluster,   \* the status of each cluster
  deleting,  \* the clusters whose AgentClusterInstall is being deleted
  nodes,     \* the Node resources in the clusters that were installed
  plan,      \* the write the monitor decided on, for each host
  task,      \* the reconciliation of each Agent
  changes,   \* changes so far
  faults     \* faults so far

vars == <<host, machine, agent, cluster, deleting, nodes, plan, task, changes, faults>>

None == "none"

\* The statuses of a host.  "discovering" stands for the statuses before the
\* installation in which a host is not known, "installing" for those of
\* HostInstallingStatuses, "installed" also for added-to-existing-cluster, and
\* "error" also for cancelled.
Pool == {"discovering-unbound", "insufficient-unbound", "disconnected-unbound", "known-unbound"}
Leaving == {"unbinding", "unbinding-pending-user-action", "reclaiming", "reclaiming-rebooting"}
BoundStatus == {"binding", "discovering", "known", "installing", "installed", "error"}

\* "installing" stands for the statuses from preparing-for-installation to
\* finalizing and for error, "open" for those before them.
ClusterStatus == {"open", "installing", "installed", "adding-hosts", "cancelled", "deleted"}

\* AcceptRegistration
Accepting == {"open", "adding-hosts"}

\* The clusters whose kubeconfig there is.
Reachable == {"installed", "adding-hosts"}

NoPlan == [src |-> None, dst |-> None]
Idle == [pc |-> "idle", cluster |-> None, status |-> None, reclaim |-> FALSE, deprovision |-> None]

\* Hosts that just registered; some have been given a cluster already.
Init ==
  /\ host = [h \in Hosts |-> [status |-> "discovering-unbound", cluster |-> None, day2 |-> FALSE]]
  /\ machine = [h \in Hosts |-> "discovery"]
  /\ agent \in [Hosts -> [wish : Clusters \cup {None}, deprovision : {None}]]
  /\ cluster = [c \in Clusters |-> "open"]
  /\ deleting = {} /\ nodes = {}
  /\ plan = [h \in Hosts |-> NoPlan]
  /\ task = [h \in Hosts |-> Idle]
  /\ changes = 0 /\ faults = 0

Fault == faults < MaxFaults /\ faults' = faults + 1
Change == changes < MaxChanges /\ changes' = changes + 1

\* PostUnbindHost: the cluster, the kind and what was learned in it are gone.
Unbound(status) == [status |-> status, cluster |-> None, day2 |-> FALSE]

----------------------------------------------------------------------------
(* The machine and its agent *)

\* Mutant: a host that was unbound in or after its installation is not taken back.
PoolRegistrationNotPending == Pool \cup {"unbinding", "reclaiming-rebooting"}

\* The statuses a host of the pool registers from ...
PoolRegistration == Pool \cup {"unbinding", "unbinding-pending-user-action", "reclaiming-rebooting"}

\* ... and a bound one.
BoundRegistration == {"binding", "discovering", "known"}

\* V2RegisterHost, by an agent that starts.  Without the cluster it is bound to, a
\* host cannot register.
Register(h) ==
  /\ machine[h] = "starting"
  /\ \/ /\ host[h].cluster = None
        /\ host[h].status \in PoolRegistration
        /\ host' = [host EXCEPT ![h].status = "discovering-unbound"]
     \/ /\ host[h].cluster # None
        /\ cluster[host[h].cluster] # "deleted"
        /\ host[h].status \in BoundRegistration
        /\ host' = [host EXCEPT ![h].status = "discovering",
                                ![h].day2 = cluster[host[h].cluster] = "adding-hosts"]
  /\ machine' = [machine EXCEPT ![h] = "discovery"]
  /\ UNCHANGED <<agent, cluster, deleting, nodes, plan, task, changes, faults>>

\* The agent exits, and is started again: on the instructions of the service ...
StepsExit(h) ==
  /\ machine[h] = "discovery"
  /\ host[h].status \in {"binding", "unbinding", "unbinding-pending-user-action"}
  /\ machine' = [machine EXCEPT ![h] = "starting"]
  /\ UNCHANGED <<host, agent, cluster, deleting, nodes, plan, task, changes, faults>>

\* ... or by itself.
AgentRestarts(h) ==
  /\ machine[h] = "discovery"
  /\ host[h].status \in PoolRegistration \cup BoundRegistration
  /\ Fault
  /\ machine' = [machine EXCEPT ![h] = "starting"]
  /\ UNCHANGED <<host, agent, cluster, deleting, nodes, plan, task, changes>>

Stops(h) ==
  /\ machine[h] = "discovery"
  /\ Fault
  /\ machine' = [machine EXCEPT ![h] = "off"]
  /\ UNCHANGED <<host, agent, cluster, deleting, nodes, plan, task, changes>>

\* A step reply tells that the medium the agent runs from is gone.
MediaDisconnected(h) ==
  LET s == host[h].status IN
  /\ machine[h] = "discovery"
  /\ s \in Pool \cup {"unbinding", "binding", "discovering", "known", "installing", "error"}
  /\ Fault
  /\ machine' = [machine EXCEPT ![h] = "off"]
  /\ host' = [host EXCEPT ![h].status =
       CASE s \in Pool \cup {"unbinding"} -> "disconnected-unbound"
         [] s \in {"binding", "discovering", "known"} -> "discovering"
         [] OTHER -> "error"]
  /\ UNCHANGED <<agent, cluster, deleting, nodes, plan, task, changes>>

\* The user, or the BareMetalOperator, boots the discovery image: a machine that
\* stopped, and one whose status asks for it.
Boot(h) ==
  /\ machine[h] = "off" \/ (machine[h] = "node" /\ host[h].status = "unbinding-pending-user-action")
  /\ machine' = [machine EXCEPT ![h] = "starting"]
  /\ UNCHANGED <<host, agent, cluster, deleting, nodes, plan, task, changes, faults>>

\* The agent that the DaemonSet starts on the node.
DownloadBootArtifacts(h) ==
  /\ machine[h] = "node"
  /\ host[h].status = "reclaiming"
  /\ host' = [host EXCEPT ![h].status = "reclaiming-rebooting"]
  /\ UNCHANGED <<machine, agent, cluster, deleting, nodes, plan, task, changes, faults>>

DownloadFails(h) ==
  /\ machine[h] = "node"
  /\ host[h].status = "reclaiming"
  /\ host' = [host EXCEPT ![h] = Unbound("unbinding-pending-user-action")]
  /\ UNCHANGED <<machine, agent, cluster, deleting, nodes, plan, task, changes, faults>>

RebootForReclaim(h) ==
  /\ machine[h] = "node"
  /\ host[h].status = "reclaiming-rebooting"
  /\ machine' = [machine EXCEPT ![h] = "starting"]
  /\ UNCHANGED <<host, agent, cluster, deleting, nodes, plan, task, changes, faults>>

----------------------------------------------------------------------------
(* The installation, as far as binding depends on it *)

\* The refresh of a bound host: monitored with its cluster, while there is one.
RefreshBound(h) ==
  LET to == IF machine[h] = "discovery" THEN "known" ELSE "discovering" IN
  /\ host[h].status \in {"discovering", "known"} \ {to}
  /\ cluster[host[h].cluster] # "deleted"
  /\ host' = [host EXCEPT ![h].status = to]
  /\ UNCHANGED <<machine, agent, cluster, deleting, nodes, plan, task, changes, faults>>

\* Every host of the cluster is known, and there is one.
StartInstallation(c) ==
  LET bound == {h \in Hosts : host[h].cluster = c} IN
  /\ cluster[c] = "open"
  /\ bound # {} /\ \A h \in bound : host[h].status = "known"
  /\ cluster' = [cluster EXCEPT ![c] = "installing"]
  /\ host' = [h \in Hosts |-> IF h \in bound THEN [host[h] EXCEPT !.status = "installing"] ELSE host[h]]
  /\ UNCHANGED <<machine, agent, deleting, nodes, plan, task, changes, faults>>

\* A day-2 host is installed by itself.
StartDay2Installation(h) ==
  /\ host[h].status = "known" /\ host[h].day2
  /\ cluster[host[h].cluster] = "adding-hosts"
  /\ host' = [host EXCEPT ![h].status = "installing"]
  /\ UNCHANGED <<machine, agent, cluster, deleting, nodes, plan, task, changes, faults>>

\* The machine boots from its disk and joins the cluster.
Joins(h) ==
  /\ host[h].status = "installing" /\ machine[h] = "discovery"
  /\ machine' = [machine EXCEPT ![h] = "node"]
  /\ nodes' = nodes \cup {<<h, host[h].cluster>>}
  /\ UNCHANGED <<host, agent, cluster, deleting, plan, task, changes, faults>>

Installed(h) ==
  /\ host[h].status = "installing" /\ machine[h] = "node"
  /\ host' = [host EXCEPT ![h].status = "installed"]
  /\ UNCHANGED <<machine, agent, cluster, deleting, nodes, plan, task, changes, faults>>

\* At the latest by a timeout.
InstallationFails(h) ==
  /\ host[h].status = "installing"
  /\ host' = [host EXCEPT ![h].status = "error"]
  /\ UNCHANGED <<machine, agent, cluster, deleting, nodes, plan, task, changes, faults>>

\* The cluster is installed, and the controller makes it one that hosts are added to.
InstallationEnds(c) ==
  /\ \/ /\ cluster[c] = "installing"
        /\ \A h \in Hosts : host[h].cluster = c => host[h].status # "installing"
        /\ \E h \in Hosts : host[h].cluster = c /\ host[h].status = "installed"
        /\ cluster' = [cluster EXCEPT ![c] = "installed"]
     \/ /\ cluster[c] = "installed" /\ c \notin deleting
        /\ cluster' = [cluster EXCEPT ![c] = "adding-hosts"]
  /\ UNCHANGED <<host, machine, agent, deleting, nodes, plan, task, changes, faults>>

----------------------------------------------------------------------------
(* The monitor of the pool *)

\* Mutant: hosts that are reclaimed are not monitored.
MonitoredNotReclaimed == Pool

\* The statuses infraEnvHostMonitoring refreshes, of hosts without a cluster.
Monitored == Pool \cup {"reclaiming", "reclaiming-rebooting"}

\* Mutant: the status of a bound host.
RefreshToKnown(h) ==
  CASE host[h].status \in {"reclaiming", "reclaiming-rebooting"} -> "unbinding-pending-user-action"
    [] machine[h] = "discovery" -> "known"
    [] OTHER -> "disconnected-unbound"

\* The status a refresh of a host of the pool ends in; a reclamation times out.
RefreshTo(h) ==
  CASE host[h].status \in {"reclaiming", "reclaiming-rebooting"} -> "unbinding-pending-user-action"
    [] machine[h] = "discovery" -> "known-unbound"
    [] OTHER -> "disconnected-unbound"

PlanRefresh(h) ==
  /\ plan[h] = NoPlan
  /\ host[h].cluster = None
  /\ host[h].status \in Monitored \ {RefreshTo(h)}
  /\ plan' = [plan EXCEPT ![h] = [src |-> host[h].status, dst |-> RefreshTo(h)]]
  /\ UNCHANGED <<host, machine, agent, cluster, deleting, nodes, task, changes, faults>>

\* A validation fails, for a time.
PlanInsufficient(h) ==
  /\ plan[h] = NoPlan
  /\ machine[h] = "discovery"
  /\ host[h].status \in Pool
  /\ Fault
  /\ plan' = [plan EXCEPT ![h] = [src |-> host[h].status, dst |-> "insufficient-unbound"]]
  /\ UNCHANGED <<host, machine, agent, cluster, deleting, nodes, task, changes>>

\* Mutant: the write does not ask for the status.
CommitRefreshBlindly(h) ==
  /\ plan[h] # NoPlan
  /\ host' = [host EXCEPT ![h].status = plan[h].dst]
  /\ plan' = [plan EXCEPT ![h] = NoPlan]
  /\ UNCHANGED <<machine, agent, cluster, deleting, nodes, task, changes, faults>>

CommitRefresh(h) ==
  /\ plan[h] # NoPlan
  /\ host' = IF host[h].status = plan[h].src THEN [host EXCEPT ![h].status = plan[h].dst] ELSE host
  /\ plan' = [plan EXCEPT ![h] = NoPlan]
  /\ UNCHANGED <<machine, agent, cluster, deleting, nodes, task, changes, faults>>

----------------------------------------------------------------------------
(* The Agent controller: one reconciliation of an Agent at a time *)

SetClusterReference(h, w) ==
  /\ w # agent[h].wish
  /\ w # None => cluster[w] # "deleted"
  /\ Change
  /\ agent' = [agent EXCEPT ![h].wish = w]
  /\ UNCHANGED <<host, machine, cluster, deleting, nodes, plan, task, faults>>

\* The host left its cluster some time ago, and is not in the middle of leaving.
ShouldClean(h) == agent[h].deprovision # None /\ host[h].status \notin Leaving

\* cleanUnboundSpokeNode: without its kubeconfig the cluster is left as it is.
Clean(h) ==
  LET old == agent[h].deprovision IN
  IF ShouldClean(h)
  THEN /\ nodes' = IF cluster[old] \in Reachable THEN nodes \ {<<h, old>>} ELSE nodes
       /\ agent' = [agent EXCEPT ![h].deprovision = None]
  ELSE UNCHANGED <<nodes, agent>>

\* What a reconciliation goes on to do by the host it loaded: unbind it, ask
\* BindHostInternal to bind it, or end.
Decision(h) ==
  LET w == agent[h].wish
      unbind == [Idle EXCEPT !.pc = "unbind", !.cluster = host[h].cluster]
  IN
  CASE w = None /\ host[h].cluster # None /\ (host[h].status = "installing" => host[h].day2) -> unbind
    [] w # None /\ cluster[w] # "deleted" /\ host[h].cluster \notin {None, w} -> unbind
    [] w # None /\ cluster[w] # "deleted" /\ host[h].cluster = None ->
         [Idle EXCEPT !.pc = "ask", !.cluster = w]
    [] OTHER -> Idle

Reconcile(h) ==
  /\ task[h] = Idle
  /\ Clean(h)
  /\ task' = [task EXCEPT ![h] = Decision(h)]
  /\ UNCHANGED <<host, machine, cluster, deleting, plan, changes, faults>>

\* Mutant: the clean-up is forgotten.
CleanFailsAndForgets(h) ==
  /\ task[h] = Idle
  /\ ShouldClean(h)
  /\ Fault
  /\ agent' = [agent EXCEPT ![h].deprovision = None]
  /\ UNCHANGED <<host, machine, cluster, deleting, nodes, plan, task, changes>>

\* The old cluster does not answer: the reconciliation ends and is repeated.
CleanFails(h) ==
  /\ task[h] = Idle
  /\ ShouldClean(h)
  /\ Fault
  /\ UNCHANGED <<host, machine, agent, cluster, deleting, nodes, plan, task, changes>>

\* BindHostInternal loads the host again, which has gone on since it was looked at for
\* a clean-up: it has to be free and known, and the cluster open.
PrepareBind(h) ==
  /\ task[h].pc = "ask"
  /\ task' = [task EXCEPT ![h] =
       IF /\ host[h].cluster = None /\ host[h].status = "known-unbound"
          /\ cluster[@.cluster] \in Accepting
       THEN [@ EXCEPT !.pc = "bind"] ELSE Idle]
  /\ UNCHANGED <<host, machine, agent, cluster, deleting, nodes, plan, changes, faults>>

BindHost(h) ==
  /\ task[h].pc = "bind"
  /\ host' = IF host[h].status = "known-unbound"
             THEN [host EXCEPT ![h].status = "binding", ![h].cluster = task[h].cluster]
             ELSE host
  /\ task' = [task EXCEPT ![h] = Idle]
  /\ UNCHANGED <<machine, agent, cluster, deleting, nodes, plan, changes, faults>>

\* unbindHost until UnbindHostInternal has loaded the host again.  Starting the agent
\* for a reclamation may fail.
PrepareUnbind(h) ==
  LET c == task[h].cluster IN
  /\ task[h].pc = "unbind"
  /\ \E reclaim \in BOOLEAN :
       /\ reclaim => h \in Reclaimable /\ cluster[c] \in Reachable
       /\ task' = [task EXCEPT ![h] =
            [@ EXCEPT !.pc = "write", !.reclaim = reclaim,
                      !.status = IF host[h].cluster = None THEN None ELSE host[h].status,
                      !.deprovision = IF cluster[c] = "deleted" THEN None ELSE c]]
  /\ UNCHANGED <<host, machine, agent, cluster, deleting, nodes, plan, changes, faults>>

\* The status a host is unbound to, if its status has a rule.
UnbindTo(status, reclaim) ==
  CASE status \in {"discovering", "known"} -> "unbinding"
    [] status = "installed" /\ reclaim -> "reclaiming"
    [] status \in {"installed", "error"} -> "unbinding-pending-user-action"
    [] status = "installing" /\ ~reclaim -> "unbinding-pending-user-action"
    [] OTHER -> None

UnbindHost(h) ==
  LET to == UnbindTo(task[h].status, task[h].reclaim) IN
  /\ task[h].pc = "write"
  /\ host' = IF to # None /\ host[h].status = task[h].status
             THEN [host EXCEPT ![h] = Unbound(to)]
             ELSE host
  /\ task' = [task EXCEPT ![h].pc = "report"]
  /\ UNCHANGED <<machine, agent, cluster, deleting, nodes, plan, changes, faults>>

\* updateStatus keeps the DeprovisionInfo, whether the host was unbound or not.
UpdateStatus(h) ==
  /\ task[h].pc = "report"
  /\ agent' = [agent EXCEPT ![h].deprovision = IF task[h].deprovision = None THEN @ ELSE task[h].deprovision]
  /\ task' = [task EXCEPT ![h] = Idle]
  /\ UNCHANGED <<host, machine, cluster, deleting, nodes, plan, changes, faults>>

Restart ==
  /\ Fault
  /\ task' = [h \in Hosts |-> Idle]
  /\ plan' = [h \in Hosts |-> NoPlan]
  /\ UNCHANGED <<host, machine, agent, cluster, deleting, nodes, changes>>

----------------------------------------------------------------------------
(* The ClusterDeployment controller *)

\* CancelInstallationInternal, in one transaction that one host without a rule makes
\* fail.  While the cluster prepares, it and its hosts go back.
CancelInstallation(c) ==
  LET bound == {h \in Hosts : host[h].cluster = c}
      Become(status) ==
        host' = [h \in Hosts |-> IF h \in bound /\ host[h].status # "known"
                                 THEN [host[h] EXCEPT !.status = status] ELSE host[h]]
  IN
  \/ /\ \A h \in bound : host[h].status \in {"installing", "known"} /\ machine[h] # "node"
     /\ cluster' = [cluster EXCEPT ![c] = "open"] /\ Become("known")
  \/ /\ \A h \in bound : host[h].status \in {"installing", "installed", "error", "known"}
     /\ cluster' = [cluster EXCEPT ![c] = "cancelled"] /\ Become("error")

\* The AgentClusterInstall is deleted: an installation is cancelled, and the references
\* of the Agents are removed ...
UnbindAgents(c) ==
  /\ c \notin deleting /\ cluster[c] # "deleted"
  /\ Change
  /\ deleting' = deleting \cup {c}
  /\ IF cluster[c] = "installing" THEN CancelInstallation(c) ELSE UNCHANGED <<cluster, host>>
  /\ agent' = [h \in Hosts |-> IF agent[h].wish = c THEN [agent[h] EXCEPT !.wish = None] ELSE agent[h]]
  /\ UNCHANGED <<machine, nodes, plan, task, faults>>

\* ... and the cluster is deregistered, whatever its hosts are.
DeregisterCluster(c) ==
  /\ c \in deleting
  /\ deleting' = deleting \ {c}
  /\ cluster' = [cluster EXCEPT ![c] = "deleted"]
  /\ UNCHANGED <<host, machine, agent, nodes, plan, task, changes, faults>>

----------------------------------------------------------------------------
Machine(h) ==
  \/ Register(h) \/ StepsExit(h) \/ AgentRestarts(h) \/ Stops(h) \/ MediaDisconnected(h) \/ Boot(h)
  \/ DownloadBootArtifacts(h) \/ DownloadFails(h) \/ RebootForReclaim(h)

Installation(h) ==
  RefreshBound(h) \/ StartDay2Installation(h) \/ Joins(h) \/ Installed(h) \/ InstallationFails(h)

Monitor(h) == PlanRefresh(h) \/ PlanInsufficient(h) \/ CommitRefresh(h)

Controller(h) ==
  \/ Reconcile(h) \/ CleanFails(h) \/ PrepareBind(h) \/ BindHost(h)
  \/ PrepareUnbind(h) \/ UnbindHost(h) \/ UpdateStatus(h)

Next ==
  \/ Restart
  \/ \E h \in Hosts :
       \/ Machine(h) \/ Installation(h) \/ Monitor(h) \/ Controller(h)
       \/ \E w \in Clusters \cup {None} : SetClusterReference(h, w)
  \/ \E c \in Clusters :
       StartInstallation(c) \/ InstallationEnds(c) \/ UnbindAgents(c) \/ DeregisterCluster(c)

Spec == Init /\ [][Next]_vars

\* The monitor is periodic and Agents are reconciled again and again; an agent that
\* exited is started again, by systemd; machines are booted when their status asks
\* for it; installations of hosts end.
FairSpec ==
  /\ Spec
  /\ \A h \in Hosts :
       /\ WF_vars(Register(h)) /\ WF_vars(StepsExit(h)) /\ WF_vars(Boot(h)) /\ WF_vars(RebootForReclaim(h))
       /\ WF_vars(RefreshBound(h)) /\ WF_vars(Joins(h))
       /\ WF_vars(Installed(h) \/ InstallationFails(h))
       /\ WF_vars(PlanRefresh(h) \/ CommitRefresh(h))
       /\ WF_vars(Reconcile(h) \/ PrepareBind(h) \/ BindHost(h) \/ PrepareUnbind(h) \/ UnbindHost(h) \/ UpdateStatus(h))
  /\ \A c \in Clusters : WF_vars(InstallationEnds(c)) /\ WF_vars(DeregisterCluster(c))

----------------------------------------------------------------------------
(* Properties *)

\* Rows, resources, plans and tasks have the shape the code gives them.
TypeOK ==
  /\ host \in [Hosts -> [status : Pool \cup Leaving \cup BoundStatus,
                         cluster : Clusters \cup {None}, day2 : BOOLEAN]]
  /\ machine \in [Hosts -> {"discovery", "starting", "node", "off"}]
  /\ agent \in [Hosts -> [wish : Clusters \cup {None}, deprovision : Clusters \cup {None}]]
  /\ cluster \in [Clusters -> ClusterStatus]
  /\ deleting \subseteq Clusters /\ nodes \subseteq Hosts \X Clusters
  /\ plan \in [Hosts -> [src : Monitored \cup {None}, dst : Pool \cup Leaving \cup {None}]]
  /\ task \in [Hosts -> [pc : {"idle", "ask", "bind", "unbind", "write", "report"},
                         cluster : Clusters \cup {None}, status : BoundStatus \cup {None},
                         reclaim : BOOLEAN, deprovision : Clusters \cup {None}]]
  /\ changes \in 0..MaxChanges /\ faults \in 0..MaxFaults

\* A host has a cluster exactly if its status is one of a bound host, whichever of
\* the controller, the monitor and the machine writes last.
StatusMatchesBinding ==
  \A h \in Hosts : host[h].cluster = None <=> host[h].status \in Pool \cup Leaving

\* The host is bound to a cluster that was deleted before the host registered in it.
Stranded(h) ==
  host[h].status = "binding" /\ cluster[host[h].cluster] = "deleted"

Fulfilled(h) ==
  IF agent[h].wish = None THEN host[h].status = "known-unbound" ELSE host[h].cluster = agent[h].wish

\* The last wish for a host comes true and stays so, if its cluster accepts hosts:
\* the host is bound to the cluster, or back in the pool, unless it is stranded.
WishesComeTrue ==
  \A h \in Hosts, w \in Clusters \cup {None} :
    <>[](agent[h].wish = w /\ (w # None => cluster[w] \in Accepting))
      => <>[](Fulfilled(h) \/ Stranded(h))

\* A reclamation ends: the machine registers, or the reclamation is given up.
ReclaimEnds ==
  \A h \in Hosts :
    (host[h].status \in {"reclaiming", "reclaiming-rebooting"})
      ~> (host[h].status \notin {"reclaiming", "reclaiming-rebooting"})

\* A clean-up that is recorded happens: the node of a host that left a cluster is
\* removed, although the host is in between, the old cluster does not answer or the
\* service restarts, if the cluster is not deleted before.
OldNodesAreRemoved ==
  \A h \in Hosts, c \in Clusters :
    (agent[h].deprovision = c /\ <<h, c>> \in nodes /\ cluster[c] \in Reachable)
      ~> (<<h, c>> \notin nodes \/ cluster[c] = "deleted")

----------------------------------------------------------------------------
(* What the documentation says of the code, and the code does not do *)

\* "When a Cluster/Deployment is deleted, the Agents created with late binding will be
\* returned to the InfraEnv." (docs/hive-integration/late-binding.md): those whose
\* reference to it was removed.
HostsOfDeletedClustersReturn ==
  \A h \in Hosts, c \in Clusters :
    (cluster[c] = "deleted" /\ host[h].cluster = c /\ agent[h].wish # c)
      ~> (host[h].cluster # c \/ agent[h].wish = c)
=============================================================================
