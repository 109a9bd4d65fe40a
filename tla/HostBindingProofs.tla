------------------------- MODULE HostBindingProofs -------------------------
(***************************************************************************)
(* Safety of HostBinding for every set of hosts and clusters and any number *)
(* of faults and changes.                                                   *)
(***************************************************************************)
EXTENDS HostBinding, TLAPS

USE BindingAssumption

----------------------------------------------------------------------------
(* The inductive invariant *)

Free == Pool \cup Leaving

HostRow == [status : Free \cup BoundStatus, cluster : Clusters \cup {None}, day2 : BOOLEAN]

\* What the monitor decided on keeps a host in the pool, or on its way back to it.
PlansStayInPool ==
  \A h \in Hosts : plan[h] = NoPlan \/ (plan[h].src \in Monitored /\ plan[h].dst \in Free)

\* A reconciliation binds to a cluster; one that unbinds does so from the cluster the
\* host is bound to, if it still is.
TasksKnowTheirCluster ==
  \A h \in Hosts :
    /\ task[h].pc \in {"ask", "bind"} => task[h].cluster \in Clusters
    /\ task[h].pc \in {"unbind", "write", "report"} =>
         /\ task[h].cluster \in Clusters
         /\ host[h].cluster \in {None, task[h].cluster}

\* What the invariant says of the rows, and of all else.
RowsInv ==
  /\ host \in [Hosts -> HostRow]
  /\ \A h \in Hosts : host[h].cluster = None <=> host[h].status \in Free
  /\ PlansStayInPool
  /\ TasksKnowTheirCluster

OtherTypes ==
  /\ machine \in [Hosts -> {"discovery", "starting", "node", "off"}]
  /\ agent \in [Hosts -> [wish : Clusters \cup {None}, deprovision : Clusters \cup {None}]]
  /\ cluster \in [Clusters -> ClusterStatus]
  /\ deleting \subseteq Clusters /\ nodes \subseteq Hosts \X Clusters
  /\ plan \in [Hosts -> [src : Monitored \cup {None}, dst : Free \cup {None}]]
  /\ task \in [Hosts -> [pc : {"idle", "ask", "bind", "unbind", "write", "report"},
                         cluster : Clusters \cup {None}, status : BoundStatus \cup {None},
                         reclaim : BOOLEAN, deprovision : Clusters \cup {None}]]
  /\ changes \in 0..MaxChanges /\ faults \in 0..MaxFaults

BindingInv == RowsInv /\ OtherTypes

\* It is the type invariant and the property, with what they need of plans and tasks.
LEMMA BindingInvImplies ==
  BindingInv => TypeOK /\ StatusMatchesBinding
  BY DEF BindingInv, RowsInv, OtherTypes, TypeOK, StatusMatchesBinding, HostRow, Free

----------------------------------------------------------------------------
(* The statuses *)

\* A status of a bound host is none of the pool.
LEMMA BoundIsNotFree == \A s \in BoundStatus : s \notin Free /\ s # None
  BY DEF BoundStatus, Free, Pool, Leaving, None

\* The statuses that are written to hosts without a cluster, ...
LEMMA FreeStatuses ==
  /\ Pool \subseteq Free /\ Leaving \subseteq Free /\ Monitored \subseteq Free /\ None \notin Free
  /\ {"discovering-unbound", "insufficient-unbound", "disconnected-unbound", "known-unbound", "unbinding",
      "unbinding-pending-user-action", "reclaiming", "reclaiming-rebooting"} \subseteq Free
  BY DEF Free, Pool, Leaving, Monitored, None

\* ... and to bound ones.
LEMMA BoundStatuses ==
  {"binding", "discovering", "known", "installing", "installed", "error"} = BoundStatus
  BY DEF BoundStatus

\* A host of a valid row is bound, or its status is of the pool.
LEMMA BoundOrFree ==
  ASSUME RowsInv, NEW h \in Hosts
  PROVE  /\ host[h] \in HostRow
         /\ host[h].status \in Free \cup BoundStatus
         /\ host[h].cluster \in Clusters \cup {None}
         /\ host[h].cluster = None <=> host[h].status \in Free
         /\ host[h].cluster # None <=> host[h].status \in BoundStatus
  BY BoundIsNotFree DEF RowsInv, HostRow

----------------------------------------------------------------------------
(* Writes of rows *)

\* Writes of rows that bind no host to another cluster, and give each a status that
\* matches, keep what the invariant says of rows.
LEMMA RowsWritten ==
  ASSUME RowsInv, host' \in [Hosts -> HostRow],
         \A h \in Hosts : /\ host'[h].cluster \in {None, host[h].cluster}
                          /\ host'[h].cluster = None <=> host'[h].status \in Free,
         UNCHANGED <<plan, task>>
  PROVE  RowsInv'
<1>1. PlansStayInPool'
  BY DEF RowsInv, PlansStayInPool
<1>2. TasksKnowTheirCluster'
  BY DEF RowsInv, TasksKnowTheirCluster
<1>. QED BY <1>1, <1>2 DEF RowsInv

\* A new status for one host, bound or free as before.
LEMMA StatusWritten ==
  ASSUME RowsInv, NEW h \in Hosts, NEW s \in Free \cup BoundStatus,
         s \in Free <=> host[h].cluster = None,
         host' = [host EXCEPT ![h].status = s],
         UNCHANGED <<plan, task>>
  PROVE  RowsInv'
<1>1. host \in [Hosts -> HostRow]
  BY DEF RowsInv
<1>2. /\ host' \in [Hosts -> HostRow]
      /\ \A g \in Hosts : host'[g].cluster = host[g].cluster
      /\ \A g \in Hosts \ {h} : host'[g].status = host[g].status
      /\ host'[h].status = s
  BY <1>1 DEF HostRow
<1>. QED BY <1>2, RowsWritten, BoundOrFree

\* A host that is unbound: PostUnbindHost.
LEMMA UnboundWritten ==
  ASSUME RowsInv, NEW h \in Hosts, NEW s \in Free,
         host' = [host EXCEPT ![h] = Unbound(s)],
         UNCHANGED <<plan, task>>
  PROVE  RowsInv'
<1>1. host \in [Hosts -> HostRow]
  BY DEF RowsInv
<1>2. /\ host' \in [Hosts -> HostRow]
      /\ \A g \in Hosts \ {h} : host'[g] = host[g]
      /\ host'[h].status = s /\ host'[h].cluster = None
  BY <1>1 DEF HostRow, Unbound
<1>. QED BY <1>2, RowsWritten, BoundOrFree

\* Nothing the invariant says of rows depends on machines, clusters and nodes.
LEMMA RowsUnchanged ==
  ASSUME RowsInv, UNCHANGED <<host, plan, task>>
  PROVE  RowsInv'
  BY DEF RowsInv, PlansStayInPool, TasksKnowTheirCluster

\* Hosts that just registered satisfy the invariant.
LEMMA BindingInit == Init => BindingInv
<1>. SUFFICES ASSUME Init PROVE BindingInv
  OBVIOUS
<1>. USE DEF Init
<1>1. host \in [Hosts -> HostRow] /\ \A h \in Hosts : host[h].cluster = None <=> host[h].status \in Free
  BY FreeStatuses DEF HostRow
<1>2. PlansStayInPool /\ TasksKnowTheirCluster
  BY DEF PlansStayInPool, TasksKnowTheirCluster, Idle
<1>3. OtherTypes
  BY DEF OtherTypes, Idle, NoPlan, ClusterStatus
<1>. QED BY <1>1, <1>2, <1>3 DEF BindingInv, RowsInv

----------------------------------------------------------------------------
(* The machine and its agent *)

\* The steps of a machine and its agent keep the invariant.
LEMMA MachineStep ==
  ASSUME BindingInv, NEW h \in Hosts, Machine(h)
  PROVE  BindingInv'
<1>. USE DEF BindingInv
<1>1. CASE Register(h)
  <2>1. OtherTypes'
    BY <1>1 DEF Register, OtherTypes
  <2>2. CASE host[h].cluster = None
    <3>1. host' = [host EXCEPT ![h].status = "discovering-unbound"]
      BY <1>1, <2>2 DEF Register
    <3>. QED BY <1>1, <2>1, <2>2, <3>1, StatusWritten, FreeStatuses DEF Register
  <2>3. CASE host[h].cluster # None
    <3>1. host' = [host EXCEPT ![h].status = "discovering",
                               ![h].day2 = cluster[host[h].cluster] = "adding-hosts"]
      BY <1>1, <2>3 DEF Register
    <3>2. host \in [Hosts -> HostRow]
      BY DEF RowsInv
    <3>3. /\ host' \in [Hosts -> HostRow]
          /\ \A g \in Hosts \ {h} : host'[g] = host[g]
          /\ host'[h].cluster = host[h].cluster /\ host'[h].status = "discovering"
      BY <3>1, <3>2, BoundStatuses DEF HostRow
    <3>. QED BY <1>1, <2>1, <2>3, <3>3, RowsWritten, BoundOrFree, BoundIsNotFree, BoundStatuses DEF Register
  <2>. QED BY <2>2, <2>3
<1>2. CASE StepsExit(h)
  BY <1>2, RowsUnchanged DEF StepsExit, OtherTypes
<1>3. CASE AgentRestarts(h)
  BY <1>3, RowsUnchanged DEF AgentRestarts, OtherTypes, Fault
<1>4. CASE Stops(h)
  BY <1>4, RowsUnchanged DEF Stops, OtherTypes, Fault
<1>5. CASE MediaDisconnected(h)
  <2>1. OtherTypes'
    BY <1>5 DEF MediaDisconnected, OtherTypes, Fault
  <2>2. PICK s \in Free \cup BoundStatus :
          /\ host' = [host EXCEPT ![h].status = s]
          /\ s \in Free <=> host[h].status \in Free
    <3>1. CASE host[h].status \in Pool \cup {"unbinding"}
      <4>1. host[h].status \notin {"binding", "discovering", "known"}
        BY <3>1, BoundIsNotFree, BoundStatuses, FreeStatuses
      <4>2. host' = [host EXCEPT ![h].status = "disconnected-unbound"]
        BY <1>5, <3>1, <4>1 DEF MediaDisconnected
      <4>. QED BY <3>1, <4>2, FreeStatuses
    <3>2. CASE host[h].status \in {"binding", "discovering", "known"}
      <4>1. host[h].status \notin Pool \cup {"unbinding"}
        BY <3>2, BoundIsNotFree, BoundStatuses, FreeStatuses
      <4>. QED BY <1>5, <3>2, <4>1, BoundStatuses, BoundIsNotFree DEF MediaDisconnected
    <3>3. CASE host[h].status \in {"installing", "error"}
      <4>1. host[h].status \notin Pool \cup {"unbinding"}
        BY <3>3, BoundIsNotFree, BoundStatuses, FreeStatuses
      <4>. QED BY <1>5, <3>3, <4>1, BoundStatuses, BoundIsNotFree DEF MediaDisconnected
    <3>. QED BY <1>5, <3>1, <3>2, <3>3 DEF MediaDisconnected
  <2>. QED BY <1>5, <2>1, <2>2, StatusWritten, BoundOrFree DEF MediaDisconnected
<1>6. CASE Boot(h)
  BY <1>6, RowsUnchanged DEF Boot, OtherTypes
<1>7. CASE DownloadBootArtifacts(h)
  <2>1. OtherTypes'
    BY <1>7 DEF DownloadBootArtifacts, OtherTypes
  <2>. QED BY <1>7, <2>1, StatusWritten, BoundOrFree, FreeStatuses DEF DownloadBootArtifacts
<1>8. CASE DownloadFails(h)
  <2>1. OtherTypes'
    BY <1>8 DEF DownloadFails, OtherTypes
  <2>. QED BY <1>8, <2>1, UnboundWritten, FreeStatuses DEF DownloadFails
<1>9. CASE RebootForReclaim(h)
  BY <1>9, RowsUnchanged DEF RebootForReclaim, OtherTypes
<1>. QED BY <1>1, <1>2, <1>3, <1>4, <1>5, <1>6, <1>7, <1>8, <1>9 DEF Machine

----------------------------------------------------------------------------
(* The installation *)

\* The steps of the installation of a host keep the invariant.
LEMMA InstallationStep ==
  ASSUME BindingInv, NEW h \in Hosts, Installation(h)
  PROVE  BindingInv'
<1>. USE DEF BindingInv
<1>1. CASE RefreshBound(h)
  <2>1. OtherTypes'
    BY <1>1 DEF RefreshBound, OtherTypes
  <2>. QED BY <1>1, <2>1, StatusWritten, BoundOrFree, BoundIsNotFree, BoundStatuses DEF RefreshBound
<1>2. CASE StartDay2Installation(h)
  <2>1. OtherTypes'
    BY <1>2 DEF StartDay2Installation, OtherTypes
  <2>. QED BY <1>2, <2>1, StatusWritten, BoundOrFree, BoundIsNotFree, BoundStatuses DEF StartDay2Installation
<1>3. CASE Joins(h)
  <2>1. host[h].cluster \in Clusters
    BY <1>3, BoundOrFree, BoundStatuses DEF Joins
  <2>2. OtherTypes'
    BY <1>3, <2>1 DEF Joins, OtherTypes
  <2>. QED BY <1>3, <2>2, RowsUnchanged DEF Joins
<1>4. CASE Installed(h)
  <2>1. OtherTypes'
    BY <1>4 DEF Installed, OtherTypes
  <2>. QED BY <1>4, <2>1, StatusWritten, BoundOrFree, BoundIsNotFree, BoundStatuses DEF Installed
<1>5. CASE InstallationFails(h)
  <2>1. OtherTypes'
    BY <1>5 DEF InstallationFails, OtherTypes
  <2>. QED BY <1>5, <2>1, StatusWritten, BoundOrFree, BoundIsNotFree, BoundStatuses DEF InstallationFails
<1>. QED BY <1>1, <1>2, <1>3, <1>4, <1>5 DEF Installation

\* A status of a bound host is given to some hosts of one cluster.
LEMMA BoundHostsWritten ==
  ASSUME RowsInv, NEW c \in Clusters, NEW s \in BoundStatus, NEW S,
         \A h \in S : h \in Hosts => host[h].cluster = c,
         host' = [h \in Hosts |-> IF h \in S THEN [host[h] EXCEPT !.status = s] ELSE host[h]],
         UNCHANGED <<plan, task>>
  PROVE  RowsInv'
<1>1. host \in [Hosts -> HostRow]
  BY DEF RowsInv
<1>2. \A h \in Hosts : host'[h] = IF h \in S THEN [host[h] EXCEPT !.status = s] ELSE host[h]
  OBVIOUS
<1>3. ASSUME NEW h \in Hosts
      PROVE  /\ host'[h] \in HostRow /\ host'[h].cluster = host[h].cluster
             /\ host'[h].cluster = None <=> host'[h].status \in Free
  <2>1. CASE h \in S
    <3>1. host'[h] = [host[h] EXCEPT !.status = s]
      BY <1>2, <2>1
    <3>2. host'[h] \in HostRow /\ host'[h].cluster = host[h].cluster /\ host'[h].status = s
      BY <1>1, <3>1 DEF HostRow
    <3>. QED BY <2>1, <3>2, BoundIsNotFree DEF None
  <2>2. CASE h \notin S
    BY <1>1, <1>2, <2>2, BoundOrFree
  <2>. QED BY <2>1, <2>2
<1>4. host' \in [Hosts -> HostRow]
  BY <1>2, <1>3
<1>. QED BY <1>3, <1>4, RowsWritten

\* So do the steps of a cluster: its installation ...
LEMMA StartInstallationStep ==
  ASSUME BindingInv, NEW c \in Clusters, StartInstallation(c)
  PROVE  BindingInv'
<1>. USE DEF BindingInv
<1>. DEFINE bound == {h \in Hosts : host[h].cluster = c}
<1>1. OtherTypes'
  BY DEF StartInstallation, OtherTypes, ClusterStatus
<1>2. host' = [h \in Hosts |-> IF h \in bound THEN [host[h] EXCEPT !.status = "installing"] ELSE host[h]]
  BY DEF StartInstallation
<1>3. \A h \in bound : host[h].cluster = c
  OBVIOUS
<1>4. UNCHANGED <<plan, task>> /\ "installing" \in BoundStatus
  BY BoundStatuses DEF StartInstallation
<1>. HIDE DEF bound
<1>. QED BY <1>1, <1>2, <1>3, <1>4, BoundHostsWritten

\* ... its end ...
LEMMA InstallationEndsStep ==
  ASSUME BindingInv, NEW c \in Clusters, InstallationEnds(c)
  PROVE  BindingInv'
<1>1. OtherTypes'
  BY DEF InstallationEnds, OtherTypes, ClusterStatus, BindingInv
<1>. QED BY <1>1, RowsUnchanged DEF InstallationEnds, BindingInv

\* ... and its deletion, which cancels an installation.
LEMMA UnbindAgentsStep ==
  ASSUME BindingInv, NEW c \in Clusters, UnbindAgents(c)
  PROVE  BindingInv'
<1>. USE DEF BindingInv
<1>. DEFINE bound == {h \in Hosts : host[h].cluster = c}
            others == {h \in bound : host[h].status # "known"}
            Become(s) == host' = [h \in Hosts |-> IF h \in others THEN [host[h] EXCEPT !.status = s] ELSE host[h]]
<1>1. \/ UNCHANGED <<cluster, host>>
      \/ cluster' = [cluster EXCEPT ![c] = "open"] /\ Become("known")
      \/ cluster' = [cluster EXCEPT ![c] = "cancelled"] /\ Become("error")
  BY DEF UnbindAgents, CancelInstallation
<1>2. \A h \in others : host[h].cluster = c
  OBVIOUS
<1>. HIDE DEF others
<1>3. OtherTypes'
  <2>1. agent' \in [Hosts -> [wish : Clusters \cup {None}, deprovision : Clusters \cup {None}]]
    BY DEF UnbindAgents, OtherTypes
  <2>2. cluster' \in [Clusters -> ClusterStatus]
    BY <1>1 DEF OtherTypes, ClusterStatus
  <2>. QED BY <2>1, <2>2 DEF UnbindAgents, OtherTypes, Change
<1>4. CASE UNCHANGED host
  BY <1>3, <1>4, RowsUnchanged DEF UnbindAgents
<1>5. CASE Become("known")
  BY <1>2, <1>3, <1>5, BoundHostsWritten, BoundStatuses DEF UnbindAgents
<1>6. CASE Become("error")
  BY <1>2, <1>3, <1>6, BoundHostsWritten, BoundStatuses DEF UnbindAgents
<1>. QED BY <1>1, <1>4, <1>5, <1>6

\* The deletion ends.
LEMMA DeregisterClusterStep ==
  ASSUME BindingInv, NEW c \in Clusters, DeregisterCluster(c)
  PROVE  BindingInv'
<1>1. OtherTypes'
  BY DEF DeregisterCluster, OtherTypes, ClusterStatus, BindingInv
<1>. QED BY <1>1, RowsUnchanged DEF DeregisterCluster, BindingInv

----------------------------------------------------------------------------
(* The monitor of the pool *)

\* Plans of the monitor are made for hosts without a cluster and keep them free.
LEMMA MonitorStep ==
  ASSUME BindingInv, NEW h \in Hosts, Monitor(h)
  PROVE  BindingInv'
<1>. USE DEF BindingInv
<1>1. ASSUME NEW src \in Monitored, NEW dst \in Free,
             plan' = [plan EXCEPT ![h] = [src |-> src, dst |-> dst]],
             UNCHANGED <<host, machine, agent, cluster, deleting, nodes, task, changes>>,
             faults' \in 0..MaxFaults
      PROVE  BindingInv'
  <2>1. OtherTypes'
    BY <1>1 DEF OtherTypes
  <2>2. PlansStayInPool'
    BY <1>1 DEF RowsInv, OtherTypes, PlansStayInPool
  <2>. QED BY <1>1, <2>1, <2>2 DEF RowsInv, TasksKnowTheirCluster
<1>2. CASE PlanRefresh(h)
  <2>1. RefreshTo(h) \in Free
    BY FreeStatuses DEF RefreshTo
  <2>. QED BY <1>1, <1>2, <2>1 DEF PlanRefresh, OtherTypes
<1>3. CASE PlanInsufficient(h)
  <2>1. Pool \subseteq Monitored
    BY DEF Monitored
  <2>2. host[h].status \in Monitored /\ "insufficient-unbound" \in Free /\ faults' \in 0..MaxFaults
    BY <1>3, <2>1, FreeStatuses DEF PlanInsufficient, Fault, OtherTypes
  <2>. QED BY <1>1, <1>3, <2>2 DEF PlanInsufficient
<1>4. CASE CommitRefresh(h)
  <2>1. plan[h].src \in Free /\ plan[h].dst \in Free
    BY <1>4, FreeStatuses DEF CommitRefresh, RowsInv, PlansStayInPool
  <2>2. /\ plan' \in [Hosts -> [src : Monitored \cup {None}, dst : Free \cup {None}]]
        /\ \A g \in Hosts : plan'[g] = NoPlan \/ plan'[g] = plan[g]
    BY <1>4 DEF CommitRefresh, OtherTypes, NoPlan
  <2>3. OtherTypes'
    BY <1>4, <2>2 DEF CommitRefresh, OtherTypes
  <2>4. PlansStayInPool'
    BY <2>2 DEF RowsInv, PlansStayInPool
  <2>5. CASE UNCHANGED host
    BY <1>4, <2>3, <2>4, <2>5 DEF CommitRefresh, RowsInv, TasksKnowTheirCluster
  <2>6. CASE host[h].status = plan[h].src /\ host' = [host EXCEPT ![h].status = plan[h].dst]
    <3>1. host \in [Hosts -> HostRow]
      BY DEF RowsInv
    <3>2. /\ host' \in [Hosts -> HostRow]
          /\ \A g \in Hosts : host'[g].cluster = host[g].cluster
          /\ \A g \in Hosts \ {h} : host'[g].status = host[g].status
          /\ host'[h].status = plan[h].dst
      BY <2>1, <2>6, <3>1 DEF HostRow
    <3>3. \A g \in Hosts : host'[g].cluster = None <=> host'[g].status \in Free
      BY <2>1, <2>6, <3>2, BoundOrFree
    <3>4. TasksKnowTheirCluster'
      BY <1>4, <3>2 DEF CommitRefresh, RowsInv, TasksKnowTheirCluster
    <3>. QED BY <2>3, <2>4, <3>2, <3>3, <3>4 DEF RowsInv
  <2>. QED BY <1>4, <2>5, <2>6 DEF CommitRefresh
<1>. QED BY <1>2, <1>3, <1>4 DEF Monitor

----------------------------------------------------------------------------
(* The Agent controller *)

Task ==
  [pc : {"idle", "ask", "bind", "unbind", "write", "report"}, cluster : Clusters \cup {None},
   status : BoundStatus \cup {None}, reclaim : BOOLEAN, deprovision : Clusters \cup {None}]

AgentRow == [wish : Clusters \cup {None}, deprovision : Clusters \cup {None}]

\* What a reconciliation goes on to do, with the host it was decided on.
LEMMA DecisionIsRight ==
  ASSUME BindingInv, NEW h \in Hosts
  PROVE  /\ Decision(h) \in Task
         /\ Decision(h).pc \in {"idle", "ask", "unbind"}
         /\ Decision(h).pc = "ask" => Decision(h).cluster \in Clusters
         /\ Decision(h).pc = "unbind" => Decision(h).cluster = host[h].cluster /\ host[h].cluster \in Clusters
<1>. DEFINE w == agent[h].wish
            unbind == [Idle EXCEPT !.pc = "unbind", !.cluster = host[h].cluster]
            ask == [Idle EXCEPT !.pc = "ask", !.cluster = w]
<1>1. w \in Clusters \cup {None} /\ host[h].cluster \in Clusters \cup {None}
  BY BoundOrFree DEF BindingInv, OtherTypes
<1>2. \/ Decision(h) = Idle
      \/ Decision(h) = unbind /\ host[h].cluster # None
      \/ Decision(h) = ask /\ w # None
  BY DEF Decision
<1>. HIDE DEF w
<1>3. CASE Decision(h) = Idle
  BY <1>3 DEF Idle, Task
<1>4. CASE Decision(h) = unbind /\ host[h].cluster # None
  BY <1>1, <1>4 DEF Idle, Task
<1>5. CASE Decision(h) = ask /\ w # None
  BY <1>1, <1>5 DEF Idle, Task
<1>. QED BY <1>2, <1>3, <1>4, <1>5

\* The steps of the controller keep the invariant.
LEMMA ControllerStep ==
  ASSUME BindingInv, NEW h \in Hosts, Controller(h)
  PROVE  BindingInv'
<1>. USE DEF BindingInv
<1>1. task \in [Hosts -> Task] /\ agent \in [Hosts -> AgentRow] /\ host \in [Hosts -> HostRow]
  BY DEF OtherTypes, RowsInv, Task, AgentRow
<1>2. CASE Reconcile(h)
  <2>1. agent' \in [Hosts -> AgentRow] /\ nodes' \subseteq Hosts \X Clusters
    <3>1. nodes' \subseteq nodes /\ nodes \subseteq Hosts \X Clusters
      BY <1>2 DEF Reconcile, Clean, OtherTypes
    <3>2. CASE ShouldClean(h)
      <4>1. agent' = [agent EXCEPT ![h].deprovision = None]
        BY <1>2, <3>2 DEF Reconcile, Clean
      <4>. QED BY <1>1, <3>1, <4>1 DEF AgentRow
    <3>3. CASE ~ShouldClean(h)
      BY <1>1, <1>2, <3>1, <3>3 DEF Reconcile, Clean
    <3>. QED BY <3>2, <3>3
  <2>2. task' \in [Hosts -> Task] /\ task'[h] = Decision(h) /\ \A g \in Hosts \ {h} : task'[g] = task[g]
    BY <1>1, <1>2, DecisionIsRight DEF Reconcile
  <2>3. OtherTypes'
    BY <1>2, <2>1, <2>2 DEF Reconcile, OtherTypes, Task, AgentRow
  <2>4. TasksKnowTheirCluster'
    BY <1>2, <2>2, DecisionIsRight DEF Reconcile, RowsInv, TasksKnowTheirCluster
  <2>. QED BY <1>2, <2>3, <2>4 DEF Reconcile, RowsInv, PlansStayInPool
<1>3. CASE CleanFails(h)
  <2>1. OtherTypes'
    BY <1>3 DEF CleanFails, OtherTypes, Fault
  <2>. QED BY <1>3, <2>1, RowsUnchanged DEF CleanFails
<1>4. CASE PrepareBind(h)
  <2>1. task[h].cluster \in Clusters
    BY <1>4 DEF PrepareBind, RowsInv, TasksKnowTheirCluster
  <2>2. /\ task' \in [Hosts -> Task] /\ \A g \in Hosts \ {h} : task'[g] = task[g]
        /\ task'[h] = Idle \/ (task'[h].pc = "bind" /\ task'[h].cluster = task[h].cluster)
    <3>1. \/ task' = [task EXCEPT ![h] = Idle]
          \/ task' = [task EXCEPT ![h].pc = "bind"]
      BY <1>4 DEF PrepareBind
    <3>2. Idle \in Task
      BY DEF Idle, Task
    <3>. QED BY <1>1, <3>1, <3>2 DEF Task
  <2>3. OtherTypes'
    BY <1>4, <2>2 DEF PrepareBind, OtherTypes, Task
  <2>4. TasksKnowTheirCluster'
    BY <1>4, <2>1, <2>2 DEF PrepareBind, RowsInv, TasksKnowTheirCluster, Idle
  <2>. QED BY <1>4, <2>3, <2>4 DEF PrepareBind, RowsInv, PlansStayInPool
<1>5. CASE BindHost(h)
  <2>1. task[h].cluster \in Clusters
    BY <1>5 DEF BindHost, RowsInv, TasksKnowTheirCluster
  <2>2. task' \in [Hosts -> Task] /\ task'[h].pc = "idle" /\ \A g \in Hosts \ {h} : task'[g] = task[g]
    BY <1>1, <1>5 DEF BindHost, Idle, Task
  <2>3. /\ host' \in [Hosts -> HostRow]
        /\ \A g \in Hosts \ {h} : host'[g] = host[g]
        /\ host'[h] = host[h] \/ (host'[h].status = "binding" /\ host'[h].cluster = task[h].cluster)
    BY <1>1, <1>5, <2>1, BoundStatuses DEF BindHost, HostRow
  <2>4. OtherTypes'
    BY <1>5, <2>2 DEF BindHost, OtherTypes, Task
  <2>5. \A g \in Hosts : host'[g].cluster = None <=> host'[g].status \in Free
    BY <2>1, <2>3, BoundOrFree, BoundStatuses, BoundIsNotFree DEF None
  <2>6. TasksKnowTheirCluster'
    BY <1>5, <2>2, <2>3 DEF BindHost, RowsInv, TasksKnowTheirCluster
  <2>. QED BY <1>5, <2>3, <2>4, <2>5, <2>6 DEF BindHost, RowsInv, PlansStayInPool
<1>6. CASE PrepareUnbind(h)
  <2>1. task[h].cluster \in Clusters /\ host[h].cluster \in {None, task[h].cluster}
    BY <1>6 DEF PrepareUnbind, RowsInv, TasksKnowTheirCluster
  <2>2. PICK reclaim \in BOOLEAN :
          task' = [task EXCEPT ![h] =
            [@ EXCEPT !.pc = "write", !.reclaim = reclaim,
                      !.status = IF host[h].cluster = None THEN None ELSE host[h].status,
                      !.deprovision = IF cluster[task[h].cluster] = "deleted" THEN None ELSE task[h].cluster]]
    BY <1>6 DEF PrepareUnbind
  <2>3. /\ task' \in [Hosts -> Task] /\ task'[h].pc = "write" /\ task'[h].cluster = task[h].cluster
        /\ \A g \in Hosts \ {h} : task'[g] = task[g]
    <3>. DEFINE status == IF host[h].cluster = None THEN None ELSE host[h].status
                deprovision == IF cluster[task[h].cluster] = "deleted" THEN None ELSE task[h].cluster
    <3>1. status \in BoundStatus \cup {None} /\ deprovision \in {None, task[h].cluster}
      BY BoundOrFree
    <3>2. task' = [task EXCEPT ![h] = [@ EXCEPT !.pc = "write", !.reclaim = reclaim, !.status = status,
                                                !.deprovision = deprovision]]
      BY <2>2
    <3>. HIDE DEF status, deprovision
    <3>3. /\ task[h] \in Task /\ deprovision \in Clusters \cup {None}
          /\ [task[h] EXCEPT !.pc = "write", !.reclaim = reclaim, !.status = status,
                             !.deprovision = deprovision] \in Task
      BY <1>1, <2>1, <3>1 DEF Task
    <3>. QED BY <1>1, <3>2, <3>3 DEF Task
  <2>4. OtherTypes'
    BY <1>6, <2>3 DEF PrepareUnbind, OtherTypes, Task
  <2>5. TasksKnowTheirCluster'
    BY <1>6, <2>1, <2>3 DEF PrepareUnbind, RowsInv, TasksKnowTheirCluster
  <2>. QED BY <1>6, <2>4, <2>5 DEF PrepareUnbind, RowsInv, PlansStayInPool
<1>7. CASE UnbindHost(h)
  <2>. DEFINE to == UnbindTo(task[h].status, task[h].reclaim)
  <2>1. to = None \/ to \in Free
    BY FreeStatuses DEF UnbindTo
  <2>2. /\ task' \in [Hosts -> Task] /\ task'[h].pc = "report"
        /\ task'[h].cluster = task[h].cluster /\ task'[h].deprovision = task[h].deprovision
        /\ \A g \in Hosts \ {h} : task'[g] = task[g]
    BY <1>1, <1>7 DEF UnbindHost, Task
  <2>3. /\ host' \in [Hosts -> HostRow]
        /\ \A g \in Hosts : host'[g] = host[g] \/ (host'[g].cluster = None /\ host'[g].status \in Free)
    <3>. HIDE DEF to
    <3>1. host' = host \/ (to # None /\ host' = [host EXCEPT ![h] = Unbound(to)])
      BY <1>7 DEF UnbindHost, to
    <3>2. ASSUME to \in Free PROVE Unbound(to) \in HostRow /\ Unbound(to).cluster = None /\ Unbound(to).status = to
      BY <3>2 DEF Unbound, HostRow
    <3>. QED BY <1>1, <2>1, <3>1, <3>2
  <2>4. OtherTypes'
    BY <1>7, <2>2 DEF UnbindHost, OtherTypes, Task
  <2>5. \A g \in Hosts : host'[g].cluster = None <=> host'[g].status \in Free
    BY <2>3, BoundOrFree
  <2>6. TasksKnowTheirCluster'
    BY <1>7, <2>2, <2>3 DEF UnbindHost, RowsInv, TasksKnowTheirCluster
  <2>. QED BY <1>7, <2>3, <2>4, <2>5, <2>6 DEF UnbindHost, RowsInv, PlansStayInPool
<1>8. CASE UpdateStatus(h)
  <2>1. task' \in [Hosts -> Task] /\ task'[h].pc = "idle" /\ \A g \in Hosts \ {h} : task'[g] = task[g]
    BY <1>1, <1>8 DEF UpdateStatus, Idle, Task
  <2>2. agent' \in [Hosts -> AgentRow]
    BY <1>1, <1>8 DEF UpdateStatus, AgentRow, Task
  <2>3. OtherTypes'
    BY <1>8, <2>1, <2>2 DEF UpdateStatus, OtherTypes, Task, AgentRow
  <2>4. TasksKnowTheirCluster'
    BY <1>8, <2>1 DEF UpdateStatus, RowsInv, TasksKnowTheirCluster
  <2>. QED BY <1>8, <2>3, <2>4 DEF UpdateStatus, RowsInv, PlansStayInPool
<1>. QED BY <1>2, <1>3, <1>4, <1>5, <1>6, <1>7, <1>8 DEF Controller

\* A new wish and a restart touch no row.
LEMMA OtherStep ==
  ASSUME BindingInv, Restart \/ \E h \in Hosts, w \in Clusters \cup {None} : SetClusterReference(h, w)
  PROVE  BindingInv'
<1>. USE DEF BindingInv
<1>1. CASE Restart
  <2>1. OtherTypes'
    BY <1>1 DEF Restart, OtherTypes, Fault, Idle, NoPlan
  <2>2. PlansStayInPool' /\ TasksKnowTheirCluster'
    BY <1>1 DEF Restart, PlansStayInPool, TasksKnowTheirCluster, Idle
  <2>. QED BY <1>1, <2>1, <2>2 DEF Restart, RowsInv
<1>2. ASSUME NEW h \in Hosts, NEW w \in Clusters \cup {None}, SetClusterReference(h, w)
      PROVE  BindingInv'
  <2>1. agent' \in [Hosts -> AgentRow]
    <3>1. agent' = [agent EXCEPT ![h].wish = w] /\ agent \in [Hosts -> AgentRow]
      BY <1>2 DEF SetClusterReference, OtherTypes, AgentRow
    <3>2. [agent[h] EXCEPT !.wish = w] \in AgentRow
      BY <1>2, <3>1 DEF AgentRow
    <3>. QED BY <3>1, <3>2
  <2>2. OtherTypes'
    BY <1>2, <2>1 DEF SetClusterReference, OtherTypes, AgentRow, Change
  <2>. QED BY <1>2, <2>2, RowsUnchanged DEF SetClusterReference
<1>. QED BY <1>1, <1>2

----------------------------------------------------------------------------
(* The theorems *)

\* The invariant is inductive.
LEMMA BindingStep == BindingInv /\ [Next]_vars => BindingInv'
<1>. SUFFICES ASSUME BindingInv, [Next]_vars PROVE BindingInv'
  OBVIOUS
<1>1. CASE UNCHANGED vars
  BY <1>1, RowsUnchanged DEF vars, BindingInv, OtherTypes
<1>2. CASE Next
  BY <1>2, MachineStep, InstallationStep, MonitorStep, ControllerStep, OtherStep, StartInstallationStep,
     InstallationEndsStep, UnbindAgentsStep, DeregisterClusterStep DEF Next
<1>. QED BY <1>1, <1>2

\* So it holds always.
LEMMA BindingAlways == Spec => []BindingInv
  BY BindingInit, BindingStep, PTL DEF Spec

\* For any number of hosts and clusters every row, resource, plan and task keeps its
\* type: no rule of the pool or of unbinding leads to a status unknown to the code.
THEOREM BindingTypeCorrect == Spec => []TypeOK
  BY BindingAlways, BindingInvImplies, PTL

\* However the writes of the controller, of the monitor and of the machines interleave,
\* a host has a cluster exactly if its status is one of a bound host: the condition on
\* the status in each write is enough.
THEOREM BindingConsistent == Spec => []StatusMatchesBinding
  BY BindingAlways, BindingInvImplies, PTL
=============================================================================
