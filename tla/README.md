# Verification of the assisted-service installation flow

assisted-service installs OpenShift clusters: hosts boot a discovery image whose
agent registers with the service, the user configures the cluster and starts the
installation, and background monitors of the leader replica move the rows of the
cluster and its hosts through two state machines until the cluster is installed,
failed or cancelled. This directory holds TLA+ models of that flow and of what
surrounds it (the pool of unbound hosts, the end of an installation, the loop of
the monitor, the cache of installer binaries), the TLC configurations that check
them on small instances, and TLAPS proofs of every safety property that these
configurations check, for every number of hosts, clusters, replicas, clients and
installations.

Paths below are relative to the repository.

## The system

| Part | State | Operations | Interacts through | Modelled by |
|---|---|---|---|---|
| state machine library `vendor/github.com/filanov/stateswitch` | table of rules | `Run`: the first rule whose source states and condition match | called by both managers | `StateSwitch` |
| host machine `internal/host/statemachine.go`, `conditions.go` | host status | register, progress, failure, cancel, reset, media, refresh, bind, unbind, reclaim | reads the cluster's status | `HostStateMachine`, `HostBinding` |
| cluster machine `internal/cluster/statemachine.go`, `conditions.go` | cluster status | cancel, reset, prepare, refresh | reads the hosts' statuses | `ClusterStateMachine` |
| REST handlers `internal/bminventory` | none | install, cancel, reset, update; register, next steps, step replies, stage reports | transactions on the rows | `InstallFlow` |
| preparation goroutine `inventory.go:1563` | none persistent | writes `LastInstallationPreparation` when it ends | the cluster row, by id alone | `InstallFlow` |
| host monitor `internal/host/monitor.go` | none persistent | loads hosts of clusters and of the pool, refreshes each | conditional update `where status = <loaded>` | `InstallFlow`, `HostBinding` |
| cluster monitor `internal/cluster/cluster.go` | cursor, blacklist, full-scan timer | loads clusters in batches, refreshes each, resumes preparations, creates DNS records | the same | `InstallFlow`, `Finalizing`, `MonitorLoop` |
| leader election `pkg/leader`, threads `pkg/thread` | lease, flag `isLeader` | gain and lose the lease, run a function on a ticker | read by the monitors before each row | `MonitorLoop` |
| finalizing and monitored operators `internal/operators/handler`, `cluster.go` | stage and its timeout, operators' statuses | reports of the controller in the new cluster, calls of AMS | rows of the cluster, written by id | `Finalizing` |
| log collection `internal/cluster` | logs status | reports, timeout | keeps an ended cluster monitored | `MonitorLoop` |
| host pool and binding `internal/host`, `internal/controller/controllers` | cluster of a host, reference and `DeprovisionInfo` of its Agent | bind, unbind, reclaim, clean up the old node, delete a cluster | rows and Kubernetes resources | `HostBinding` |
| installer cache `internal/installercache` | files, hard links and times in a directory | get, clean up, evict | a mutex; hard links held by clients | `InstallerCache`, `ReleaseStore` |
| validations, hardware requirements `internal/host/validator.go`, `internal/hardware` | none | functions of the inventory | verdicts, inputs of the rules | no |
| ignition, manifests, install config; network, DNS, versions, features | none | files and computations | success or failure, inputs of the goroutine and the monitor | no |
| events, notification stream, metrics | append-only | written by the other parts | | no |
| other reconcilers, garbage collection, migrations, generated REST code | | | | no |

What is hard in this code is that a decision is taken on rows loaded at one
moment and written at another, guarded by nothing but the *status* column, while
requests (in transactions), agents, goroutines, controllers and the other
monitors write the same rows; that some operations write twice without a
transaction (a stage report, a preparation that timed out, an unbinding); that
the result of a preparation carries no attempt number; that the loop over
clusters may be cut short anywhere and has to come back to what it skipped; and
that the process may restart anywhere. The correctness conditions are that a
host installs only under an installation of its cluster and after its checks,
that what ended stays ended, that every row always has a rule, that a host's
status and its cluster agree, that a release in use stays on disk, and that
every preparation, installation, reclamation, wish and wait ends. `PROJECT.json`
lists the hazards one by one, with the line where each bites.

## The modules

* `StateSwitch`: the library. A table is a set of numbered rules; `Runs` is the
  rule `Run` picks, or empty when `Run` fails.
* `HostStateMachine`, `ClusterStateMachine`: the tables, one operator per group
  of rules and transition type, in the order of the code. A table is a function
  of the values of its conditions (the context `x` or `y`). Refresh rules are
  numbered as they appear in the file. The field `post` names what the
  post-transition writes besides the status.
* `InstallFlow`: one day-1 cluster and its hosts. Variables: the row of the
  cluster, the rows of the hosts, the goroutine of each attempt, the write each
  monitor has yet to do (`hmon`, `cmon`) and the stage report each host has in
  flight. Handlers that run in one transaction on locked rows are one action:
  `Install`, `CancelInstallation`, `ResetCluster`, `UpdateHost`, `RegisterHost`.
  A monitor's cycle is a read action, that runs the machine on what it loaded,
  and one write action per row, that is dropped when the status changed
  (`StatusAsLoaded`). A stage report is four actions: `ReportStage` checks it against
  the loaded host, `WriteStage` writes the stage, `HostProgress` loads the host again
  and runs the machine on it, `CommitProgress` writes the status it leads to. `Restart` drops everything
  that lives in memory.
* `Finalizing`: the last part of an installation, on the same tables, with the
  stages, operators and AMS that `InstallFlow` takes as absent. Variables: the
  row of the cluster, the monitored operators, one late worker that stands for
  the hosts, the monitor's pending write, the stage report in flight.
  `UpdateFinalizingStage` is two actions, since it checks the row it loaded and
  writes by id. `MonWrite` calls AMS before it writes, and writes nothing when
  AMS fails. The constant of a behaviour `env` says whether AMS is up, down or
  not configured and whether the behaviour is one in which deadlines elapse.
* `MonitorLoop`: how the cluster monitor comes round to the clusters. Variables:
  the rows (the status, the one that the conditions ask for, the state of the log
  collection), the lease, the replicas that believe to lead, what each remembers from
  cycle to cycle (cursor, blacklist, whether the next scan is full) and the cycle each
  is in. `StartCycle`, `LoadBatch`, `NextRow` (the checks of
  `validateClusterForProcessing` in their order), `ProcessCluster`,
  `DeadlineExceeded`, `CycleEnds` are the steps of `ClusterMonitoring`; a
  refresh is one write, where the row has the status that was loaded, which may
  have come back in between; that the logs are given up is written by the id alone.
* `HostBinding`: hosts of a late-binding InfraEnv. Variables: rows, machines,
  Agents (wish and `DeprovisionInfo`), clusters, the `Node` resources of
  installed clusters, the monitor's pending write and the reconciliation of each
  Agent. A reconciliation is `Reconcile` (clean-up, decision), then `PrepareBind`,
  which loads the host again, and `BindHost`, or `PrepareUnbind`, `UnbindHost` and `UpdateStatus`, between which everything
  else may happen. The monitor reads (`PlanRefresh`) and writes (`CommitRefresh`).
* `InstallerCache`: the cache. A mutex makes `Get` and `Cleanup` atomic, so each
  is one action per outcome; `older` is the order of the files' times, `leaked`
  the links nobody will remove. `Reached` says in closed form which files the
  eviction loop gets to.
* `ReleaseStore`: the abstract specification of the cache, for its clients: what
  was handed out is stored until it is given back, and nothing is stored that
  nobody asked for. `InstallerCache` implements it (`ImplementsReleaseStore`)
  with the directory as the store and the clients' links as the leases; eviction, times, sizes
  and lost links are invisible in it.
* `MCInstallFlow`, `MCInstallerCache`: the symmetry set and the releases of the
  instances.
* `StateMachineProofs`, `InstallFlowProofs`, `InstallFlowPlanProofs`,
  `HostBindingProofs`, `MonitorLoopProofs`, `InstallerCacheProofs`,
  `FinalizingProofs`: the theorems. `InstallFlowPlanProofs` extends
  `InstallFlowProofs` with what takes an invariant about old plans.

Operators whose comment begins with "Mutant" are faulty variants of the
definition that follows them. No specification uses them; they show that a
property notices the fault.

### What the data stands for

`late` says that the timeout of the current status (for an installing host, of
its stage) elapsed, `overdue` the same of the whole installation: time is an
event that may come any time after the status began. `inventory` is none, one
that fails the validations (`poor`) or one that passes; `images` and `speed` are
the verdicts of the two checks of the preparation. Of the stages of a host, the
four that rules treat differently are kept; a report may skip some, as the code
allows. `operators` in `InstallFlow` is the attempt in which the monitored
operators were last reported available (the code keeps only the report; the
attempt is what one of the properties is about).

In `InstallFlow` network, VIP, pull secret and operator inputs are taken as
complete, so a cluster is fit exactly when its hosts are; roles are assigned;
there are no arbiters; the stages of finalizing and AMS are left to `Finalizing`.
The tables hold the rules for those conditions all the same, and the theorems of
`StateMachineProofs` cover them. `MinMasters` is a constant (the code's is 3, or
2 with an arbiter) so that two masters make a control plane of more than one node.

`HostBinding` merges statuses that binding does not tell apart: `discovering`
stands for the statuses before the installation in which a host is not known,
`installing` for those of an installation, `installed` also for
added-to-existing-cluster, `error` also for cancelled. The installation itself
is a few steps there. `MonitorLoop` takes `error` for cancelled too and says nothing of why the
conditions ask for a status (`asks`); `Leads` is the statuses that the refresh rules
lead to. `Asked` restricts an instance to some of them. A timed query of
the monitor may find any set of clusters: what is due need not have a recent
trigger, and the other way round. `Finalizing` keeps three of the stages, one of
which is non-failing, and starts when all hosts but one worker are installed; the
controller may report any stage but the present one, an earlier one as a disturbance.

A cycle of a monitor that would change nothing but texts is a stuttering step
and has no action. Therefore an idle system has no successor state and the
configurations do not check for deadlock; that nothing waits forever is what the
liveness properties are for.

## The runs

A *disturbance* or *fault* is anything outside a smooth course: a cancel, reset,
host update, failed launch, failed preparation, restart, DNS failure, silent
agent, registration, lost medium, poor inventory, bad check, failed install
command, failed installation, an operator that fails again, a lost lease, a failed query, a failed clean-up.
`Disturbances` selects the kinds, `MaxDisturbances` and `MaxFaults` bound how
many a behaviour has, `MaxAttempts` the installations, `Timers` the kinds of
timeout that may elapse.

| Run | Instance | Properties |
|---|---|---|
| `Pair` | 2 masters, 1 attempt, 1 disturbance of any kind, cluster timeouts | `TypeOK`, `HostsInstallOnlyInInstallation`, `InstalledClusterHasItsNodes`, `RefreshIsDefined`, `DisksPassed`, `EndedInstallationsStayEnded` |
| `Reinstall` | 1 host, 2 attempts, 3 disturbances: cancel, reset, register, restart, failed preparation, bad check | `HostsInstallOnlyInInstallation`, `AcceptedPlansAreRight`, `ImagesAnswered`, `InstalledClusterHasItsNodes`, `EndedInstallationsStayEnded` |
| `Ending` | 1 host, 1 disturbance, hard and soft timeouts of all kinds | `PreparationEnds`, `InstallationEnds`, `HostsLeavePreparation`, `FailedClusterStopsHosts` |
| `Healthy` | 2 masters, 2 DNS failures | `PreparedInstallationSucceeds` |
| `Finalizing` | a builtin and an OLM operator, AMS up or down, soft or hard timeouts, 1 disturbance | `TypeOK`, `FinalizationEnds`, `SoftClustersFailOnlyOverdue`, `CompleteClustersAreInstalled` |
| `Monitor` | 1 replica, 3 clusters in batches of 2, 1 cycle that exceeds its deadline | `TypeOK`, `EveryChangeIsMonitored`, `LogCollectionEnds` |
| `Leaders` | 2 replicas, 1 cluster, ready or installing, with 3 changes of its conditions or by its user, 1 fault | `EndedStaysEnded`, `EveryChangeIsMonitored` |
| `Binding` | 1 host, 2 clusters, 2 changes of wishes or deletions, 1 fault | `TypeOK`, `StatusMatchesBinding`, `WishesComeTrue`, `ReclaimEnds`, `OldNodesAreRemoved` |
| `Cache` | 2 clients, 2 small and 3 large releases, room for 2 large ones, 5 requests, 1 fault | `TypeOK`, `LinkedReleasesStay`, `OvershootIsBounded`, `EvictsOldestAndNoMore`, `WaitingEnds`, `ImplementsReleaseStore` |

The bounds are chosen for the stories to happen.

* `Pair`, `Reinstall`: two hosts suffice for one to disturb a cluster another
  keeps going; `Pair` allows bad checks and host updates, so that `DisksPassed`
  holds with both; two attempts and three disturbances let a plan of the first
  installation meet the second one (cancel, reset and register lie between
  them). For the safety properties of all modules the theorems below remove the bounds.
* `Monitor`: three clusters in batches of two make a cycle of two queries, a
  cursor in the middle of a batch and clusters before and after it; the cycle
  that is too long sets the cursor and the blacklist. `Leaders`: two replicas
  in the middle of a cycle on the same cluster, with a transition decided by
  one and carried out by the other; three changes let the cluster leave the status
  that was loaded and come back to it (installing, pending user action, installing).
* `Binding`: two clusters, so that a host can be wanted by one while it leaves
  the other, and two changes, so that the wish changes back or a cluster is
  deleted meanwhile. One host: hosts do not interact but through their cluster,
  and with several the model would let their reconciliations overlap although
  the Agent controller has one worker.
* `Ending`: one host and one disturbance of any kind, at any moment, with every
  timeout: what keeps a preparation or an installation from ending is one event
  that nobody reacts to. A property says that a condition does not last
  (`[]<>` of its opposite), which is the same as that it leads to its opposite.
* `Cache`: small releases in use let the directory outgrow its capacity, two
  clients can wait on each other, and five requests fill the directory and evict.

Three runs show where the code does not do what its comments and documents say.
Each is a short trace:

| Run | What happens |
|---|---|
| `EarlyInstall` | hosts are prepared before the goroutine is; the monitor takes `not_started` for a reset preparation, writes `success` and the cluster installs without its ignition |
| `StaleOperators` | reset keeps the operators' reports; the next installation completes on them |
| `StrandedHost` | a cluster is deleted while a host is `binding`, a status without unbind rule: the host cannot register without its cluster, and never returns to the pool |

### Fairness

* `InstallFlow!FairSpec`: the monitors keep running (tickers of the leader), the
  goroutine ends, a request that started ends, and time passes (each timer
  whose timeout a rule asks for elapses eventually, if the row stays). Nothing
  is asked of users, agents and the controller: they may stop at any time.
  `HealthySpec`, used by `Healthy` only, adds that agents send their inventory,
  check results and stages and that the controller reports: without it no
  installation need succeed.
* `Finalizing!FairSpec`: the monitor, a request that started, and the deadlines
  of the status and of the installation. Nothing is asked of the controller,
  AMS, the worker or the user. `CompleteClustersAreInstalled` is about
  behaviours in which no deadline comes first (`env.prompt`) and AMS answers.
* `MonitorLoop!FairSpec`: the thread runs its function on a ticker and the
  function ends, a free lease is taken, a replica learns that it lost the lease
  (the elector's callbacks), and time passes. A chosen cluster's refresh may
  fail `MaxFaults` times and cycles may overrun `MaxOverruns` times.
* `HostBinding!FairSpec`: the monitor is periodic; Agents are reconciled again,
  by requeues and resyncs; systemd starts an agent that exited; a
  machine whose status asks for it is booted, by the user or by the
  BareMetalOperator; the installation of a host ends (which `Ending` shows).
  Without the booting a host in `unbinding-pending-user-action` stays there, as
  its name says. Wishes, deletions and faults are never forced.
* `InstallerCache!FairSpec`: a waiting client sleeps and tries again, and a
  client that holds a release cleans up, which both callers defer.

## The proofs

Every invariant and every action property of the passing runs is proved. The
table gives, for each module, what is proved and the inductive invariant.

| Theorem | Property | From |
|---|---|---|
| `TypeCorrect`, `RefreshAlwaysDefined` | `TypeOK`, `RefreshIsDefined` | `TypeOK`, totality of the tables |
| `EndedStaysEnded` | `EndedInstallationsStayEnded` | `PlansSafe` |
| `DisksAlwaysPassed` | `DisksPassed` | `DisksSafe` |
| `AcceptedPlansAreAlwaysRight` (no host updates) | `AcceptedPlansAreRight` | `Safe`, which contains `ImagesAnswered` |
| `HostsAlwaysInstallInInstallation` | `HostsInstallOnlyInInstallation` | `StartsInInstallation` |
| `InstalledClusterAlwaysHasItsNodes` (one installation, or no host updates) | `InstalledClusterHasItsNodes` | `FailuresAreDue`, `StartedIsCounted`, `CompletedRight`, `CompletionsAreDue` |
| `BindingTypeCorrect`, `BindingConsistent` | `TypeOK`, `StatusMatchesBinding` | `BindingInv` |
| `MonitorTypeCorrect`, `EndedClustersStayEnded` | `TypeOK`, `EndedStaysEnded` | `MonitorInv` |
| `CacheTypeCorrect`, `LinkedReleasesStayAlways`, `OvershootIsAlwaysBounded`, `EvictionTakesOldest` | `TypeOK`, `LinkedReleasesStay`, `OvershootIsBounded`, `EvictsOldestAndNoMore` | `CacheInv` |
| `CacheImplementsStore` | `ImplementsReleaseStore` | `CacheInv` |
| `FinalizingTypeCorrect`, `SoftTimeoutsAreSoft` | `TypeOK`, `SoftClustersFailOnlyOverdue` | `FinalizingInv` |

### The tables

`StateMachineProofs` is about the tables alone, for every value of the
conditions: `HostRefreshIsSafe`, `ClusterRefreshIsSafe` (what no refresh may do),
`HostRefreshIsTotal`, `ClusterRefreshIsTotal` (some rule matches, with the gaps
named). They follow from `RunsMatch` (the picked rule is a matching rule of the
table) and a case analysis of the rules. `HostRefreshIsGrounded` and
`ClusterRefreshCompletes` say what must hold when a rule prepares a host or
completes a cluster.

### `InstallFlow`

For every finite set of hosts and every bound, from `HostsAssumption`,
`BoundsAssumption` and `SoftTimeoutsAssumption`, which TLC evaluates in every run.
What makes these proofs is always the same: a monitor's write was decided on an
older row, so a property of the rows is not inductive without one of the plans
that wait.

* `PlansSafe`: a plan, whenever it was made, does not start from a final status,
  does not take an installation out of its phase except by ending it, and starts
  a host only from `preparing-successful`.
* `DisksSafe`: a plan to pass a host was made when its disk had passed, and a
  disk that passed stays so, since the service asks for its speed only while it
  has no result. No hypothesis on the disturbances is needed.
* `Safe`, of which `AcceptedPlansAreRight` is the heart: a plan the database would
  still accept is right now. The proof classifies every step by what it does to a
  host (kept, withdrawn, advanced, carried out by the monitor, refreshed by a
  request) and uses that a request which ends an installation withdraws all its
  hosts in the same transaction. It needs `"update" \notin Disturbances`, for
  the reason given under Known limits.
* `StartsInInstallation`: without that hypothesis an old plan to start a host may
  outlive its installation, and there may be a next one. It is harmless since the
  host is then `Estranged`: withdrawn, and unable to be prepared again before the
  monitor has disposed of the plan. Only the host monitor, which is busy with that
  plan, prepares a host that has an inventory; a request does so for one that has
  none, and a withdrawn host has one as soon as it is `known` again.
  `ReadyHosts`, `EndingEstranges` and `EstrangedStep` are these facts.
* `InstalledClusterAlwaysHasItsNodes`: the cluster monitor counts the hosts on
  rows it loaded, and completes the cluster later. `CompletionsAreDue` says that
  such a plan stays right while the installation it was made in goes on, since a
  host that is done stays so (`DoneStay`) unless the cluster fails
  (`FailuresAreDue`) or is withdrawn. The theorem supposes that a single-node
  cluster has one master, which the validation `SufficientMastersCount`
  (`internal/cluster/validator.go:437`) asks for before an installation, and that
  updates of hosts and a second installation do not both occur. The second
  hypothesis is needed, see Known limits.

### The other modules

* `HostBinding` (`BindingAssumption`): a plan of the monitor starts and ends in
  statuses of hosts without a cluster (`PlansStayInPool`), so the status it
  compares tells whether the host is bound. A reconciliation knows the cluster it
  unbinds from, whatever happens to the host between its reads
  (`TasksKnowTheirCluster`).
* `MonitorLoop` (`MonitorAssumption`), for any number of replicas that believe to
  lead: what a cycle goes by of a row is a transition that a rule allows from the
  status that was loaded (`SeenRow`), and the write compares that status. The status
  may have come back in between, so the write need not be one that is due now: what is
  proved is that it is one a rule allows (`RefreshedRow`), never out of an end.
* `InstallerCache` (`CacheAssumption`): the times are a strict order of the
  directory (`InOrder`), each client links one release and each fault pins at most
  one more (`Counts`, `LeaksAreFaults`). From it the bytes an eviction cannot reach are at
  most those of the releases in use. `Volume` is the number of bytes of a set of
  files, so that the library's theorems on cardinality apply and no induction is
  needed; `OldestExists` is the one place that takes finiteness, where the closed form of the
  eviction loop needs a first file. The refinement shows that
  `Init` maps to `Init` and every action to a step of the store or a stutter.
* `Finalizing` (`OperatorsAssumption`): a plan that fails a cluster with soft
  timeouts stays right while it waits, as the deadline of an installation is not
  taken back in its course (`PlanIsDue`).

### Only model-checked

The properties under fairness (`PreparationEnds`, `InstallationEnds`,
`HostsLeavePreparation`, `FailedClusterStopsHosts`, `PreparedInstallationSucceeds`,
`FinalizationEnds`, `CompleteClustersAreInstalled`,
`EveryChangeIsMonitored`, `LogCollectionEnds`, `WishesComeTrue`, `ReclaimEnds`,
`OldNodesAreRemoved`, `WaitingEnds`): liveness and `ENABLED` are out of the
prover's reach. The three disagreements above are traces. What the theorems
suppose about host updates is not supposed by the run `Pair`, which allows one.

## Known limits

Behaviours of the code that were met while modelling:

* *Back to the loaded status.* The monitor decides to pass a host on its checks; the
  host registers again, which clears the answer about its images, and a host update
  (`internal/bminventory/inventory.go:7244`) refreshes it, in one transaction, back to the
  status that was loaded. The write asks for the status alone and passes the host
  without an answer. Hence `ImagesAnswered` and `AcceptedPlansAreRight` are
  checked and proved without host updates. `DisksPassed` needs no such restriction.
* *Done while the user is asked.* The rule of the stage `Done`
  (`internal/host/statemachine.go:78`) leaves out `installing-pending-user-action`. When
  the monitor finds a reboot late and writes that status between the write of the
  stage and the run of the machine, the host goes back to `installing-in-progress` at its
  last stage, and reporting `Done` again changes nothing. `InstallationEnds` covers it: the
  installation ends by its timeout.
* *Answers that come late.* A bad answer about the images that comes after the host
  passed is recorded and no longer acted on, so `ImagesAnswered` asks for an answer, not
  for a good one; that the answer acted on was good is part of `HostRefreshIsSafe`.
  The speed of a disk is asked for only while it has no result
  (`internal/host/hostcommands/disk_performance_cmd.go:44`); that two replies to the
  same request are in flight, or that a user resets the validation
  (`ResetHostValidation`, `internal/host/host.go:1437`), is not modelled.
* *A plan that outlives its installation.* The cluster monitor decides to go from
  `installing` to `finalizing`; before it writes, the cluster is reset and its
  host registers again. The host monitor's write, decided before the
  registration, leaves the host `known` without an inventory; a host update then
  refreshes it and the cluster (`internal/bminventory/inventory.go:7244`), which
  starts the second installation while the cluster monitor is still at its write.
  The status is `installing` again, so the write is accepted, and the cluster finalizes
  with no host installed; if the medium is lost now, all hosts are "done" and it is
  installed without nodes. TLC finds this with one host, two attempts and seven
  disturbances (reset, register, update, media) in 40 steps.
  `InstalledClusterHasItsNodes` is proved when one of the two does not occur.
* *Restart within a stage report.* Stage and status of a host are two writes
  (`internal/host/host.go:669`). After a restart between them the host has its
  last stage but is not installed, and its retry changes nothing; the
  installation ends by its timeout (`InstallationEnds`).
* *Endless overruns.* A timed cycle that finishes in time drops the cursor, so
  if full scans exceed their deadline for ever the clusters at the end can
  starve. `EveryChangeIsMonitored` is for finitely many overruns.
* *Lost clean-ups.* A restart between the write that unbinds a host and the
  patch of the Agent's `DeprovisionInfo` loses the clean-up of the old node.
  Conversely `DeprovisionInfo` is kept when the unbinding failed
  (`agent_controller.go:818`), as it does for a host that is being installed and is to be
  reclaimed: the next reconciliation removes the node of the machine that runs, although
  `docs/hive-integration/late-binding.md:29` has it removed after the reboot. A host may also be bound while a
  clean-up is recorded: it was `unbinding` when `Reconcile` looked for a clean-up, and
  known when `BindHostInternal` loaded it again. `OldNodesAreRemoved` is about clean-ups that
  were recorded.
* *Late stage writes.* A finalizing stage is written by id alone
  (`internal/cluster/cluster.go:2086`), so a report that was checked before a
  reset writes its stage into the next installation, and a soft timeout can be
  noted for a stage that is over (`internal/cluster/common.go:80`). That the logs of a failed
  cluster are given up (`common.go:112`) may land in a cluster that was reset since. The same holds of
  percentages (`cluster.go:1012`), which are not modelled.
* *The ingress certificate.* `UploadIngressCert` checks the status and uploads the
  kubeconfig in one action; in the code these are not one transaction, so an upload
  may also land after the cluster left the status that was checked.
* *The capacity of the cache.* A comment (`internal/installercache/installercache.go:26`)
  and the tests take the capacity itself for the limit of the directory; what the code
  keeps, and `OvershootIsBounded` states, is the capacity and what is in use or pinned.
* *A shared array.* `append(resetFields[:], ...)` (`internal/host/transition.go:493`)
  writes into the spare capacity of one package-level array; only concurrent
  bind requests of the REST API would race, and these are not modelled.

## Not modelled

* Validations, hardware requirements, ignition, manifests, install config,
  network, DNS, versions and features: functions and file generation without
  state of their own. Their verdict, success or failure is an input.
* Events, stream, metrics: output only. Generated REST code and models.
* The REST handlers `BindHost`, `UnbindHost` and `V2DeregisterCluster`, InfraEnvs
  that are bound to a cluster, the resetting statuses, the deletion and
  restoring of Agents, the skip-cleanup annotation, stale informer caches, the
  other reconcilers (InfraEnv, BareMetalHost, AgentServiceConfig, ...).
* Uploads and timeouts of host logs; batching and skipping in the host monitor;
  the row locks of the database; progress percentages; `RunWithLeader`.
* Garbage collection of inactive rows, schema migrations.

These are more than half of the repository's lines, most of them generated
(`restapi`, `models`, events, mocks) or without state.

## Plan

1. Done: the tables, `InstallFlow`, `InstallerCache` with `ReleaseStore`,
   `MonitorLoop`, `HostBinding`, `Finalizing`, and the proofs of all their
   invariants, action properties and of the refinement.
2. Theorems next: the part of `AcceptedPlansAreRight` that holds with host updates
   as well (a plan that passes a host's preparation is the exception, a plan that
   starts it is not); that a cluster is not completed while AMS refuses; that the
   writes of a deposed leader and of its successor amount to those of one monitor
   (a specification with one row writer, refined by `MonitorLoop`).
3. Several stage reports of one host in flight; the REST handlers of binding;
   host logs.
