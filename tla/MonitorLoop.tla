---------------------------- MODULE MonitorLoop ----------------------------
(***************************************************************************)
(* How the cluster monitor comes round to every cluster: the replicas and   *)
(* their leader, the cycles with their full and timed queries, batches,     *)
(* deadlines, blacklist and resume cursor, and the collection of logs that  *)
(* keeps an ended cluster monitored.  Which rule a refresh runs is the      *)
(* subject of InstallFlow; here the conditions ask for a status, and the    *)
(* refresh writes it if the row still has the status it was loaded with.    *)
(***************************************************************************)
EXTENDS Integers, FiniteSets

CONSTANTS
  Replicas,      \* the processes of the service
  ClusterCount,  \* clusters are numbered in the order of their ids
  BatchSize,     \* CLUSTER_MONITOR_BATCH_SIZE
  BlacklistFor,  \* CLUSTER_MONITOR_BLACKLIST_DURATION, in units of five minutes
  Existing,      \* the statuses of the clusters when the processes start
  Asked,         \* the statuses the conditions may ask for in this instance
  MaxChanges,    \* bound: changes of a cluster by users, hosts and timeouts
  MaxFaults,     \* bound: lost leases, restarts, failed queries and refreshes, late log reports
  MaxOverruns    \* bound: cycles that exceed their deadline

\* The statuses a refresh may move a cluster to.  "error" stands for cancelled too; a
\* cluster that is installed or deleted is not monitored.
Leads ==
  [s \in {"insufficient", "ready", "preparing-for-installation", "installing", "finalizing",
          "installing-pending-user-action", "error", "installed", "deleted"} |->
     CASE s = "insufficient" -> {"ready"}
       [] s = "ready" -> {"insufficient"}
       [] s = "preparing-for-installation" -> {"ready", "insufficient", "installing"}
       [] s = "installing" -> {"installing-pending-user-action", "finalizing", "error"}
       [] s = "installing-pending-user-action" -> {"installing", "finalizing", "error"}
       [] s = "finalizing" -> {"installing-pending-user-action", "installed", "error"}
       [] OTHER -> {}]
Status == DOMAIN Leads

ASSUME MonitorAssumption ==
  /\ ClusterCount \in Nat /\ BatchSize \in Nat \ {0} /\ BlacklistFor \in Nat
  /\ Existing \subseteq Status /\ Asked \subseteq Status
  /\ MaxChanges \in Nat /\ MaxFaults \in Nat /\ MaxOverruns \in Nat
  /\ IsFiniteSet(Replicas) /\ "nobody" \notin Replicas

VARIABLES
  row,      \* the rows of the clusters
  lease,    \* the replica that holds the lease
  leading,  \* the replicas that believe to be leader
  mem,      \* what each replica remembers from cycle to cycle
  cycle,    \* the cycle each replica is in
  faults,   \* faults so far
  overruns  \* overruns so far

vars == <<row, lease, leading, mem, cycle, faults, overruns>>

Clusters == 1..ClusterCount
None == 0

\* asks: the status the conditions of the cluster and its hosts ask for.
\* logs: "awaited" until the collection is "over", completed or given up; "overdue"
\* once the time for them has elapsed.  changes: the changes so far.
Row ==
  [status : Status, asks : Status, logs : {"awaited", "overdue", "over"}, changes : 0..MaxChanges]
NewRow(s) == [status |-> s, asks |-> s, logs |-> "awaited", changes |-> 0]

\* The refresh rules move the cluster.
IsDue(r) == r.asks \in Leads[r.status]

\* Mutant: a cluster that ended is skipped before its logs are there.
SkipEnded(r) == r.status = "error"

SkipMonitoring(r) == r.status = "error" /\ r.logs = "over"

\* full: the next query is a full scan; blacklist: how long a cluster is skipped.
Forgotten == [full |-> TRUE, cursor |-> None, blacklist |-> [c \in Clusters |-> 0]]

\* What a cycle goes by of a row it loaded: its status, the status the refresh moves
\* it to, whether its log collection is overdue, or over (SkipMonitoring).
Seen(r) ==
  [status |-> r.status, to |-> IF IsDue(r) THEN r.asks ELSE r.status,
   overdue |-> r.logs = "overdue", skip |-> SkipMonitoring(r)]

\* ids: the clusters that are not loaded yet; batch: the rows that were loaded
\* and not looked at; skipping: the cursor was not reached yet.
Idle ==
  [pc |-> "idle", full |-> FALSE, ids |-> {}, batch |-> << >>, skipping |-> FALSE, last |-> None,
   late |-> FALSE]

Init ==
  /\ row \in [Clusters -> {NewRow(s) : s \in Existing}]
  /\ lease = "nobody" /\ leading = {}
  /\ mem = [p \in Replicas |-> Forgotten]
  /\ cycle = [p \in Replicas |-> Idle]
  /\ faults = 0 /\ overruns = 0

Fault == faults < MaxFaults /\ faults' = faults + 1

Overrun == overruns < MaxOverruns /\ overruns' = overruns + 1

----------------------------------------------------------------------------
(* Clusters: what users, agents and time do to the rows *)

\* Something of the cluster or its hosts changes, or a timeout elapses: the
\* conditions ask for another status, or for the present one again.
ConditionsChange(c) ==
  /\ row[c].changes < MaxChanges
  /\ \E s \in (Leads[row[c].status] \cap Asked) \cup {row[c].status} :
       /\ s # row[c].asks
       /\ row' = [row EXCEPT ![c].asks = s, ![c].changes = @ + 1]
  /\ UNCHANGED <<lease, leading, mem, cycle, faults, overruns>>

\* A user request that moves the cluster, and starts its log collection over.
Moves(c, s) ==
  /\ row[c].changes < MaxChanges
  /\ row' = [row EXCEPT ![c] =
       [status |-> s, asks |-> s, logs |-> "awaited", changes |-> row[c].changes + 1]]
  /\ UNCHANGED <<lease, leading, mem, cycle, faults, overruns>>

PrepareForInstallation(c) ==
  /\ row[c].status = "ready"
  /\ Moves(c, "preparing-for-installation")

ResetCluster(c) ==
  /\ row[c].status \notin {"insufficient", "ready", "installed", "deleted"}
  /\ Moves(c, "insufficient")

DeregisterCluster(c) ==
  /\ row[c].status = "error"
  /\ Fault
  /\ row' = [row EXCEPT ![c].status = "deleted"]
  /\ UNCHANGED <<lease, leading, mem, cycle, overruns>>

\* The controller reports how far it is with the logs; nothing keeps a late report
\* from reopening a collection that is over.
UpdateLogsProgress(c) ==
  /\ row[c].status = "error"
  /\ Fault
  /\ \E progress \in {"awaited", "over"} : row' = [row EXCEPT ![c].logs = progress]
  /\ UNCHANGED <<lease, leading, mem, cycle, overruns>>

IsLogCollectionTimedOut(c) ==
  /\ row[c].status = "error" /\ row[c].logs = "awaited"
  /\ row' = [row EXCEPT ![c].logs = "overdue"]
  /\ UNCHANGED <<lease, leading, mem, cycle, faults, overruns>>

----------------------------------------------------------------------------
(* Leaders: the lease is kept by the Kubernetes API, the flag by the replica *)

StartedLeading(p) ==
  /\ lease = "nobody" /\ p \notin leading
  /\ lease' = p
  /\ leading' = leading \cup {p}
  /\ UNCHANGED <<row, mem, cycle, faults, overruns>>

\* A replica that cannot renew its lease learns of it later.
LeaseExpires ==
  /\ lease # "nobody"
  /\ Fault
  /\ lease' = "nobody"
  /\ UNCHANGED <<row, leading, mem, cycle, overruns>>

StoppedLeading(p) ==
  /\ p \in leading /\ lease # p
  /\ leading' = leading \ {p}
  /\ UNCHANGED <<row, lease, mem, cycle, faults, overruns>>

Restart(p) ==
  /\ Fault
  /\ leading' = leading \ {p}
  /\ lease' = IF lease = p THEN "nobody" ELSE lease
  /\ mem' = [mem EXCEPT ![p] = Forgotten]
  /\ cycle' = [cycle EXCEPT ![p] = Idle]
  /\ UNCHANGED <<row, overruns>>

\* Mutant: nothing is ever taken off the blacklist.
FiveMinutesPassBlacklistKept ==
  /\ \E p \in Replicas : ~mem[p].full
  /\ mem' = [p \in Replicas |-> [mem[p] EXCEPT !.full = TRUE]]
  /\ UNCHANGED <<row, lease, leading, cycle, faults, overruns>>

\* Mutant: entries of the blacklist count below zero.
FiveMinutesPassBelowZero ==
  /\ \E p \in Replicas : ~mem[p].full
  /\ mem' = [p \in Replicas |->
       [mem[p] EXCEPT !.full = TRUE, !.blacklist = [c \in Clusters |-> @[c] - 1]]]
  /\ UNCHANGED <<row, lease, leading, cycle, faults, overruns>>

\* A border of the five-minute intervals: the next query is a full scan, and
\* the entries of the blacklist come nearer to their end.
FiveMinutesPass ==
  /\ \E p \in Replicas : ~mem[p].full \/ \E c \in Clusters : mem[p].blacklist[c] > 0
  /\ mem' = [p \in Replicas |->
       [mem[p] EXCEPT !.full = TRUE,
                      !.blacklist = [c \in Clusters |-> IF @[c] > 0 THEN @[c] - 1 ELSE 0]]]
  /\ UNCHANGED <<row, lease, leading, cycle, faults, overruns>>

----------------------------------------------------------------------------
(* The cycle *)

\* The smallest n members of S, or all of them.
First(S, n) == {c \in S : Cardinality({d \in S : d < c}) < n}

\* initMonitoringCycle and NewClusterQuery.  A timed query finds the clusters whose
\* trigger_monitor_timestamp, or that of a host, lies in the last 5 or 15 minutes:
\* any of them, since a timeout becomes due without a trigger and a trigger need
\* not make anything due.
StartCycle(p) ==
  /\ p \in leading
  /\ cycle[p].pc = "idle"
  /\ \E triggered \in SUBSET Clusters :
       /\ mem[p].full => triggered = Clusters
       /\ cycle' = [cycle EXCEPT ![p] =
            [Idle EXCEPT !.pc = "load", !.full = mem[p].full, !.skipping = mem[p].cursor # None,
                         !.ids = triggered]]
  /\ mem' = [mem EXCEPT ![p].full = FALSE]
  /\ UNCHANGED <<row, lease, leading, faults, overruns>>

Monitored(c) == row[c].status \notin {"installed", "deleted"}

\* Next: the full query asks for the first rows after the last one, the timed one
\* for the rows of its next ids.
Slice(cy) ==
  First(IF cy.full THEN {c \in cy.ids : Monitored(c)} ELSE cy.ids, BatchSize)

LoadBatch(p) ==
  LET slice == Slice(cycle[p])
      rows == {c \in slice : Monitored(c)}
  IN
  /\ cycle[p].pc = "load"
  /\ slice # {}
  /\ cycle' = [cycle EXCEPT ![p] =
       [@ EXCEPT !.pc = IF rows = {} THEN "load" ELSE "rows",
                 !.batch = [c \in rows |-> Seen(row[c])],
                 !.ids = {c \in cycle[p].ids : \A d \in slice : d < c}]]
  /\ UNCHANGED <<row, lease, leading, mem, faults, overruns>>

\* Mutant: the cursor is kept.
CycleEndsWithCursor(p) ==
  /\ cycle[p].pc = "load"
  /\ Slice(cycle[p]) = {}
  /\ cycle' = [cycle EXCEPT ![p] = Idle]
  /\ UNCHANGED <<row, lease, leading, mem, faults, overruns>>

\* No rows are left: the cycle is complete and the cursor starts over.
CycleEnds(p) ==
  /\ cycle[p].pc = "load"
  /\ Slice(cycle[p]) = {}
  /\ cycle' = [cycle EXCEPT ![p] = Idle]
  /\ mem' = [mem EXCEPT ![p].cursor = None]
  /\ UNCHANGED <<row, lease, leading, faults, overruns>>

QueryFails(p) ==
  /\ cycle[p].pc = "load"
  /\ Fault
  /\ cycle' = [cycle EXCEPT ![p] = Idle]
  /\ UNCHANGED <<row, lease, leading, mem, overruns>>

CycleTimesOut(p) ==
  /\ cycle[p].pc # "idle" /\ ~cycle[p].late
  /\ Overrun
  /\ cycle' = [cycle EXCEPT ![p].late = TRUE]
  /\ UNCHANGED <<row, lease, leading, mem, faults>>

\* The row that is looked at next: full queries are ordered, timed ones are not.
Candidates(cy) ==
  IF cy.full THEN First(DOMAIN cy.batch, 1) ELSE DOMAIN cy.batch

Dropped(cy, c) ==
  [cy EXCEPT !.batch = [d \in DOMAIN cy.batch \ {c} |-> cy.batch[d]],
             !.pc = IF DOMAIN cy.batch = {c} THEN "load" ELSE "rows"]

\* The checks of validateClusterForProcessing, in their order.
NextRow(p) ==
  /\ cycle[p].pc = "rows"
  /\ \E c \in Candidates(cycle[p]) :
       LET cy == cycle[p] IN
       \/ /\ cy.skipping
          /\ cycle' = [cycle EXCEPT ![p] = [Dropped(cy, c) EXCEPT !.skipping = c # mem[p].cursor]]
          /\ UNCHANGED mem
       \/ /\ ~cy.skipping /\ cy.late
          /\ cycle' = [cycle EXCEPT ![p] = Idle]
          /\ mem' = [mem EXCEPT ![p].cursor = cy.last]
       \/ /\ ~cy.skipping /\ ~cy.late /\ p \notin leading
          /\ cycle' = [cycle EXCEPT ![p] = Idle]
          /\ UNCHANGED mem
       \/ /\ ~cy.skipping /\ ~cy.late /\ p \in leading
          /\ mem[p].blacklist[c] > 0 \/ cy.batch[c].skip
          /\ cycle' = [cycle EXCEPT ![p] = Dropped(cy, c)]
          /\ UNCHANGED mem
       \/ /\ ~cy.skipping /\ ~cy.late /\ p \in leading
          /\ mem[p].blacklist[c] = 0 /\ ~cy.batch[c].skip
          /\ cycle' = [cycle EXCEPT ![p].pc = "process", ![p].last = c]
          /\ UNCHANGED mem
  /\ UNCHANGED <<row, lease, leading, faults, overruns>>

\* Mutant: the update does not ask for the status that was loaded.
RefreshedBlindly(r, seen) ==
  IF seen.to # seen.status
  THEN [r EXCEPT !.status = seen.to]
  ELSE [r EXCEPT !.logs = IF seen.overdue THEN "over" ELSE @]

\* The row after a refresh that was decided on the row that was loaded: a new status
\* is written where the status is the one that was loaded, which may have come back
\* in between; that the log collection is given up is written by the id alone.
Refreshed(r, seen) ==
  IF seen.to # seen.status
  THEN [r EXCEPT !.status = IF @ = seen.status THEN seen.to ELSE @]
  ELSE [r EXCEPT !.logs = IF seen.overdue THEN "over" ELSE @]

ProcessCluster(p) ==
  /\ cycle[p].pc = "process"
  /\ row' = [row EXCEPT ![cycle[p].last] = Refreshed(@, cycle[p].batch[cycle[p].last])]
  /\ cycle' = [cycle EXCEPT ![p] = Dropped(cycle[p], cycle[p].last)]
  /\ UNCHANGED <<lease, leading, mem, faults, overruns>>

\* The refresh fails, for instance with its DNS request.
ProcessFails(p) ==
  /\ cycle[p].pc = "process"
  /\ Fault
  /\ cycle' = [cycle EXCEPT ![p] = Dropped(cycle[p], cycle[p].last)]
  /\ UNCHANGED <<row, lease, leading, mem, overruns>>

\* The deadline of the cluster, or that of the cycle, passes before the refresh
\* ends: whether it wrote or not, the cluster is blacklisted.
DeadlineExceeded(p) ==
  /\ cycle[p].pc = "process"
  /\ \/ Fault /\ UNCHANGED overruns
     \/ cycle[p].late /\ UNCHANGED <<faults, overruns>>
  /\ \/ row' = [row EXCEPT ![cycle[p].last] = Refreshed(@, cycle[p].batch[cycle[p].last])]
     \/ UNCHANGED row
  /\ mem' = [mem EXCEPT ![p].blacklist[cycle[p].last] = BlacklistFor]
  /\ cycle' = [cycle EXCEPT ![p] = Dropped(cycle[p], cycle[p].last)]
  /\ UNCHANGED <<lease, leading>>

----------------------------------------------------------------------------
Cycle(p) ==
  \/ StartCycle(p) \/ LoadBatch(p) \/ CycleEnds(p) \/ QueryFails(p) \/ CycleTimesOut(p)
  \/ NextRow(p) \/ ProcessCluster(p) \/ ProcessFails(p) \/ DeadlineExceeded(p)

Next ==
  \/ LeaseExpires \/ FiveMinutesPass
  \/ \E p \in Replicas : StartedLeading(p) \/ StoppedLeading(p) \/ Restart(p) \/ Cycle(p)
  \/ \E c \in Clusters :
       \/ ConditionsChange(c) \/ PrepareForInstallation(c) \/ ResetCluster(c) \/ DeregisterCluster(c)
       \/ UpdateLogsProgress(c) \/ IsLogCollectionTimedOut(c)

Spec == Init /\ [][Next]_vars

\* The thread runs its function on a ticker and the function ends, a lease that
\* is free is taken, a replica learns that it lost it, and time passes.
FairSpec ==
  /\ Spec
  /\ WF_vars(FiveMinutesPass)
  /\ \A p \in Replicas : WF_vars(Cycle(p)) /\ WF_vars(StoppedLeading(p))
  /\ WF_vars(\E p \in Replicas : StartedLeading(p))
  /\ \A c \in Clusters : WF_vars(IsLogCollectionTimedOut(c))

----------------------------------------------------------------------------
(* Properties *)

\* Rows, leases, memories and cycles have the shape the code gives them.
TypeOK ==
  /\ row \in [Clusters -> Row]
  /\ lease \in Replicas \cup {"nobody"} /\ leading \subseteq Replicas
  /\ \A p \in Replicas :
       /\ mem[p].full \in BOOLEAN /\ mem[p].cursor \in Clusters \cup {None}
       /\ mem[p].blacklist \in [Clusters -> 0..BlacklistFor]
       /\ cycle[p].pc \in {"idle", "load", "rows", "process"}
       /\ cycle[p].last \in Clusters \cup {None} /\ cycle[p].ids \subseteq Clusters
       /\ DOMAIN cycle[p].batch \subseteq Clusters
       /\ \A c \in DOMAIN cycle[p].batch :
            cycle[p].batch[c] \in [status : Status, to : Status, overdue : BOOLEAN, skip : BOOLEAN]
  /\ faults \in 0..MaxFaults /\ overruns \in 0..MaxOverruns

\* However many replicas believe to be leader, and however old the rows are that
\* their refreshes were decided on, a write that lands late takes no cluster out of its
\* end: installed and deleted are final, and error is left by a user request only.
StaysEnded(c) ==
  row'[c].status # row[c].status /\ row[c].status \in {"error", "installed", "deleted"}
    => row[c].status = "error" /\ row'[c].status \in {"insufficient", "deleted"}

EndedStaysEnded == [][\A c \in Clusters : StaysEnded(c)]_vars

\* Whatever transition is due is carried out, or ceases to be due: what cursor, batches,
\* deadline and blacklist skip now, the cycles come back to, and a status that a deposed
\* leader wrote on old conditions does not stay.
EveryChangeIsMonitored == \A c \in Clusters : IsDue(row[c]) ~> ~IsDue(row[c])

\* A cluster in error is not monitored for ever: its log collection ends, or is
\* given up.
LogCollectionEnds ==
  \A c \in Clusters : row[c].status = "error" ~> (row[c].status # "error" \/ row[c].logs = "over")
============================================================================
