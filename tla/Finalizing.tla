----------------------------- MODULE Finalizing -----------------------------
(***************************************************************************)
(* The last part of a day-1 installation: the masters are installed, the    *)
(* controller that runs in the new cluster reports finalizing stages and    *)
(* monitored operators, the subscription service (AMS) is told of the       *)
(* console and of the completion, and the cluster monitor ends it all.      *)
(*                                                                         *)
(* The rules are those of ClusterStateMachine, with the stages, operators   *)
(* and AMS that InstallFlow leaves out; one late worker stands for the      *)
(* hosts.  The monitor loads the row, calls AMS and writes "where status =  *)
(* <the status it loaded>"; a stage report checks the row it loaded and     *)
(* writes by id alone.                                                      *)
(***************************************************************************)
EXTENDS Integers, FiniteSets, ClusterStateMachine

CONSTANTS
  Builtin,         \* the monitored operators every cluster has ...
  Console,         \* ... among them the console
  Olm,             \* the monitored operators the user asked for
  Ams,             \* what AMS may be in this instance
  SoftTimeouts,    \* ENABLE_SOFT_TIMEOUTS of the service
  MaxDisturbances  \* bound: disturbances of a behaviour

ASSUME OperatorsAssumption ==
  /\ Console \in Builtin /\ Builtin \cap Olm = {}
  /\ Ams \subseteq {"none", "up", "down"}
  /\ SoftTimeouts \in BOOLEAN /\ MaxDisturbances \in Nat

VARIABLES
  row,       \* the row of the cluster
  operator,  \* the status of each monitored operator
  worker,    \* the status of the late worker
  mon,       \* the cluster monitor: the write it has yet to do
  request,   \* the stage report that is being handled
  env,       \* whether AMS is not configured, up or down, and whether deadlines elapse, in this behaviour
  disturbed  \* disturbances so far

vars == <<row, operator, worker, mon, request, env, disturbed>>

Operators == Builtin \cup Olm

\* The stages the rules tell apart, in the order in which the controller goes through
\* them; "" is before the first.
FinalizingStages ==
  <<"Waiting for cluster operators", "Waiting for OLM operators", "Done">>
NonFailingFinalizingStages == {"Waiting for OLM operators"}
FinalizingStage == {FinalizingStages[i] : i \in 1..3}

\* late, overdue, stageLate: the timeout of the status, of the whole installation and of
\* the stage elapsed; noted: that of the stage was announced; console: AMS has the URL.
Row ==
  [status : ClusterStatus, late : BOOLEAN, overdue : BOOLEAN, stage : FinalizingStage \cup {""},
   stageLate : BOOLEAN, noted : BOOLEAN, console : BOOLEAN, kubeconfig : BOOLEAN, soft : BOOLEAN]

OperatorStatus == {"progressing", "available", "failed"}
WorkerStatus == {"installing-in-progress", "installing-pending-user-action", "installed", "error"}

Plan == [from : ClusterStatus, to : ClusterStatus, post : ClusterPost]
NoPlan == [from |-> "", to |-> "", post |-> "none"]

\* All but the worker are installed when a behaviour begins.
Init ==
  /\ row \in [status : {"installing"}, late : {FALSE}, overdue : {FALSE}, stage : {""},
              stageLate : {FALSE}, noted : {FALSE}, console : {FALSE}, kubeconfig : {FALSE},
              soft : {s \in BOOLEAN : s => SoftTimeouts}]
  /\ operator = [o \in Operators |-> "progressing"]
  /\ worker = "installing-in-progress"
  /\ mon = NoPlan
  /\ request = ""
  /\ env \in [ams : Ams, prompt : BOOLEAN]
  /\ disturbed = 0

Disturb ==
  /\ disturbed < MaxDisturbances
  /\ disturbed' = disturbed + 1

----------------------------------------------------------------------------
(* Conditions *)

IsSoftTimeoutsEnabled == SoftTimeouts /\ row.soft

HaveOperatorsComplete ==
  /\ \A o \in Builtin : operator[o] = "available"
  /\ \A o \in Olm : operator[o] \in {"available", "failed"}

HasClusterCompleteInstallation == row.kubeconfig /\ HaveOperatorsComplete

AreAllHostsDone == worker \in {"installed", "error"}

\* Mutant: the URL is sent again and again.
WithAMSSubscriptionsAlways == env.ams # "none" /\ operator[Console] = "available"

WithAMSSubscriptions ==
  env.ams # "none" /\ ~row.console /\ operator[Console] = "available"

\* The masters are installed, which is enough to finalize.
Context ==
  [dhcp |-> FALSE, inputs |-> TRUE, vips |-> TRUE, fit |-> FALSE, late |-> row.late,
   overdue |-> row.overdue, prep |-> "success", prepared |-> FALSE, unpreparing |-> FALSE,
   failed |-> FALSE, installing |-> TRUE, finalizing |-> TRUE,
   pending |-> worker = "installing-pending-user-action",
   done |-> AreAllHostsDone, complete |-> HasClusterCompleteInstallation,
   soft |-> IsSoftTimeoutsEnabled, stageLate |-> row.stageLate /\ row.stage # "",
   stageSoft |-> row.stage \in NonFailingFinalizingStages, stageNoted |-> row.noted,
   console |-> WithAMSSubscriptions]

----------------------------------------------------------------------------
(* The cluster monitor *)

\* A cycle that would write nothing has no action.
Planned ==
  {[from |-> row.status, to |-> r.to, post |-> r.post] :
     r \in {q \in Runs(ClusterRefreshRules(Context), row.status) :
              q.post \in {"note-stage", "console", "complete"} \/ q.to # row.status}}

MonRead ==
  /\ row.status \in ClusterInstallation
  /\ mon = NoPlan
  /\ mon' \in Planned
  /\ UNCHANGED <<row, operator, worker, request, env, disturbed>>

\* addExtraParams: a cluster that comes back from waiting for the user starts its stage anew.
Moved(to) ==
  [row EXCEPT !.status = to, !.late = FALSE,
              !.stageLate = @ /\ ~(to = "finalizing" /\ mon.from = "installing-pending-user-action"),
              !.noted = @ /\ ~(to = "finalizing" /\ mon.from = "installing-pending-user-action")]

\* notifyFinalizingStageTimeout
Announced == [row EXCEPT !.noted = TRUE]

\* The two that call AMS call it first, and write nothing when it fails.
ConsoleSent == [row EXCEPT !.console = @ \/ env.ams = "up"]
CompleteInstallation == IF env.ams = "down" THEN row ELSE Moved(mon.to)

\* The write asks for the status that was loaded.
MonWrite ==
  /\ mon # NoPlan
  /\ row' = CASE row.status # mon.from -> row
              [] mon.post = "note-stage" -> Announced
              [] mon.post = "console" -> ConsoleSent
              [] mon.post = "complete" -> CompleteInstallation
              [] OTHER -> Moved(mon.to)
  /\ mon' = NoPlan
  /\ UNCHANGED <<operator, worker, request, env, disturbed>>

----------------------------------------------------------------------------
(* The controller in the new cluster *)

\* Stage s was left before the one the row has was reported.
IsBefore(s) ==
  \E j \in 1..3 : row.stage = FinalizingStages[j] /\ \E i \in 1..(j - 1) : s = FinalizingStages[i]

\* Mutant: a stage nobody knows is accepted.
ReportStageUnchecked ==
  /\ request = ""
  /\ row.status \in ClusterInstallation
  /\ request' \in (FinalizingStage \cup {"Failed"}) \ {row.stage}
  /\ UNCHANGED <<row, operator, worker, mon, env, disturbed>>

\* UpdateFinalizingStage loads the cluster and looks at its status and stage: any other
\* stage is accepted.  The controller goes forward, unless it is restarted or its reports
\* are delayed: an earlier stage is a disturbance.
ReportStage ==
  /\ request = ""
  /\ row.status \in ClusterInstallation
  /\ request' \in FinalizingStage \ {row.stage}
  /\ IF IsBefore(request') THEN Disturb ELSE UNCHANGED disturbed
  /\ UNCHANGED <<row, operator, worker, mon, env>>

\* ... and writes by id, whatever the status is by now.
WriteStage ==
  /\ request # ""
  /\ row' = [row EXCEPT !.stage = request, !.stageLate = FALSE, !.noted = FALSE]
  /\ request' = ""
  /\ UNCHANGED <<operator, worker, mon, env, disturbed>>

\* Any report is accepted at any time; one that takes an earlier one back is a disturbance.
ReportOperator(o) ==
  /\ \E s \in OperatorStatus \ {operator[o]} : operator' = [operator EXCEPT ![o] = s]
  /\ IF operator[o] = "progressing" THEN UNCHANGED disturbed ELSE Disturb
  /\ UNCHANGED <<row, worker, mon, request, env>>

UploadIngressCert ==
  /\ row.status \in {"finalizing", "installed"}
  /\ ~row.kubeconfig
  /\ row' = [row EXCEPT !.kubeconfig = TRUE]
  /\ UNCHANGED <<operator, worker, mon, request, env, disturbed>>

----------------------------------------------------------------------------
(* The late worker, by the host rules of InstallFlow *)

\* It reboots too slowly; the user boots it from its disk; it is done, or fails.
WorkerWaits ==
  /\ row.status \in ClusterInstallation
  /\ worker = "installing-in-progress"
  /\ Disturb
  /\ worker' = "installing-pending-user-action"
  /\ UNCHANGED <<row, operator, mon, request, env>>

WorkerGoesOn ==
  /\ row.status \in ClusterInstallation
  /\ worker \in {"installing-in-progress", "installing-pending-user-action"}
  /\ worker' \in {"installing-in-progress", "installed", "error"} \ {worker}
  /\ worker = "installing-pending-user-action" => worker' # "installed"
  /\ UNCHANGED <<row, operator, mon, request, env, disturbed>>

----------------------------------------------------------------------------
(* The user, restarts and time *)

CancelInstallation ==
  /\ Disturb
  /\ \E r \in Runs(ClusterCancelRules, row.status) :
       row' = [row EXCEPT !.status = r.to, !.late = FALSE]
  /\ UNCHANGED <<operator, worker, mon, request, env>>

\* resetFields: the progress is cleared, the operators and the URL are kept.
ResetCluster ==
  /\ Disturb
  /\ \E r \in Runs(ClusterResetRules, row.status) :
       row' = [row EXCEPT !.status = r.to, !.late = FALSE, !.stage = "", !.stageLate = FALSE,
                          !.noted = FALSE, !.kubeconfig = FALSE]
  /\ UNCHANGED <<operator, worker, mon, request, env>>

Restart ==
  /\ mon # NoPlan \/ request # ""
  /\ Disturb
  /\ mon' = NoPlan /\ request' = ""
  /\ UNCHANGED <<row, operator, worker, env>>

FinalizingTimesOut ==
  /\ row.status = "finalizing" /\ ~row.late
  /\ ~env.prompt
  /\ row' = [row EXCEPT !.late = TRUE]
  /\ UNCHANGED <<operator, worker, mon, request, env, disturbed>>

InstallationTimesOut ==
  /\ ~row.overdue
  /\ \/ row.status = "installing-pending-user-action"
     \/ IsSoftTimeoutsEnabled /\ row.status \in ClusterInstallation
  /\ ~env.prompt
  /\ row' = [row EXCEPT !.overdue = TRUE]
  /\ UNCHANGED <<operator, worker, mon, request, env, disturbed>>

\* In a prompt behaviour, only where it is announced and no more.
StageTimesOut ==
  /\ row.status \in ClusterInstallation
  /\ row.stage # "" /\ ~row.stageLate
  /\ env.prompt => IsSoftTimeoutsEnabled \/ row.stage \in NonFailingFinalizingStages
  /\ row' = [row EXCEPT !.stageLate = TRUE]
  /\ UNCHANGED <<operator, worker, mon, request, env, disturbed>>

----------------------------------------------------------------------------
Monitor == MonRead \/ MonWrite
Controller == ReportStage \/ WriteStage \/ UploadIngressCert \/ \E o \in Operators : ReportOperator(o)
Worker == WorkerWaits \/ WorkerGoesOn
User == CancelInstallation \/ ResetCluster
Time == FinalizingTimesOut \/ InstallationTimesOut \/ StageTimesOut

Next == Monitor \/ Controller \/ Worker \/ User \/ Restart \/ Time

Spec == Init /\ [][Next]_vars

\* The monitor runs on a ticker, a request that started ends, time passes.  Nothing is
\* asked of the controller, of AMS, of the worker or of the user.
FairSpec ==
  /\ Spec
  /\ WF_vars(Monitor) /\ WF_vars(WriteStage)
  /\ WF_vars(FinalizingTimesOut) /\ WF_vars(InstallationTimesOut)

----------------------------------------------------------------------------
(* Properties *)

\* Every row, plan and request has the shape the code gives it; in particular no
\* stage is recorded that the service does not know.
TypeOK ==
  /\ row \in Row
  /\ operator \in [Operators -> OperatorStatus]
  /\ worker \in WorkerStatus
  /\ mon \in Plan \cup {NoPlan}
  /\ request \in FinalizingStage \cup {""}
  /\ env \in [ams : Ams, prompt : BOOLEAN]
  /\ disturbed \in 0..MaxDisturbances

\* Unless all goes well before the deadlines, they end the installation: although the
\* controller may be silent, AMS may be down for ever and is asked before the cluster
\* is completed, and each return from the user's action starts the timers anew.
FinalizationEnds ==
  (~env.prompt /\ row.status \in ClusterInstallation) ~> (row.status \notin ClusterInstallation)

\* "All existing timeouts except installation timeout and rebooting timeout should be
\* treated as soft timeouts" (docs/enhancements/soft-install-timeout.md): with soft
\* timeouts a slow stage or a slow finalizing is announced and fails nothing.
SoftClustersFailOnlyOverdue ==
  [][IsSoftTimeoutsEnabled /\ row'.status = "error" => row.status = "error" \/ row.overdue]_vars

\* A cluster that has all it takes is completed, unless a deadline or the user ends it
\* or an operator is reported anew: the rules that announce a slow stage and that send the URL of the console precede the
\* one that completes it, and do not keep it from its turn for ever.
CompleteClustersAreInstalled ==
  (/\ env.prompt /\ env.ams # "down"
   /\ row.status = "finalizing" /\ HasClusterCompleteInstallation /\ AreAllHostsDone)
    ~> (row.status \in {"installed", "cancelled", "insufficient"} \/ ~HasClusterCompleteInstallation)
=============================================================================
