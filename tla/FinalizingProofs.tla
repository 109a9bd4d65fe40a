-------------------------- MODULE FinalizingProofs --------------------------
(***************************************************************************)
(* Safety of Finalizing for any operators, any AMS and any number of        *)
(* disturbances.                                                            *)
(***************************************************************************)
EXTENDS Finalizing, StateMachineProofs

USE OperatorsAssumption

----------------------------------------------------------------------------
(* The inductive invariant *)

Others ==
  /\ operator \in [Operators -> OperatorStatus]
  /\ worker \in WorkerStatus
  /\ request \in FinalizingStage \cup {""}
  /\ env \in [ams : Ams, prompt : BOOLEAN]
  /\ disturbed \in 0..MaxDisturbances

\* A plan that fails a cluster with soft timeouts stays right while it waits to be
\* written: the deadline of the installation is not taken back.
PlanIsDue ==
  /\ mon \in Plan \cup {NoPlan}
  /\ mon.to = "error" /\ IsSoftTimeoutsEnabled => row.overdue

FinalizingInv == row \in Row /\ Others /\ PlanIsDue

\* It implies the type invariant.
LEMMA FinalizingInvImplies == FinalizingInv => TypeOK
  BY DEF FinalizingInv, Others, PlanIsDue, TypeOK

----------------------------------------------------------------------------
(* The rules *)

\* With soft timeouts only the deadline of the whole installation fails a cluster
\* whose hosts go on.
LEMMA SoftRefreshFailsOverdue ==
  ASSUME NEW y, NEW s \in ClusterInstallation, NEW r \in Runs(ClusterRefreshRules(y), s),
         y.soft, y.finalizing, r.to = "error"
  PROVE  y.overdue
<1>1. r \in ClusterRefreshRules(y) /\ s \in r.from
  BY RunsMatch
<1>2. CASE r \in ClusterDiscoveryRules(y)
  BY <1>1, <1>2 DEF ClusterDiscoveryRules, Rule
<1>3. CASE r \in ClusterPreparationRules(y)
  BY <1>1, <1>3 DEF ClusterPreparationRules, Rule
<1>4. CASE r \in ClusterFailureRules(y)
  BY <1>1, <1>4 DEF ClusterFailureRules, Rule
<1>5. CASE r \in ClusterInstallationRules(y)
  BY <1>1, <1>5 DEF ClusterInstallationRules, Rule
<1>6. CASE r \in ClusterTerminalRules
  BY <1>1, <1>6 DEF ClusterTerminalRules, Rule, ClusterInstallation
<1>. QED BY <1>1, <1>2, <1>3, <1>4, <1>5, <1>6 DEF ClusterRefreshRules

\* What the monitor plans is a plan, and right when it is made.
LEMMA PlannedIsDue ==
  ASSUME row \in Row, row.status \in ClusterInstallation, NEW p \in Planned
  PROVE  p \in Plan /\ (p.to = "error" /\ IsSoftTimeoutsEnabled => row.overdue)
<1>1. PICK r \in Runs(ClusterRefreshRules(Context), row.status) :
        p = [from |-> row.status, to |-> r.to, post |-> r.post]
  BY DEF Planned
<1>2. row.status \in ClusterStatus
  BY DEF Row
<1>3. r.to \in ClusterStatus /\ r.post \in ClusterPost
  BY <1>2, ClusterRefreshIsSafe DEF ClusterRuleIsSafe
<1>4. p \in Plan
  BY <1>1, <1>2, <1>3 DEF Plan
<1>5. /\ Context.finalizing
      /\ Context.soft <=> IsSoftTimeoutsEnabled
      /\ Context.overdue <=> row.overdue
  BY DEF Context
<1>. HIDE DEF Context
<1>6. r.to = "error" /\ Context.soft => Context.overdue
  BY <1>5, SoftRefreshFailsOverdue
<1>. QED BY <1>1, <1>4, <1>5, <1>6

----------------------------------------------------------------------------
(* Writes *)

\* The row is written, and the deadline is not taken back nor the timeouts made hard.
LEMMA RowWritten ==
  ASSUME FinalizingInv, row' \in Row, row'.soft = row.soft, row.overdue => row'.overdue,
         mon' \in {mon, NoPlan}, Others'
  PROVE  FinalizingInv'
<1>1. NoPlan.to # "error"
  BY DEF NoPlan
<1>2. mon' \in Plan \cup {NoPlan}
  BY DEF FinalizingInv, PlanIsDue
<1>3. mon'.to = "error" /\ IsSoftTimeoutsEnabled' => row'.overdue
  BY <1>1 DEF FinalizingInv, PlanIsDue, IsSoftTimeoutsEnabled
<1>. QED BY <1>2, <1>3 DEF FinalizingInv, PlanIsDue

\* The count of disturbances stays within its bound.
LEMMA Disturbed ==
  ASSUME disturbed \in 0..MaxDisturbances, Disturb \/ UNCHANGED disturbed
  PROVE  disturbed' \in 0..MaxDisturbances
<1>1. MaxDisturbances \in Nat
  BY DEF OperatorsAssumption
<1>. QED BY <1>1 DEF Disturb

\* A new status keeps the row a row.
LEMMA MovedType ==
  ASSUME row \in Row, NEW to \in ClusterStatus
  PROVE  Moved(to) \in Row /\ Moved(to).status = to /\ Moved(to).soft = row.soft /\ Moved(to).overdue = row.overdue
<1>. DEFINE back == to = "finalizing" /\ mon.from = "installing-pending-user-action"
            stageLate == row.stageLate /\ ~back
            noted == row.noted /\ ~back
<1>1. stageLate \in BOOLEAN /\ noted \in BOOLEAN
  OBVIOUS
<1>2. Moved(to) = [row EXCEPT !.status = to, !.late = FALSE, !.stageLate = stageLate, !.noted = noted]
  BY DEF Moved
<1>. HIDE DEF stageLate, noted, back
<1>. QED BY <1>1, <1>2 DEF Row

----------------------------------------------------------------------------
(* The steps *)

\* The masters are installed, nothing is reported yet.
LEMMA FinalizingInit == Init => FinalizingInv
<1>. SUFFICES ASSUME Init PROVE FinalizingInv
  OBVIOUS
<1>1. row \in Row
  BY DEF Init, Row, ClusterStatus, ClusterInstallation
<1>2. Others
  <2>1. MaxDisturbances \in Nat
    BY DEF OperatorsAssumption
  <2>2. disturbed = 0
    BY DEF Init
  <2>3. disturbed \in 0..MaxDisturbances
    BY <2>1, <2>2
  <2>. QED BY <2>3 DEF Init, Others, OperatorStatus, WorkerStatus
<1>3. PlanIsDue
  BY DEF Init, PlanIsDue, NoPlan
<1>. QED BY <1>1, <1>2, <1>3 DEF FinalizingInv

\* The monitor keeps the invariant, and fails a cluster with soft timeouts only when
\* its installation is overdue.
LEMMA MonitorStep ==
  ASSUME FinalizingInv, Monitor
  PROVE  /\ FinalizingInv'
         /\ IsSoftTimeoutsEnabled /\ row'.status = "error" => row.status = "error" \/ row.overdue
<1>0. row \in Row /\ Others /\ PlanIsDue
  BY DEF FinalizingInv
<1>1. Others'
  BY <1>0 DEF Monitor, MonRead, MonWrite, Others
<1>2. CASE MonRead
  <2>1. mon' \in Planned /\ UNCHANGED row /\ row.status \in ClusterInstallation
    BY <1>2 DEF MonRead
  <2>2. mon' \in Plan /\ (mon'.to = "error" /\ IsSoftTimeoutsEnabled => row.overdue)
    BY <1>0, <2>1, PlannedIsDue
  <2>3. PlanIsDue'
    BY <2>1, <2>2 DEF PlanIsDue, IsSoftTimeoutsEnabled
  <2>4. row'.status # "error"
    BY <2>1 DEF ClusterInstallation
  <2>. QED BY <1>0, <1>1, <2>1, <2>3, <2>4 DEF FinalizingInv
<1>3. CASE MonWrite
  <2>1. mon \in Plan /\ mon.to \in ClusterStatus /\ mon' = NoPlan
    BY <1>0, <1>3 DEF MonWrite, PlanIsDue, Plan
  <2>. DEFINE sent == row.console \/ env.ams = "up"
  <2>2. row' \in {row, Announced, ConsoleSent, Moved(mon.to)}
    BY <1>3 DEF MonWrite, CompleteInstallation
  <2>3. /\ Announced \in Row /\ Announced.soft = row.soft /\ Announced.overdue = row.overdue
        /\ Announced.status = row.status
    BY <1>0 DEF Announced, Row
  <2>4. /\ ConsoleSent \in Row /\ ConsoleSent.soft = row.soft /\ ConsoleSent.overdue = row.overdue
        /\ ConsoleSent.status = row.status
    <3>1. sent \in BOOLEAN /\ ConsoleSent = [row EXCEPT !.console = sent]
      BY DEF ConsoleSent
    <3>. HIDE DEF sent
    <3>. QED BY <1>0, <3>1 DEF Row
  <2>5. /\ Moved(mon.to) \in Row /\ Moved(mon.to).soft = row.soft /\ Moved(mon.to).overdue = row.overdue
        /\ Moved(mon.to).status = mon.to
    BY <1>0, <2>1, MovedType
  <2>6. row' \in Row /\ row'.soft = row.soft /\ row'.overdue = row.overdue /\ row'.status \in {row.status, mon.to}
    BY <1>0, <2>2, <2>3, <2>4, <2>5
  <2>7. FinalizingInv'
    BY <1>1, <2>1, <2>6, RowWritten
  <2>. QED BY <1>0, <2>6, <2>7 DEF PlanIsDue
<1>. QED BY <1>2, <1>3 DEF Monitor

\* All others write rows of the right type.
LEMMA OtherStep ==
  ASSUME FinalizingInv, Controller \/ Worker \/ User \/ Restart \/ Time
  PROVE  FinalizingInv' /\ (row'.status = "error" => row.status = "error")
<1>0. row \in Row /\ Others /\ PlanIsDue
  BY DEF FinalizingInv
<1>1. mon' \in {mon, NoPlan}
  BY DEF Controller, ReportStage, WriteStage, ReportOperator, UploadIngressCert, Worker, WorkerWaits,
         WorkerGoesOn, User, CancelInstallation, ResetCluster, Restart, Time, FinalizingTimesOut,
         InstallationTimesOut, StageTimesOut
<1>. DEFINE Written == /\ row' \in Row /\ row'.soft = row.soft /\ (row.overdue => row'.overdue)
                       /\ (row'.status = "error" => row.status = "error")
<1>2. ASSUME Written, Others' PROVE FinalizingInv' /\ (row'.status = "error" => row.status = "error")
  BY <1>1, <1>2, RowWritten
<1>3. ASSUME UNCHANGED row PROVE Written
  BY <1>0, <1>3
<1>. HIDE DEF Written
<1>4. CASE ReportStage
  <2>1. disturbed' \in 0..MaxDisturbances
    BY <1>0, <1>4, Disturbed DEF ReportStage, Others
  <2>2. Others'
    BY <1>0, <1>4, <2>1 DEF ReportStage, Others
  <2>. QED BY <1>2, <1>3, <1>4, <2>2 DEF ReportStage
<1>5. CASE WriteStage
  <2>1. request \in FinalizingStage /\ row' = [row EXCEPT !.stage = request, !.stageLate = FALSE, !.noted = FALSE]
    BY <1>0, <1>5 DEF WriteStage, Others
  <2>2. Written
    BY <1>0, <2>1 DEF Row, Written
  <2>3. Others'
    BY <1>0, <1>5 DEF WriteStage, Others
  <2>. QED BY <1>2, <2>2, <2>3
<1>6. ASSUME NEW o \in Operators, ReportOperator(o) PROVE FinalizingInv' /\ (row'.status = "error" => row.status = "error")
  <2>1. operator' \in [Operators -> OperatorStatus]
    BY <1>0, <1>6 DEF ReportOperator, Others
  <2>2. Others'
    BY <1>0, <1>6, <2>1, Disturbed DEF ReportOperator, Others
  <2>. QED BY <1>2, <1>3, <1>6, <2>2 DEF ReportOperator
<1>7. CASE UploadIngressCert
  <2>1. Written
    BY <1>0, <1>7 DEF UploadIngressCert, Row, Written
  <2>2. Others'
    BY <1>0, <1>7 DEF UploadIngressCert, Others
  <2>. QED BY <1>2, <2>1, <2>2
<1>8. CASE Worker
  <2>1. worker' \in WorkerStatus /\ UNCHANGED <<row, operator, request, env>>
    BY <1>8 DEF Worker, WorkerWaits, WorkerGoesOn, WorkerStatus
  <2>2. disturbed' \in 0..MaxDisturbances
    BY <1>0, <1>8, Disturbed DEF Worker, WorkerWaits, WorkerGoesOn, Others
  <2>3. Others'
    BY <1>0, <2>1, <2>2 DEF Others
  <2>. QED BY <1>2, <1>3, <2>1, <2>3
<1>9. CASE CancelInstallation
  <2>1. PICK r \in Runs(ClusterCancelRules, row.status) : row' = [row EXCEPT !.status = r.to, !.late = FALSE]
    BY <1>9 DEF CancelInstallation
  <2>2. r.to \in ClusterStatus /\ r.to # "error"
    BY ClusterRequestsSafe DEF ClusterStatus, ClusterDiscovery
  <2>3. Written
    BY <1>0, <2>1, <2>2 DEF Row, Written
  <2>4. Others'
    BY <1>0, <1>9, Disturbed DEF CancelInstallation, Others
  <2>. QED BY <1>2, <2>3, <2>4
<1>10. CASE ResetCluster
  <2>1. PICK r \in Runs(ClusterResetRules, row.status) :
          row' = [row EXCEPT !.status = r.to, !.late = FALSE, !.stage = "", !.stageLate = FALSE,
                             !.noted = FALSE, !.kubeconfig = FALSE]
    BY <1>10 DEF ResetCluster
  <2>2. r.to \in ClusterStatus /\ r.to # "error"
    BY ClusterRequestsSafe DEF ClusterStatus, ClusterDiscovery
  <2>3. Written
    BY <1>0, <2>1, <2>2 DEF Row, Written
  <2>4. Others'
    BY <1>0, <1>10, Disturbed DEF ResetCluster, Others
  <2>. QED BY <1>2, <2>3, <2>4
<1>11. CASE Restart
  <2>1. Others'
    BY <1>0, <1>11, Disturbed DEF Restart, Others
  <2>. QED BY <1>2, <1>3, <1>11, <2>1 DEF Restart
<1>12. CASE Time
  <2>1. Written
    BY <1>0, <1>12 DEF Time, FinalizingTimesOut, InstallationTimesOut, StageTimesOut, Row, Written
  <2>2. Others'
    BY <1>0, <1>12 DEF Time, FinalizingTimesOut, InstallationTimesOut, StageTimesOut, Others
  <2>. QED BY <1>2, <2>1, <2>2
<1>. QED BY <1>4, <1>5, <1>6, <1>7, <1>8, <1>9, <1>10, <1>11, <1>12 DEF Controller, User

\* The invariant is inductive.
LEMMA FinalizingStep == FinalizingInv /\ [Next]_vars => FinalizingInv'
<1>. SUFFICES ASSUME FinalizingInv, [Next]_vars PROVE FinalizingInv'
  OBVIOUS
<1>1. CASE UNCHANGED vars
  BY <1>1, RowWritten DEF vars, FinalizingInv, Others
<1>2. CASE Next
  BY <1>2, MonitorStep, OtherStep DEF Next
<1>. QED BY <1>1, <1>2

\* So it holds always.
LEMMA FinalizingAlways == Spec => []FinalizingInv
  BY FinalizingInit, FinalizingStep, PTL DEF Spec

----------------------------------------------------------------------------
(* The theorems *)

\* Rows, plans and requests keep their types, for any set of operators; no stage is
\* recorded that the service does not know.
THEOREM FinalizingTypeCorrect == Spec => []TypeOK
  BY FinalizingAlways, FinalizingInvImplies, PTL

\* With soft timeouts a cluster fails only once its whole installation is overdue,
\* although the monitor decides on a row it loaded before.
THEOREM SoftTimeoutsAreSoft == Spec => SoftClustersFailOnlyOverdue
<1>1. FinalizingInv /\ [Next]_vars =>
        [IsSoftTimeoutsEnabled /\ row'.status = "error" => row.status = "error" \/ row.overdue]_vars
  BY MonitorStep, OtherStep DEF Next
<1>. QED BY <1>1, FinalizingAlways, PTL DEF Spec, SoftClustersFailOnlyOverdue
=============================================================================
