------------------------ MODULE ClusterStateMachine ------------------------
(***************************************************************************)
(* The transition rules of a cluster (internal/cluster/statemachine.go).    *)
(*                                                                         *)
(* The evaluation context y of a refresh holds the values of the rules'     *)
(* conditions:                                                              *)
(*   dhcp inputs vips fit  VipDhcpAllocationSet, pendingConditions,         *)
(*                         vipsDefinedConditions, requiredForInstall        *)
(*   late                  the timeout that starts with the current status  *)
(*                         (preparing, finalizing) elapsed                  *)
(*   overdue               IsInstallationTimedOut, since install_started_at *)
(*   prepared unpreparing failed   AllHostsPreparedSuccessfully,            *)
(*                         UnPreparingtHostsExist,                          *)
(*                         FailedPreparingtHostsExist                       *)
(*   prep                  the status of the last installation preparation  *)
(*   installing finalizing pending  IsInstalling, IsFinalizing,             *)
(*                         IsInstallingPendingUserAction                    *)
(*   done complete         areAllHostsDone, hasClusterCompleteInstallation  *)
(*   soft                  SoftTimeoutsEnabled                              *)
(*   stageLate stageSoft stageNoted   IsFinalizingStageTimedOut, the stage  *)
(*                         is a non-failing one,                            *)
(*                         finalizingStageTimeoutTriggered                  *)
(*   console               WithAMSSubscriptions                             *)
(***************************************************************************)
EXTENDS StateSwitch

ClusterDiscovery == {"pending-for-input", "ready", "insufficient"}
ClusterInstallation == {"installing", "installing-pending-user-action", "finalizing"}
ClusterStatus ==
  ClusterDiscovery \cup ClusterInstallation
    \cup {"preparing-for-installation", "installed", "error", "cancelled"}

ClusterPost == {"none", "status", "dns", "mark-failed", "note-stage", "console", "complete"}

PreparationStatus == {"not_started", "success", "failed"}

----------------------------------------------------------------------------
(* Requests *)

ClusterCancelRules ==
  { Rule(1, ClusterInstallation \cup {"error"}, TRUE, "cancelled", "status"),
    Rule(2, {"preparing-for-installation"}, TRUE, "ready", "status") }

ClusterResetRules ==
  { Rule(1, ClusterInstallation \cup {"preparing-for-installation", "error", "cancelled"},
         TRUE, "insufficient", "status") }

PrepareForInstallationRules ==
  { Rule(1, {"ready"}, TRUE, "preparing-for-installation", "status") }

----------------------------------------------------------------------------
(* Refresh, run by the cluster monitor and after user updates *)

ClusterDiscoveryRules(y) ==
  { Rule(1, ClusterDiscovery, ~y.dhcp /\ ~(y.vips /\ y.inputs), "pending-for-input", "status"),
    Rule(2, ClusterDiscovery, ~y.dhcp /\ y.vips /\ y.inputs /\ ~y.fit, "insufficient", "status"),
    Rule(3, ClusterDiscovery, y.dhcp /\ ~y.inputs, "pending-for-input", "status"),
    Rule(4, ClusterDiscovery, y.dhcp /\ y.inputs /\ ~(y.fit /\ y.vips), "insufficient", "status"),
    Rule(5, ClusterDiscovery, y.inputs /\ y.vips /\ y.fit, "ready", "status") }

\* Mutant: hosts and goroutines that fail are left to the timeout.
ClusterPreparationRulesMissing(y) ==
  { Rule(6, {"preparing-for-installation"}, y.late /\ ~y.failed, "ready", "mark-failed"),
    Rule(7, {"preparing-for-installation"}, y.prepared /\ y.prep = "success", "installing", "dns"),
    Rule(8, {"preparing-for-installation"}, y.unpreparing, "insufficient", "status") }

\* "dns" creates the DNS records before the status is written; "mark-failed"
\* records a failed preparation after it.
ClusterPreparationRules(y) ==
  { Rule(6, {"preparing-for-installation"}, y.late /\ ~y.failed, "ready", "mark-failed"),
    Rule(7, {"preparing-for-installation"}, y.prepared /\ y.prep = "success", "installing", "dns"),
    Rule(8, {"preparing-for-installation"}, y.unpreparing, "insufficient", "status"),
    Rule(9, {"preparing-for-installation"},
         y.failed \/ (~y.unpreparing /\ y.prep = "failed"), "ready", "status") }

\* Mutant: a cluster that lost its hosts goes on installing.
ClusterFailureRulesMissing(y) ==
  { Rule(11, {"installing-pending-user-action"}, y.overdue, "error", "status"),
    Rule(12, {"installing", "finalizing"}, y.overdue /\ y.soft, "error", "status"),
    Rule(13, {"finalizing"}, y.late /\ ~y.soft, "error", "status") }

\* Mutant: the deadline of the whole installation is forgotten.
ClusterFailureRulesNoDeadline(y) ==
  { Rule(10, {"installing-pending-user-action"}, ~(y.installing \/ y.finalizing), "error", "status"),
    Rule(13, {"finalizing"}, y.late /\ ~y.soft, "error", "status"),
    Rule(24, {"installing"}, ~y.finalizing /\ ~y.installing, "error", "status") }

\* Mutant: a slow stage fails a cluster with soft timeouts too.
ClusterFailureRulesHardStages(y) ==
  { Rule(10, {"installing-pending-user-action"}, ~(y.installing \/ y.finalizing), "error", "status"),
    Rule(11, {"installing-pending-user-action"}, y.overdue, "error", "status"),
    Rule(12, {"installing", "finalizing"}, y.overdue /\ y.soft, "error", "status"),
    Rule(13, {"finalizing"}, y.late /\ ~y.soft, "error", "status"),
    Rule(14, {"finalizing"}, y.stageLate /\ ~y.stageSoft, "error", "status"),
    Rule(24, {"installing"}, ~y.finalizing /\ ~y.installing, "error", "status") }

ClusterFailureRules(y) ==
  { Rule(10, {"installing-pending-user-action"}, ~(y.installing \/ y.finalizing), "error", "status"),
    Rule(11, {"installing-pending-user-action"}, y.overdue, "error", "status"),
    Rule(12, {"installing", "finalizing"}, y.overdue /\ y.soft, "error", "status"),
    Rule(13, {"finalizing"}, y.late /\ ~y.soft, "error", "status"),
    Rule(14, {"finalizing"}, ~y.soft /\ y.stageLate /\ ~y.stageSoft, "error", "status"),
    Rule(24, {"installing"}, ~y.finalizing /\ ~y.installing, "error", "status") }

ClusterInstallationRules(y) ==
  { Rule(15, {"finalizing"}, ~y.stageNoted /\ (y.soft \/ y.stageSoft) /\ y.stageLate,
         "finalizing", "note-stage"),
    Rule(16, {"installing-pending-user-action"}, y.pending /\ (y.installing \/ y.finalizing),
         "installing-pending-user-action", "none"),
    Rule(17, {"installing-pending-user-action"}, ~y.pending /\ y.installing /\ ~y.finalizing,
         "installing", "status"),
    Rule(18, {"installing-pending-user-action"}, ~y.pending /\ y.finalizing, "finalizing", "status"),
    Rule(19, {"installing", "finalizing"}, (y.installing \/ y.finalizing) /\ y.pending,
         "installing-pending-user-action", "status"),
    Rule(20, {"installing"}, y.finalizing /\ ~y.pending, "finalizing", "status"),
    Rule(21, {"installing"}, ~y.finalizing /\ ~y.pending /\ y.installing, "installing", "status"),
    Rule(22, {"finalizing"}, y.console, "finalizing", "console"),
    Rule(23, {"finalizing"}, y.done /\ y.complete, "installed", "complete") }

\* The rule for a log-collection timeout precedes these and stays in the same
\* status; it belongs to log collection and is left out.
ClusterTerminalRules ==
  { Rule(30, {s}, TRUE, s, "none") :
      s \in {"preparing-for-installation", "finalizing", "installed", "error", "cancelled",
             "adding-hosts", "unmonitored"} }

ClusterRefreshRules(y) ==
  ClusterDiscoveryRules(y) \cup ClusterPreparationRules(y)
    \cup ClusterFailureRules(y) \cup ClusterInstallationRules(y) \cup ClusterTerminalRules
=============================================================================
