-------------------------- MODULE HostStateMachine --------------------------
(***************************************************************************)
(* The transition rules of a bound host (internal/host/statemachine.go).    *)
(*                                                                         *)
(* A rule set is a function of the evaluation context x of one run of the   *)
(* machine; its fields are the values of the conditions:                    *)
(*   cluster   status of the host's cluster, as loaded with the host        *)
(*   role conn media       ValidRoleForInstallation, IsConnected,           *)
(*                         IsMediaConnected                                 *)
(*   speed images          "ok", "unknown" or "bad": the disk speed and     *)
(*                         container image validations                      *)
(*   inv full hw cidr uuid enough    HasInventory,                          *)
(*                         InventoryNotFullyTruncated,                      *)
(*                         hasMinRequiredHardware, requiredInputFieldsExist,*)
(*                         VSphereHostUUIDEnabled, isSufficientForInstall   *)
(*   day2 soft             IsDay2Host, SoftTimeoutsEnabled                  *)
(*   stage                 the current installation stage                   *)
(*   late                  the timeout of the current status (or, while     *)
(*                         installing-in-progress, of the stage) elapsed    *)
(*   lost stuck            connection_timed_out, progress_stage_timed_out   *)
(*   without after         ClusterWouldSucceedWithoutHost,                  *)
(*                         IsClusterPostInstallation                        *)
(*                                                                         *)
(* The field post of a rule names what its post-transition writes besides   *)
(* the status: "none" is a rule without a post-transition.                  *)
(***************************************************************************)
EXTENDS StateSwitch

Discovery == {"discovering", "insufficient", "known", "pending-for-input", "disconnected"}
Preparing == {"preparing-for-installation", "preparing-successful", "preparing-failed"}
Installing == {"installing", "installing-in-progress", "installing-pending-user-action"}

\* Statuses of a host bound to a day-1 cluster.
HostStatus ==
  Discovery \cup Preparing \cup Installing
    \cup {"installed", "error", "cancelled", "resetting-pending-user-action"}

\* What post-transitions write, see below.
HostPost ==
  {"none", "status", "recheck-images", "lost", "found", "touch-stage", "stuck"}

\* The stages the rules tell apart; a host goes through them in this order.
\* "" is a host that reported nothing.
HostStages == <<"", "Writing image to disk", "Rebooting", "Done">>
HostStage == {HostStages[i] : i \in 1..4}
WrongBootOrderIgnoreTimeoutStages ==
  {"Waiting for control plane", "Waiting for controller", "Waiting for bootkube", "Rebooting"}

----------------------------------------------------------------------------
(* Requests *)

HostProgressRules(x) ==
  { Rule(1, {"installing-in-progress", "installing"}, x.stage = "Rebooting" /\ x.day2,
         "installing-in-progress", "status"),
    Rule(2, Installing, x.stage = "Done" /\ x.day2, "added-to-existing-cluster", "status"),
    Rule(3, {"installing-in-progress", "installing"}, x.stage = "Done", "installed", "status"),
    Rule(4, Installing, TRUE, "installing-in-progress", "status"),
    Rule(5, {"installed"}, TRUE, "installed", "none"),
    Rule(6, {"installing-pending-user-action"}, TRUE, "installing-pending-user-action", "none"),
    Rule(7, {"resetting-pending-user-action"}, TRUE, "resetting-pending-user-action", "none") }

\* "forget" clears inventory, progress and images; "restart-preparing" keeps
\* the inventory and resets the cluster's preparation; "reject" is an error
\* returned by the post-transition, which rolls the registration back.
RegisterHostRules(x) ==
  { Rule(1, {"preparing-for-installation", "preparing-successful"}, TRUE, "known", "restart-preparing"),
    Rule(2, Discovery \cup {"resetting-pending-user-action", "binding"}, TRUE, "discovering", "forget"),
    Rule(3, {"resetting"}, x.stage = "Rebooting", "resetting", "none"),
    Rule(4, {"resetting"}, x.stage # "Rebooting", "discovering", "forget"),
    Rule(5, {"installing-in-progress", "added-to-existing-cluster"},
         x.stage = "Rebooting" \/ (x.day2 /\ x.stage = "Done"),
         "installing-pending-user-action", IF x.inv THEN "status" ELSE "reject"),
    Rule(6, {"installing-pending-user-action"},
         x.stage = "Rebooting" \/ (x.day2 /\ x.stage = "Done"),
         "installing-pending-user-action", "reject"),
    Rule(7, {"installing", "installing-in-progress"}, TRUE, "error", "status"),
    Rule(8, {"error"}, TRUE, "error", "none"),
    Rule(9, {"installed"}, TRUE, "installed", "reject") }

\* Mutant: a status nobody knows.
HostInstallationFailedRulesMisnamed ==
  { Rule(1, {"installing", "installing-in-progress"}, TRUE, "failed", "status") }

HostInstallationFailedRules ==
  { Rule(1, {"installing", "installing-in-progress"}, TRUE, "error", "status") }

HostCancelRules ==
  { Rule(1, Installing \cup {"installed", "error"}, TRUE, "cancelled", "status"),
    Rule(2, {"preparing-for-installation", "preparing-successful"}, TRUE, "known", "status"),
    Rule(3, {"known"}, TRUE, "known", "none") }

HostResetRules ==
  { Rule(1, {"resetting", "discovering", "known", "preparing-for-installation",
             "preparing-successful", "preparing-failed", "pending-for-input",
             "resetting-pending-user-action", "installed", "error", "cancelled",
             "added-to-existing-cluster"} \cup Installing,
         TRUE, "resetting-pending-user-action", "status") }

MediaDisconnectRules ==
  { Rule(1, Discovery \cup {"binding"}, TRUE, "disconnected", "media"),
    Rule(2, Preparing \cup {"installing", "installing-in-progress", "error"}, TRUE, "error", "media") }

----------------------------------------------------------------------------
(* Refresh, run by the host monitor and after user updates *)

Reachable(x) == x.conn /\ x.media
SomeUnknown(x) == "unknown" \in {x.speed, x.images}
NoneBad(x) == x.speed # "bad" /\ x.images # "bad"
ValidInventory(x) == x.inv /\ x.full
ClusterPreparing(x) == x.cluster = "preparing-for-installation"

PreparationRules(x) ==
  { Rule(10, {"known"}, x.role /\ Reachable(x) /\ ClusterPreparing(x),
         "preparing-for-installation", IF x.images = "bad" THEN "recheck-images" ELSE "status"),
    Rule(11, {"preparing-for-installation"},
         Reachable(x) /\ x.speed = "ok" /\ x.images = "ok" /\ ClusterPreparing(x),
         "preparing-successful", "status"),
    Rule(12, {"preparing-successful"}, Reachable(x) /\ ClusterPreparing(x),
         "preparing-successful", "none"),
    Rule(13, {"preparing-successful"}, Reachable(x) /\ x.cluster = "installing",
         "installing", "status"),
    Rule(15, {"preparing-for-installation", "preparing-failed", "known"},
         Reachable(x) /\ x.speed = "bad", "insufficient", "status"),
    Rule(16, {"preparing-for-installation"},
         Reachable(x) /\ x.late /\ SomeUnknown(x) /\ NoneBad(x), "preparing-failed", "status"),
    Rule(17, {"preparing-for-installation"}, Reachable(x) /\ x.images = "bad",
         "preparing-failed", "status"),
    Rule(18, {"preparing-for-installation"},
         Reachable(x) /\ SomeUnknown(x) /\ NoneBad(x) /\ ClusterPreparing(x),
         "preparing-for-installation", "none") }

\* Mutant: a host whose preparation succeeded is forgotten.
PreparationAbandonedRulesMissing(x) ==
  { Rule(14, {"preparing-for-installation"}, Reachable(x) /\ NoneBad(x) /\ ~ClusterPreparing(x),
         "known", "status"),
    Rule(19, {"preparing-failed"}, Reachable(x) /\ ~ClusterPreparing(x), "known", "status") }

\* The cluster gave up preparing.
PreparationAbandonedRules(x) ==
  { Rule(14, {"preparing-for-installation"}, Reachable(x) /\ NoneBad(x) /\ ~ClusterPreparing(x),
         "known", "status"),
    Rule(19, {"preparing-failed"}, Reachable(x) /\ ~ClusterPreparing(x), "known", "status"),
    Rule(20, {"preparing-successful"},
         Reachable(x) /\ x.cluster \notin {"preparing-for-installation", "installing"},
         "known", "status") }

DisconnectionRules(x) ==
  { Rule(21, Discovery \cup {"preparing-failed"}, ~Reachable(x), "disconnected", "status"),
    Rule(24, {"preparing-for-installation", "preparing-successful"}, ~Reachable(x),
         "disconnected", "status") }

\* Mutant: hosts that wait for the user are left out.
ClusterErrorRulesMissing(x) ==
  { Rule(22, {"installing", "installing-in-progress", "installed", "resetting-pending-user-action"},
         x.cluster = "error" /\ ~x.day2, "error", "status") }

\* The cluster failed.
ClusterErrorRules(x) ==
  { Rule(22, {"installing", "installing-in-progress", "installed", "resetting-pending-user-action",
              "installing-pending-user-action"}, x.cluster = "error" /\ ~x.day2, "error", "status") }

WrongBootWait(x) ==
  x.stage \in WrongBootOrderIgnoreTimeoutStages /\ x.cluster = "installing-pending-user-action"

\* The code repeats rules 31 and 32 for "Writing image to disk", "Copying registry
\* data to disk" and the other stages: they differ in their status text only.
InstallationRules(x) ==
  { Rule(23, {"installing"}, x.late, "error", "status"),
    Rule(25, {"installing", "installing-in-progress"}, ~x.conn /\ ~x.soft, "error", "status"),
    Rule(26, {"installing"}, ~x.conn /\ x.soft /\ ~x.lost, "installing", "lost"),
    Rule(27, {"installing"}, x.conn /\ x.soft /\ x.lost, "installing", "found"),
    Rule(28, {"installing-in-progress"}, ~x.conn /\ x.soft /\ ~x.lost, "installing-in-progress", "lost"),
    Rule(29, {"installing-in-progress"}, x.conn /\ x.soft /\ x.lost, "installing-in-progress", "found"),
    Rule(30, {"installing-in-progress"}, WrongBootWait(x), "installing-in-progress", "touch-stage"),
    Rule(31, {"installing-in-progress"},
         ~x.soft /\ x.stage # "Rebooting" /\ x.late /\ ~WrongBootWait(x), "error", "status"),
    Rule(32, {"installing-in-progress"},
         x.soft /\ ~x.stuck /\ x.stage # "Rebooting" /\ x.late /\ ~WrongBootWait(x),
         "installing-in-progress", "stuck"),
    Rule(33, {"installing-in-progress"}, x.late /\ x.stage = "Rebooting",
         "installing-pending-user-action", "status"),
    Rule(34, {"installing-pending-user-action"}, x.late /\ x.without /\ ~x.after, "error", "status") }
  \cup { Rule(35, {s}, x.cluster # "error", s, "none") :
            s \in Installing \cup {"installed", "resetting-pending-user-action"} }

DiscoveryRules(x) ==
  { Rule(40, {"disconnected", "discovering"}, Reachable(x) /\ ~ValidInventory(x),
         "discovering", "status"),
    Rule(41, Discovery, Reachable(x) /\ ValidInventory(x) /\ ~x.hw, "insufficient", "status"),
    Rule(42, Discovery, Reachable(x) /\ ValidInventory(x) /\ x.uuid /\ x.hw /\ ~x.cidr,
         "pending-for-input", "status"),
    Rule(43, Discovery,
         Reachable(x) /\ x.inv /\ (x.hw \/ ~x.full) /\ (~x.uuid \/ (x.cidr /\ ~x.enough)),
         "insufficient", "status"),
    Rule(44, Discovery \ {"known"},
         Reachable(x) /\ ValidInventory(x) /\ x.hw /\ x.cidr /\ x.enough /\ x.uuid,
         "known", "status"),
    Rule(45, {"known"},
         /\ Reachable(x) /\ ValidInventory(x) /\ x.hw /\ x.cidr /\ x.enough /\ x.uuid
         /\ ~(ClusterPreparing(x) /\ x.role),
         "known", "status") }

\* The rule for a log-collection timeout precedes rule 50 and stays in the
\* same status; it belongs to log collection and is left out.
TerminalRules(x) ==
  { Rule(50, {s}, TRUE, s, "none") : s \in {"error", "cancelled", "resetting"} }
  \cup { Rule(51, {"added-to-existing-cluster"}, x.day2, "added-to-existing-cluster", "none") }

HostRefreshRules(x) ==
  PreparationRules(x) \cup PreparationAbandonedRules(x) \cup DisconnectionRules(x)
    \cup ClusterErrorRules(x) \cup InstallationRules(x) \cup DiscoveryRules(x) \cup TerminalRules(x)
=============================================================================
