--------------------------- MODULE MCInstallFlow ---------------------------
(* Instances of InstallFlow for TLC. *)
EXTENDS InstallFlow, TLC

MasterSymmetry == Permutations(Masters)
=============================================================================
