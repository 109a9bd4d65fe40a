-------------------------- MODULE MCInstallerCache --------------------------
(***************************************************************************)
(* Releases of the largest size and smaller ones: with small ones in use    *)
(* the directory can outgrow its capacity.                                  *)
(***************************************************************************)
EXTENDS InstallerCache
CONSTANTS Small, Large
MCReleases == Small \cup Large
MCSize == [r \in MCReleases |-> IF r \in Small THEN 1 ELSE MaxReleaseSize]
=============================================================================
