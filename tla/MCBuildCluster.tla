--------------------------- MODULE MCBuildCluster ---------------------------
(***************************************************************************)
(* The instance of BuildCluster for TLC: its constants are all in the cfg. *)
(***************************************************************************)
EXTENDS BuildCluster
=============================================================================
