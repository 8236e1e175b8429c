-------------------------- MODULE MCBinaryPackages --------------------------
(* The instance of BinaryPackages for TLC: its constants are all in the cfg. *)
EXTENDS BinaryPackages
=============================================================================
