-------------------------- MODULE BuildMasterOrder --------------------------
(***************************************************************************)
(* The controller implements BuildOrder: a build runs while the controller *)
(* is idle, as it calls its state between two handlers of a build, and the *)
(* packages under way are those queued or building.                        *)
(***************************************************************************)
EXTENDS BuildMaster

IsRunning == state = "idle"

Order == INSTANCE BuildOrder WITH
  running <- IsRunning,
  G <- IF IsRunning THEN G ELSE NoGraph,
  level <- IF IsRunning THEN successful ELSE Zero,
  active <- IF IsRunning THEN Active ELSE {}

\* Whatever the nodes report and the operator does, packages are taken up in
\* topological order of their components, one of a component at a time, and
\* circular ones in two complete rounds.
ImplementsOrder == Order!Spec
=============================================================================
