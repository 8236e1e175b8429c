--------------------------- MODULE MCPackageBuild ---------------------------
(* PackageBuild for a pipeline of three stages. *)
EXTENDS PackageBuild

\* A package that was never built, one whose last stage the pipeline has lost, one
\* built completely, and one built before the second stage was inserted.
ThreeStageHistories ==
  LET Done(sts) == [i \in DOMAIN sts |-> Event(sts[i], "success", i)]
  IN  {Done(<<>>), Done(<<Gone>>), Done(<<1, 2, 3>>), Done(<<1, 3>>)}
=============================================================================
