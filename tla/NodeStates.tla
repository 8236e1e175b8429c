----------------------------- MODULE NodeStates -----------------------------
(***************************************************************************)
(* What build nodes say about themselves and what their proxies show: a    *)
(* state, the package it is about, and the reason of a failure.            *)
(***************************************************************************)

Reasons == {"node/try_again", "node/abort", "package"}

Shows(st, p, why) == [st |-> st, pkg |-> p, why |-> why]
Plain(st) == Shows(st, "no package", "no reason")
Building(p) == Shows("building", p, "no reason")
Finished(p) == Shows("finished", p, "no reason")
Failed(p, why) == Shows("failed", p, why)

Gone == Plain("gone")        \* the cluster interface has no such proxy
Idle == Plain("idle")
Busy == Plain("busy")        \* start_build or reset was called, no answer yet
Maintenance == Plain("maintenance")

\* What can be said of builds of the packages in B.
ReportsAbout(B) ==
  {Building(p) : p \in B} \cup {Finished(p) : p \in B}
    \cup {Failed(p, why) : p \in B, why \in Reasons}

\* What a proxy that shows s can show next.  The set own has the package that the
\* node was told to build, if there is one; others have it build packages of
\* Foreign.  A proxy notifies only of a message that differs from the last one,
\* and that was `idle' when the node was told to build.
NextReports(own, s, Foreign) ==
  (ReportsAbout(own \cup Foreign) \cup {Idle, Maintenance})
    \ (IF own # {} /\ s = Busy THEN {Idle} ELSE {s})
=============================================================================
