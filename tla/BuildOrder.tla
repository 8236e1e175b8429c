----------------------------- MODULE BuildOrder -----------------------------
(***************************************************************************)
(* What a build promises, with nothing said about nodes, the valve, queues *)
(* or failure counters: which packages may be under way, and when.         *)
(*                                                                         *)
(*  - The components of the dependency graph are built in topological      *)
(*    order.                                                               *)
(*  - Of a component at most one package is under way.                     *)
(*  - A package that is a component by itself is built once.  Packages of  *)
(*    larger components, whose dependencies are circular, are built twice, *)
(*    and the second round begins when the first is complete, so that each *)
(*    of them is built once with all the others present.                   *)
(***************************************************************************)
EXTENDS PackageGraph

VARIABLES
  running,      \* whether a build is under way
  G,            \* its dependency graph
  level,        \* how often each package has been built
  active        \* the packages whose turn it is

vars == <<running, G, level, active>>

\* The packages that have been built as often as they need to be.
Done(cs, lv) == {p \in Packages : lv[p] = IF cs[p] = {p} THEN 1 ELSE 2}

\* It can be p's turn: what its component depends on is done, it is not done
\* itself, no member of its component is behind it, and none is under way.
MayBegin(g, p, lv, act) ==
  LET cs == Components(g)
      done == Done(cs, lv)
  IN /\ \A W \in Parents(g, cs, cs[p]) : W \subseteq done
     /\ p \notin done
     /\ \A q \in cs[p] : lv[p] <= lv[q]
     /\ cs[p] \cap act = {}

\* K can begin together.
Batch(K, g, lv, act) ==
  /\ \A p \in K : MayBegin(g, p, lv, act)
  /\ \A p, q \in K : q \in SCC(g, p) => p = q

Nothing == [p \in Packages |-> {}]
Zero == [p \in Packages |-> 0]

Init ==
  /\ running = FALSE /\ G = Nothing /\ level = Zero /\ active = {}

Begin ==
  /\ ~running /\ running' = TRUE
  /\ G' \in DependencyGraphs
  /\ level' = Zero
  /\ active' \in SUBSET Packages /\ Batch(active', G', Zero, {})

\* The attempt at p is over, and others may begin.
Attempted(p) ==
  /\ running /\ p \in active
  /\ level' \in {level, [level EXCEPT ![p] = @ + 1]}
  /\ \E K \in SUBSET Packages :
       Batch(K, G, level', active \ {p}) /\ active' = (active \ {p}) \cup K
  /\ UNCHANGED <<running, G>>

End ==
  /\ running /\ running' = FALSE
  /\ G' = Nothing /\ level' = Zero /\ active' = {}

Next == Begin \/ End \/ \E p \in Packages : Attempted(p)

Spec == Init /\ [][Next]_vars
=============================================================================
