------------------------------ MODULE MCTarjan ------------------------------
(***************************************************************************)
(* An instance of Tarjan for TLC: every graph on four packages, up to the  *)
(* names of the packages.                                                  *)
(***************************************************************************)
EXTENDS Tarjan

CONSTANTS a, b, c, d

\* Packages can be renamed so that the one with the most dependencies comes
\* first, and so on.  Only the first may depend on itself here.
SortedGraphs ==
  {g \in DependencyGraphs :
     /\ \A p \in Packages \ {a} : p \notin g[p]
     /\ Cardinality(g[a] \ {a}) >= Cardinality(g[b])
     /\ Cardinality(g[b]) >= Cardinality(g[c])
     /\ Cardinality(g[c]) >= Cardinality(g[d])}
=============================================================================
