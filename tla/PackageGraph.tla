---------------------------- MODULE PackageGraph ----------------------------
(***************************************************************************)
(* The graphs the build master schedules from.                             *)
(*                                                                         *)
(* A dependency graph is a function G: G[p] is the set of packages that p  *)
(* names in its compile-time dependencies (Controller._build_dependency_   *)
(* graph, the dict `_G').  The strongly connected components that          *)
(* tarjan.find_scc numbers are represented by the sets of their members;   *)
(* `_SCC', `_pkg_to_scc', `_H' and `_HT' become operators of G.            *)
(***************************************************************************)
EXTENDS Naturals, FiniteSets

CONSTANT Packages          \* the names of the enabled source packages

\* Every dependency names a package that exists: _start_build refuses a graph
\* with an unknown name (GenericBMError).
DependencyGraphs == [Packages -> SUBSET Packages]

\* `_GT': the packages that depend on p directly.
Children(G, p) == {c \in Packages : p \in G[c]}

\* A set that dependency edges do not leave.
Closed(G, S) == \A u \in S : G[u] \subseteq S

\* Everything p depends on, directly or not, and p itself.
Reach(G, p) == {q \in Packages :
                  \A S \in SUBSET Packages : p \in S /\ Closed(G, S) => q \in S}

\* The members of p's strongly connected component: the packages that have
\* the same number as p in `_pkg_to_scc'.
SCC(G, p) == {q \in Reach(G, p) : p \in Reach(G, q)}

\* _find_scc
Components(G) == [p \in Packages |-> SCC(G, p)]

\* Below, comp is Components(G), or what the controller stores of it.

\* `_H': the other components that component C depends on directly.
Parents(G, comp, C) == {comp[d] : d \in UNION {G[p] : p \in C}} \ {C}

\* `_HT': the other components that depend directly on component C.
Dependants(G, comp, C) == {comp[c] : c \in UNION {Children(G, p) : p \in C}} \ {C}
=============================================================================
