------------------------------- MODULE Tarjan -------------------------------
(***************************************************************************)
(* tarjan.find_scc, which numbers the strongly connected components of the *)
(* dependency graph.  It is recursive; here the calls of STRONGCONNECT are *)
(* frames of a stack, and one step looks at one arc.  The order in which   *)
(* the nodes and the neighbours of a node are visited is left open.        *)
(***************************************************************************)
EXTENDS PackageGraph, Sequences, SequencesExt

CONSTANT Graphs

ASSUME TarjanAssumption ==
  /\ Packages # {} /\ IsFiniteSet(Packages)
  /\ Graphs \subseteq DependencyGraphs

VARIABLES
  G,
  NUMBER, LOWPT, LOWVINE,   \* functions on the nodes visited so far
  frames,                   \* the active calls: node and arcs not yet looked at
  working_stack,
  scc                       \* SCC, a function on the nodes that have a component

vars == <<G, NUMBER, LOWPT, LOWVINE, frames, working_stack, scc>>

Visited == DOMAIN NUMBER
OnDFSStack == {frames[k].node : k \in DOMAIN frames}
OnStack == ToSet(working_stack)
j == Cardinality({scc[v] : v \in DOMAIN scc})
Lower(x, y) == IF x <= y THEN x ELSE y
With(f, v, x) == [u \in DOMAIN f \cup {v} |-> IF u = v THEN x ELSE f[u]]

Init ==
  /\ G \in Graphs
  /\ NUMBER = <<>> /\ LOWPT = <<>> /\ LOWVINE = <<>>
  /\ frames = <<>> /\ working_stack = <<>> /\ scc = <<>>

\* A call of STRONGCONNECT(v), up to its loop.  i is the number of nodes
\* visited.  below are the frames of the calls that are waiting for it.
STRONGCONNECT(v, below) ==
  LET i == Cardinality(Visited)
  IN /\ NUMBER' = With(NUMBER, v, i)
     /\ LOWPT' = With(LOWPT, v, i)
     /\ LOWVINE' = With(LOWVINE, v, i)
     /\ working_stack' = Append(working_stack, v)
     /\ frames' = Append(below, [node |-> v, arcs |-> G[v]])
     /\ UNCHANGED <<G, scc>>

\* The loop over all nodes at the end of find_scc.
NextRoot ==
  /\ frames = <<>>
  /\ \E w \in Packages \ Visited : STRONGCONNECT(w, <<>>)

Top == Last(frames).node
Arcs == Last(frames).arcs
Looked(w) == [frames EXCEPT ![Len(frames)].arcs = @ \ {w}]

TreeArc ==
  /\ frames # <<>>
  /\ \E w \in Arcs \ Visited : STRONGCONNECT(w, Looked(w))

Frond ==
  /\ frames # <<>>
  /\ \E w \in Arcs \cap OnDFSStack :
       /\ LOWPT' = [LOWPT EXCEPT ![Top] = Lower(@, NUMBER[w])]
       /\ frames' = Looked(w)
  /\ UNCHANGED <<G, NUMBER, LOWVINE, working_stack, scc>>

\* An arc to a node whose call has returned.
Vine ==
  /\ frames # <<>>
  /\ \E w \in (Arcs \cap Visited) \ OnDFSStack :
       /\ LOWVINE' = IF NUMBER[w] < NUMBER[Top] /\ w \in OnStack
                       THEN [LOWVINE EXCEPT ![Top] = Lower(@, NUMBER[w])] ELSE LOWVINE
       /\ frames' = Looked(w)
  /\ UNCHANGED <<G, NUMBER, LOWPT, working_stack, scc>>

IsRoot == LOWPT[Top] = NUMBER[Top] /\ LOWVINE[Top] = NUMBER[Top]

\* Mutant: the caller's LOWVINE does not take part in what a call found.
MergePoints(u) ==
  /\ LOWPT' = [LOWPT EXCEPT ![u] = Lower(@, LOWPT[Top])]
  /\ UNCHANGED LOWVINE

\* What the caller does after the call for Top returned.
Merge(u) ==
  /\ LOWPT' = [LOWPT EXCEPT ![u] = Lower(@, LOWPT[Top])]
  /\ LOWVINE' = [LOWVINE EXCEPT ![u] = Lower(@, LOWVINE[Top])]

\* What is left of the stack when everything from Top on is popped: the loop ends
\* at the first node that has a smaller number.
Off(s) == SubSeq(s, 1, CHOOSE k \in 0 .. Len(s) :
                          /\ \A l \in k + 1 .. Len(s) : NUMBER[s[l]] >= NUMBER[Top]
                          /\ k = 0 \/ NUMBER[s[k]] < NUMBER[Top])

\* The rest of STRONGCONNECT(Top), and of its caller's step.
Return ==
  /\ frames # <<>> /\ Arcs = {}
  /\ frames' = Front(frames)
  /\ IF IsRoot
       THEN /\ working_stack' = Off(working_stack)
            /\ scc' = LET popped == OnStack \ ToSet(Off(working_stack))
                      IN [u \in DOMAIN scc \cup popped |->
                            IF u \in popped THEN j ELSE scc[u]]
       ELSE UNCHANGED <<working_stack, scc>>
  /\ IF Len(frames) > 1 THEN Merge(frames[Len(frames) - 1].node)
                        ELSE UNCHANGED <<LOWPT, LOWVINE>>
  /\ UNCHANGED <<G, NUMBER>>

Next == NextRoot \/ TreeArc \/ Frond \/ Vine \/ Return

\* It runs to its end.
Spec == Init /\ [][Next]_vars /\ WF_vars(Next)

-----------------------------------------------------------------------------
Done == frames = <<>> /\ Visited = Packages

\* The search ends with a number for every package, and the classes of
\* packages with the same number are the graph's components.
FindsComponents ==
  <>[](Done /\ [p \in Packages |-> {q \in Packages : scc[q] = scc[p]}] = Components(G))
=============================================================================
