------------------------- MODULE BuildMaster_proofs -------------------------
(***************************************************************************)
(* Theorems about the build master's controller, for every set of packages *)
(* and nodes and all dependency graphs: its invariants, that it implements *)
(* BuildOrder, and that its clients see what it does (ClientView).         *)
(***************************************************************************)
EXTENDS BuildMasterOrder, ClientView, FiniteSetTheorems, TLAPS

-----------------------------------------------------------------------------
(* The loop of _schedule.                                                  *)

\* How many entries of a package _schedule takes is a number.
LEMMA TakenType ==
  ASSUME NEW available, available \subseteq Nodes,
         NEW q, NEW b \in Prefixes(q, available), NEW p
  PROVE  Taken(b, p) \in Nat
<1>1. IsFiniteSet({n \in DOMAIN b : b[n] = p})
  <2>1. {n \in DOMAIN b : b[n] = p} \subseteq Nodes
    BY DEF Prefixes
  <2>. QED BY <2>1, FS_Subset, BuildMasterAssumption
<1>. QED BY <1>1, FS_CardinalityType DEF Taken

NodesType == [Nodes -> Packages \cup {NotKnown, NoTask, ResetTask}]

\* _schedule keeps the types of what it changes.
LEMMA ScheduleType ==
  ASSUME NEW q \in [Packages -> Nat], NEW bld \in SUBSET Packages,
         NEW nds \in NodesType, NEW prx \in [Nodes -> ReportsType],
         NEW pend \in SUBSET Packages,
         Schedule(q, bld, nds, prx, pend)
  PROVE  /\ state' \in {"idle", "computing"}
         /\ queue' \in [Packages -> Nat]
         /\ building' \in SUBSET Packages
         /\ nodes' \in NodesType
         /\ proxy' \in [Nodes -> ReportsType]
         /\ pending' \in SUBSET Packages
<1> DEFINE available == IF valve' THEN Available(nds, prx) ELSE {}
           outdated(b) == UNION {Outdated(b[n]) : n \in {m \in DOMAIN b : b[m] \in pend}}
<1>1. available \subseteq Nodes
  BY DEF Available
<1>2. PICK b \in Prefixes(q, available) :
       /\ Bind(b, bld, nds, prx)
       /\ \/ /\ state' = "idle"
             /\ queue' = [p \in Packages |-> q[p] - Taken(b, p)]
             /\ pending' = pend \cup outdated(b)
          \/ /\ state' = "computing"
             /\ \E p \in Packages :
                  /\ Taken(b, p) < q[p]
                  /\ queue' = [r \in Packages |->
                                 q[r] - Taken(b, r) - (IF r = p THEN 1 ELSE 0)]
                  /\ \E some \in SUBSET (IF p \in pend THEN Outdated(p) ELSE {}) :
                       pending' = pend \cup outdated(b) \cup some
  BY DEF Schedule
<1>3. \A p \in Packages : Taken(b, p) \in Nat /\ Taken(b, p) <= q[p]
  BY <1>1, TakenType DEF Prefixes
<1>4. b \in [DOMAIN b -> Packages] /\ DOMAIN b \subseteq Nodes
  BY <1>1 DEF Prefixes
<1>5. \A p : Outdated(p) \subseteq Packages
  BY DEF Outdated, Children
<1>6. state' \in {"idle", "computing"}
  BY <1>2
<1>7. queue' \in [Packages -> Nat]
  BY <1>2, <1>3
<1>8. building' \in SUBSET Packages /\ nodes' \in NodesType
  BY <1>2, <1>4 DEF Bind, NodesType
<1>9. Busy \in ReportsType
  BY DEF Busy, Plain, Shows, ReportsType
<1>10. proxy' \in [Nodes -> ReportsType]
  BY <1>2, <1>9 DEF Bind
<1>11. pending' \in SUBSET Packages
  BY <1>2, <1>5
<1>. QED BY <1>6, <1>7, <1>8, <1>10, <1>11

-----------------------------------------------------------------------------
(* The inductive invariant.                                                *)

\* Components are the classes of an equivalence relation.
Partition(cs) ==
  /\ cs \in [Packages -> SUBSET Packages]
  /\ \A p \in Packages : p \in cs[p]
  /\ \A p \in Packages : \A q \in cs[p] : cs[q] = cs[p]

Rounds(cs, p) == IF cs[p] = {p} THEN 1 ELSE 2

\* A set of components.
AreComponents(cs, Cs) == \A C \in Cs : \E p \in Packages : C = cs[p]

\* The counters say which packages are finished.
Counted(cs, fin, succ) ==
  \A p \in Packages : /\ succ[p] <= Rounds(cs, p)
                      /\ p \in fin <=> succ[p] = Rounds(cs, p)

\* What relates the packages under way (A) to the sets and counters of a build.
\* A package whose turn it is belongs to the lowest level and has not been tried
\* at it.
Core(g, cs, A, fin, succ, fl, rem, err) ==
  /\ Partition(cs)
  /\ Counted(cs, fin, succ)
  /\ \A p \in A : p \in Choosable(cs[p], succ, fl) /\ p \notin fin
  /\ \A p, q \in A : q \in cs[p] => p = q
  /\ \A p \in Packages :
       p \in A \/ succ[p] > 0 \/ fl[p] > 0 =>
         \A W \in Parents(g, cs, cs[p]) : W \subseteq fin
  /\ \A p \in Packages : \A q \in cs[p] : succ[p] <= succ[q] + 1
  /\ ~err => \A d \in Packages :
               \/ cs[d] \subseteq fin
               \/ \E W \in Parents(g, cs, cs[d]) : ~(W \subseteq fin)
               \/ \E p \in cs[d] : p \in A
  /\ rem \cap (A \cup fin) = {}
  /\ \A p \in rem : succ[p] = 0 /\ fl[p] = 0

\* Queue and assignments are in order.  A node whose package is no longer in the
\* building set has reported the abort; it will not report on that package again.
Assigned(q, bld, nds, prx, err) ==
  /\ \A p \in Packages : q[p] <= 1
  /\ \A p \in bld : q[p] = 0
  /\ \A p \in bld : \E n \in Nodes : nds[n] = p
  /\ \A n, m \in Nodes : nds[n] \in bld /\ nds[m] = nds[n] => m = n
  /\ \A n \in Nodes : nds[n] \in Packages \ bld =>
                        err /\ prx[n] \notin {Busy, Building(nds[n])}

\* The packages under way, given the queue and the building set.
UnderWay(q, bld) == {p \in Packages : q[p] > 0} \cup bld

\* The inductive invariant.
IInv ==
  /\ TypeOK
  /\ LevelSpread /\ FinishedUpToDate
  /\ error => ~valve
  /\ state = "off" \/ task = "running" => nodes = [n \in Nodes |-> NotKnown]
  /\ task = "running" => state = "computing"
  /\ state = "idle" =>
       /\ Core(G, comp, Active, finished, successful, fails, remaining, error)
       /\ Assigned(queue, building, nodes, proxy, error)
       /\ WorkConserving

-----------------------------------------------------------------------------
(* Components.                                                             *)

\* A component of a graph is a class of packages that reach each other.
LEMMA ComponentsPartition ==
  ASSUME NEW g \in DependencyGraphs
  PROVE  Partition(Components(g))
<1>1. \A p, q, r \in Packages : q \in Reach(g, p) /\ r \in Reach(g, q) => r \in Reach(g, p)
  BY DEF Reach
<1>2. \A p \in Packages : p \in Reach(g, p)
  BY DEF Reach
<1>3. \A p, q \in Packages :
        q \in SCC(g, p) <=> q \in Reach(g, p) /\ p \in Reach(g, q)
  BY DEF SCC
<1>4. \A p \in Packages : SCC(g, p) \subseteq Packages
  BY DEF SCC, Reach
<1>5. \A p, q \in Packages : q \in SCC(g, p) => SCC(g, q) = SCC(g, p)
  BY <1>1, <1>3, <1>4
<1>. QED BY <1>2, <1>3, <1>4, <1>5 DEF Components, Partition

\* The components that depend on one are those that it is a parent of.
LEMMA ParentsDependants ==
  ASSUME NEW g \in DependencyGraphs, NEW cs, Partition(cs),
         NEW p \in Packages, NEW d \in Packages
  PROVE  cs[p] \in Parents(g, cs, cs[d]) <=> cs[d] \in Dependants(g, cs, cs[p])
<1>1. ASSUME cs[p] \in Parents(g, cs, cs[d]) PROVE cs[d] \in Dependants(g, cs, cs[p])
  <2>1. PICK u \in cs[d] : \E v \in g[u] : cs[p] = cs[v] /\ cs[p] # cs[d]
    BY <1>1 DEF Parents
  <2>2. PICK v \in g[u] : cs[p] = cs[v]
    BY <2>1
  <2>3. u \in Packages /\ v \in Packages /\ v \in cs[p] /\ cs[u] = cs[d]
    BY <2>1, <2>2 DEF Partition, DependencyGraphs
  <2>4. u \in Children(g, v)
    BY <2>2, <2>3 DEF Children
  <2>. QED BY <2>1, <2>3, <2>4 DEF Dependants
<1>2. ASSUME cs[d] \in Dependants(g, cs, cs[p]) PROVE cs[p] \in Parents(g, cs, cs[d])
  <2>1. PICK v \in cs[p] : \E u \in Children(g, v) : cs[d] = cs[u] /\ cs[p] # cs[d]
    BY <1>2 DEF Dependants
  <2>2. PICK u \in Children(g, v) : cs[d] = cs[u]
    BY <2>1
  <2>3. u \in Packages /\ v \in g[u] /\ u \in cs[d] /\ cs[v] = cs[p]
    BY <2>1, <2>2 DEF Children, Partition
  <2>. QED BY <2>1, <2>3 DEF Parents
<1>. QED BY <1>1, <1>2

\* Every parent and every dependant is a component.
LEMMA NeighboursAreComponents ==
  ASSUME NEW g \in DependencyGraphs, NEW cs, Partition(cs),
         NEW C, C \subseteq Packages
  PROVE  /\ AreComponents(cs, Parents(g, cs, C))
         /\ AreComponents(cs, Dependants(g, cs, C))
  BY DEF AreComponents, Parents, Dependants, Children, DependencyGraphs

\* What a choice for a set of components consists of.
LEMMA ChoiceFacts ==
  ASSUME NEW cs, Partition(cs), NEW Cs, AreComponents(cs, Cs),
         NEW succ, NEW fl, NEW K \in Choices(Cs, succ, fl)
  PROVE  /\ K \subseteq Packages
         /\ \A x \in K : /\ cs[x] \in Cs /\ K \cap cs[x] = {x}
                         /\ x \in Choosable(cs[x], succ, fl)
         /\ \A C \in Cs : Choosable(C, succ, fl) # {} => \E x \in C : x \in K
<1>1. K \subseteq UNION Cs
  BY DEF Choices
<1>2. \A x \in K : x \in Packages /\ x \in cs[x] /\ cs[x] \in Cs
  BY <1>1 DEF Partition, AreComponents
<1>3. \A x \in K : K \cap cs[x] = {x} /\ x \in Choosable(cs[x], succ, fl)
  BY <1>2 DEF Choices
<1>4. ASSUME NEW C \in Cs, Choosable(C, succ, fl) # {} PROVE \E x \in C : x \in K
  BY <1>4 DEF Choices
<1>. QED BY <1>2, <1>3, <1>4

-----------------------------------------------------------------------------
(* What a handler does to the sets and counters of a build.                *)

\* The beginning of a build.
LEMMA CoreBegins ==
  ASSUME NEW g \in DependencyGraphs, NEW err,
         NEW K \in Choices({C \in {Components(g)[p] : p \in Packages} :
                             Parents(g, Components(g), C) = {}}, Zero, Zero)
  PROVE  /\ K \in SUBSET Packages
         /\ Core(g, Components(g), K, {}, Zero, Zero, Packages \ K, err)
<1> DEFINE cs == Components(g)
           first == {C \in {cs[p] : p \in Packages} : Parents(g, cs, C) = {}}
<1>1. Partition(cs)
  BY ComponentsPartition
<1>2. AreComponents(cs, first)
  BY DEF AreComponents
<1>3. /\ K \subseteq Packages
      /\ \A x \in K : cs[x] \in first /\ K \cap cs[x] = {x} /\ x \in Choosable(cs[x], Zero, Zero)
      /\ \A C \in first : Choosable(C, Zero, Zero) # {} => \E x \in C : x \in K
  <2> HIDE DEF cs, first
  <2>1. K \in Choices(first, Zero, Zero)
    BY DEF first, cs
  <2>. QED BY <1>1, <1>2, <2>1, ChoiceFacts
<1>4. \A p \in Packages : Choosable(cs[p], Zero, Zero) = cs[p]
  BY <1>1 DEF Choosable, Zero, Partition
<1>5. \A p \in Packages : p \in cs[p]
  BY <1>1 DEF Partition
<1> HIDE DEF cs
<1>6. \A d \in Packages : \/ \E W \in Parents(g, cs, cs[d]) : ~(W \subseteq {})
                          \/ \E p \in cs[d] : p \in K
  <2>1. TAKE d \in Packages
  <2>2. CASE Parents(g, cs, cs[d]) = {}
    BY <2>2, <1>3, <1>4, <1>5
  <2>3. CASE Parents(g, cs, cs[d]) # {}
    <3>1. PICK W \in Parents(g, cs, cs[d]) : TRUE
      BY <2>3
    <3>2. PICK w \in Packages : W = cs[w]
      BY <3>1, <1>1, NeighboursAreComponents DEF Partition, AreComponents
    <3>. QED BY <3>1, <3>2, <1>5
  <2>. QED BY <2>2, <2>3
<1>7. \A p \in Packages : Zero[p] = 0 /\ Rounds(cs, p) \in {1, 2}
  BY DEF Zero, Rounds
<1>8. Core(g, cs, K, {}, Zero, Zero, Packages \ K, err)
  BY <1>1, <1>3, <1>6, <1>7 DEF Core, Counted, Partition
<1>. QED BY <1>3, <1>8 DEF cs

\* An abort: the package is no longer under way, and there is an error.
LEMMA CoreAborts ==
  ASSUME NEW g, NEW cs, NEW A, NEW B, NEW fin, NEW succ, NEW fl, NEW rem, NEW err,
         Core(g, cs, A, fin, succ, fl, rem, err), B \subseteq A
  PROVE  Core(g, cs, B, fin, succ, fl, rem, TRUE)
  BY DEF Core

\* A package that can be chosen of a component that is not finished has been
\* built less often than it has to be.
LEMMA ChosenUnfinished ==
  ASSUME NEW cs, Partition(cs), NEW fin, NEW succ \in [Packages -> Nat],
         Counted(cs, fin, succ), NEW fl,
         NEW x \in Packages, x \in Choosable(cs[x], succ, fl),
         ~(cs[x] \subseteq fin)
  PROVE  x \notin fin
<1>1. PICK u \in cs[x] : u \notin fin
  OBVIOUS
<1>2. u \in Packages /\ cs[u] = cs[x] /\ x \in cs[x]
  BY DEF Partition
<1>3. Rounds(cs, u) = Rounds(cs, x)
  BY <1>2 DEF Rounds
<1>4. succ[u] < Rounds(cs, u) /\ succ[x] <= succ[u]
  BY <1>1, <1>2 DEF Rounds, Counted, Choosable
<1>. QED BY <1>2, <1>3, <1>4 DEF Rounds, Counted

\* A component that is not finished and in which nothing failed has a package
\* that _scc_choose_package can return.
LEMMA SomeLowest ==
  ASSUME NEW C, C \subseteq Packages, C # {}, NEW succ \in [Packages -> Nat],
         \A v \in C : succ[v] <= 2
  PROVE  \E v \in C : \A u \in C : succ[v] <= succ[u]
<1>1. CASE \E v \in C : succ[v] = 0
  BY <1>1
<1>2. CASE (\A v \in C : succ[v] # 0) /\ \E v \in C : succ[v] = 1
  BY <1>2
<1>3. CASE \A v \in C : succ[v] # 0 /\ succ[v] # 1
  BY <1>3
<1>. QED BY <1>1, <1>2, <1>3

\* What _handle_successful_build makes of the counters when p was built.
Built(p, fin, succ, fl) ==
  /\ fin = IF successful[p] + 1 = 2 \/ comp[p] = {p} THEN finished \cup {p} ELSE finished
  /\ succ = [successful EXCEPT ![p] = @ + 1]
  /\ fl = [v \in Packages |-> IF v \in comp[p] THEN 0 ELSE fails[v]]

\* A package was built: _handle_successful_build.
LEMMA CoreSucceeds ==
  ASSUME TypeOK, NEW p \in Active,
         Core(G, comp, Active, finished, successful, fails, remaining, error),
         NEW fin, NEW succ, NEW fl, Built(p, fin, succ, fl),
         NEW K \in Choices(Turns(comp[p], fin), succ, fl)
  PROVE  /\ K \in SUBSET Packages
         /\ K \cap (Active \ {p}) = {}
         /\ Core(G, comp, (Active \ {p}) \cup K, fin, succ, fl, remaining \ K, error)
<1> DEFINE A == Active
           C == comp[p]
           B == (A \ {p}) \cup K
<1>0. /\ A \in SUBSET Packages /\ p \in A /\ G \in DependencyGraphs
      /\ finished \in SUBSET Packages /\ remaining \in SUBSET Packages
      /\ successful \in [Packages -> Nat] /\ fails \in [Packages -> Nat]
  BY DEF TypeOK, Active, Queued
<1>. USE <1>0
<1>1. /\ Partition(comp)
      /\ Counted(comp, finished, successful)
      /\ \A q \in A : q \in Choosable(comp[q], successful, fails) /\ q \notin finished
      /\ \A q, r \in A : r \in comp[q] => q = r
      /\ \A q \in Packages :
           q \in A \/ successful[q] > 0 \/ fails[q] > 0 =>
             \A W \in Parents(G, comp, comp[q]) : W \subseteq finished
      /\ \A q \in Packages : \A r \in comp[q] : successful[q] <= successful[r] + 1
      /\ ~error => \A d \in Packages :
                    \/ comp[d] \subseteq finished
                    \/ \E W \in Parents(G, comp, comp[d]) : ~(W \subseteq finished)
                    \/ \E q \in comp[d] : q \in A
      /\ remaining \cap (A \cup finished) = {}
      /\ \A q \in remaining : successful[q] = 0 /\ fails[q] = 0
  BY DEF Core
<1>2. /\ p \in Packages /\ p \in C /\ C \subseteq Packages
      /\ \A q \in Packages : q \in comp[q] /\ comp[q] \subseteq Packages
      /\ \A q \in Packages : \A r \in comp[q] : comp[r] = comp[q]
  BY <1>1 DEF Partition
<1>3. succ \in [Packages -> Nat] /\ fl \in [Packages -> Nat] /\ fin \in SUBSET Packages
  BY <1>2 DEF Built
<1>4. /\ \A q \in Packages : q # p => succ[q] = successful[q]
      /\ succ[p] = successful[p] + 1
      /\ \A q \in Packages : q \in C => fl[q] = 0
      /\ \A q \in Packages : q \notin C => fl[q] = fails[q]
  BY <1>2 DEF Built
<1>5. p \notin finished /\ successful[p] < Rounds(comp, p)
      /\ \A u \in C : successful[p] <= successful[u]
  BY <1>1, <1>2 DEF Choosable, Rounds, Counted
<1>6. Counted(comp, fin, succ)
  BY <1>1, <1>2, <1>4, <1>5 DEF Rounds, Counted, Built
<1>7. finished \subseteq fin /\ fin \subseteq finished \cup {p}
  BY DEF Built
<1>8. ~(C \subseteq finished)
  BY <1>2, <1>5
\* Components other than C that have C as a parent are untouched so far.
<1>9. \A d \in Packages :
        comp[d] \in Dependants(G, comp, C) =>
          \A q \in comp[d] : q \notin A /\ successful[q] = 0 /\ fails[q] = 0 /\ q \notin C
  <2>1. TAKE d \in Packages
  <2>2. HAVE comp[d] \in Dependants(G, comp, C)
  <2>3. C \in Parents(G, comp, comp[d])
    BY <1>1, <1>2, <2>2, ParentsDependants
  <2>4. C # comp[d]
    BY <2>3 DEF Parents
  <2>5. TAKE q \in comp[d]
  <2>6. q \in Packages /\ comp[q] = comp[d]
    BY <1>2
  <2>. QED BY <1>1, <1>2, <1>8, <2>3, <2>4, <2>6
<1>10. \A T \in Turns(C, fin) : T = C \/ T \in Dependants(G, comp, C)
  BY DEF Turns
<1>11. AreComponents(comp, Turns(C, fin))
  <2>1. Partition(comp) /\ C \subseteq Packages
    BY <1>1, <1>2
  <2>2. AreComponents(comp, Dependants(G, comp, C))
    BY <2>1, NeighboursAreComponents
  <2>. QED BY <1>2, <1>10, <2>2 DEF AreComponents
<1>12. /\ K \subseteq Packages
       /\ \A x \in K : /\ comp[x] \in Turns(C, fin) /\ K \cap comp[x] = {x}
                       /\ x \in Choosable(comp[x], succ, fl)
       /\ \A T \in Turns(C, fin) : Choosable(T, succ, fl) # {} => \E x \in T : x \in K
  <2>1. Partition(comp)
    BY <1>1
  <2>. QED BY <1>11, <2>1, ChoiceFacts
\* The components that get their turn are not finished.
<1>13. \A x \in K : x \notin fin
  <2>1. TAKE x \in K
  <2>2. CASE comp[x] = C
    <3>1. ~(C \subseteq fin)
      <4>1. SUFFICES ASSUME C \subseteq fin PROVE FALSE
        OBVIOUS
      <4>2. C \in Dependants(G, comp, C)
        BY <4>1, <1>12, <2>2 DEF Turns
      <4>. QED BY <4>2 DEF Dependants
    <3>2. /\ x \in Packages /\ x \in Choosable(comp[x], succ, fl)
          /\ Partition(comp) /\ ~(comp[x] \subseteq fin)
      BY <1>1, <1>12, <2>2, <3>1
    <3>. QED BY <1>3, <1>6, <3>2, ChosenUnfinished
  <2>3. CASE comp[x] # C
    <3>1. x \in Packages /\ comp[x] \in Dependants(G, comp, C) /\ x \in comp[x]
      BY <1>2, <1>10, <1>12, <2>3
    <3>2. succ[x] = 0
      BY <3>1, <1>2, <1>4, <1>9
    <3>. QED BY <3>1, <3>2, <1>6 DEF Rounds, Counted
  <2>. QED BY <2>2, <2>3
\* No two packages of one component are under way.
<1>14. \A x \in K : \A y \in A \ {p} : y \notin comp[x]
  <2>1. TAKE x \in K
  <2>2. TAKE y \in A \ {p}
  <2>3. CASE comp[x] = C
    BY <2>3, <1>1
  <2>4. CASE comp[x] # C
    BY <2>4, <1>9, <1>10, <1>12
  <2>. QED BY <2>3, <2>4
<1>15. K \cap (A \ {p}) = {}
  BY <1>2, <1>12, <1>14
<1>16. \A q, r \in B : r \in comp[q] => q = r
  <2>1. TAKE q, r \in B
  <2>2. HAVE r \in comp[q]
  <2>3. q \in Packages /\ r \in Packages /\ q \in comp[r]
    BY <1>2, <1>12, <2>2
  <2>4. CASE q \in K /\ r \in K
    BY <2>2, <2>4, <1>12
  <2>5. CASE q \in A \ {p} /\ r \in A \ {p}
    BY <2>2, <2>5, <1>1
  <2>6. CASE q \in K /\ r \in A \ {p}
    BY <2>2, <2>6, <1>14
  <2>7. CASE q \in A \ {p} /\ r \in K
    BY <2>3, <2>7, <1>14
  <2>. QED BY <2>4, <2>5, <2>6, <2>7
<1>17. \A q \in B : q \in Choosable(comp[q], succ, fl) /\ q \notin fin
  <2>1. ASSUME NEW q \in A \ {p} PROVE q \in Choosable(comp[q], succ, fl) /\ q \notin fin
    <3>1. q \in Packages /\ q \in comp[q] /\ p \notin comp[q] /\ q \notin C
      BY <1>1, <1>2
    <3>2. \A r \in comp[q] : r \in Packages /\ r \notin C /\ r # p
      BY <1>2, <3>1
    <3>3. q \in Choosable(comp[q], successful, fails)
      BY <1>1
    <3>4. fl[q] = 0 /\ \A u \in comp[q] : succ[q] <= succ[u]
      BY <3>1, <3>2, <3>3, <1>4 DEF Choosable
    <3>. QED BY <3>1, <3>4, <1>1, <1>7 DEF Choosable
  <2>. QED BY <2>1, <1>12, <1>13
<1>18. \A q \in Packages :
         q \in B \/ succ[q] > 0 \/ fl[q] > 0 =>
           \A W \in Parents(G, comp, comp[q]) : W \subseteq fin
  <2>1. TAKE q \in Packages
  <2>2. CASE q = p \/ q \in A \/ successful[q] > 0 \/ fails[q] > 0
    BY <2>2, <1>1, <1>7
  <2>3. CASE q \in K
    <3>1. CASE comp[q] = C
      BY <3>1, <1>1, <1>7
    <3>2. CASE comp[q] # C
      BY <3>2, <2>3, <1>12 DEF Turns
    <3>. QED BY <3>1, <3>2
  <2>4. CASE q \notin K /\ ~(q = p \/ q \in A \/ successful[q] > 0 \/ fails[q] > 0)
    BY <2>4, <1>4
  <2>. QED BY <2>2, <2>3, <2>4
<1>19. \A q \in Packages : \A r \in comp[q] : succ[q] <= succ[r] + 1
  <2>1. TAKE q \in Packages
  <2>2. TAKE r \in comp[q]
  <2>3. r \in Packages /\ (q = p => r \in C)
    BY <1>2
  <2>. QED BY <2>3, <1>1, <1>4, <1>5
<1>20. ASSUME ~error, NEW d \in Packages, ~(comp[d] \subseteq fin),
              \A W \in Parents(G, comp, comp[d]) : W \subseteq fin
       PROVE  \E q \in comp[d] : q \in B
  <2>1. CASE comp[d] = C
    <3>1. Turns(C, fin) = {C}
      BY <2>1, <1>20 DEF Turns
    <3>2. \E v \in C : \A u \in C : succ[v] <= succ[u]
      <4>1. \A v \in C : succ[v] <= 2
        BY <1>2, <1>3, <1>6 DEF Rounds, Counted
      <4>2. C # {}
        BY <1>2
      <4>. QED BY <4>1, <4>2, <1>2, <1>3, SomeLowest
    <3>3. Choosable(C, succ, fl) # {}
      BY <3>2, <1>2, <1>4 DEF Choosable
    <3>. QED BY <3>1, <3>3, <2>1, <1>12
  <2>2. CASE comp[d] # C /\ C \in Parents(G, comp, comp[d])
    <3>1. comp[d] \in Dependants(G, comp, C)
      BY <2>2, <1>1, <1>2, ParentsDependants
    <3>2. comp[d] \in Turns(C, fin)
      BY <3>1, <2>2, <1>20 DEF Turns
    <3>3. \A q \in comp[d] : q \in Packages /\ succ[q] = 0 /\ fl[q] = 0
      BY <3>1, <1>2, <1>4, <1>9
    <3>4. d \in Choosable(comp[d], succ, fl)
      BY <3>3, <1>2 DEF Choosable
    <3>. QED BY <3>2, <3>4, <1>12
  <2>3. CASE comp[d] # C /\ C \notin Parents(G, comp, comp[d])
    <3>1. \A q \in comp[d] : q # p
      BY <2>3, <1>2
    <3>2. ASSUME NEW W \in Parents(G, comp, comp[d]) PROVE W \subseteq finished
      <4>1. PICK w \in Packages : W = comp[w]
        BY <1>1, <1>2, NeighboursAreComponents DEF AreComponents
      <4>2. p \notin W
        BY <4>1, <2>3, <1>2
      <4>. QED BY <4>2, <1>7, <1>20
    <3>3. ~(comp[d] \subseteq finished)
      BY <1>7, <1>20
    <3>4. \E q \in comp[d] : q \in A
      BY <3>2, <3>3, <1>1, <1>20
    <3>. QED BY <3>1, <3>4
  <2>. QED BY <2>1, <2>2, <2>3
<1>21. (remaining \ K) \cap (B \cup fin) = {}
  BY <1>1, <1>7
<1>22. \A q \in remaining \ K : succ[q] = 0 /\ fl[q] = 0
  <2>1. p \notin remaining
    BY <1>1
  <2>2. TAKE q \in remaining \ K
  <2>3. q \in Packages /\ q # p /\ successful[q] = 0 /\ fails[q] = 0
    BY <1>1, <2>1
  <2>. QED BY <1>4, <2>3
<1> HIDE DEF B
<1>23. Core(G, comp, B, fin, succ, fl, remaining \ K, error)
  BY <1>1, <1>6, <1>16, <1>17, <1>18, <1>19, <1>20, <1>21, <1>22 DEF Core
<1>. QED BY <1>12, <1>15, <1>23 DEF B

\* What _handle_failed_build does when p could not be built: unless the component
\* has failed, another of its packages is chosen.
Tried(p, fl, K, err) ==
  /\ fl = [fails EXCEPT ![p] = @ + 1]
  /\ IF SCCFailed(comp[p], successful, fl)
       THEN K = {} /\ err = TRUE
       ELSE K \in Choices({comp[p]}, successful, fl) /\ err = error

\* A package could not be built: _handle_failed_build.
LEMMA CoreFails ==
  ASSUME TypeOK, NEW p \in Active,
         Core(G, comp, Active, finished, successful, fails, remaining, error),
         NEW fl, NEW K, NEW err, Tried(p, fl, K, err)
  PROVE  /\ K \in SUBSET Packages
         /\ K \cap (Active \ {p}) = {}
         /\ Core(G, comp, (Active \ {p}) \cup K, finished, successful, fl, remaining \ K, err)
<1> DEFINE A == Active
           C == comp[p]
           B == (A \ {p}) \cup K
<1>0. /\ A \in SUBSET Packages /\ p \in A /\ G \in DependencyGraphs
      /\ finished \in SUBSET Packages /\ remaining \in SUBSET Packages
      /\ successful \in [Packages -> Nat] /\ fails \in [Packages -> Nat]
  BY DEF TypeOK, Active, Queued
<1>. USE <1>0
<1>1. /\ Partition(comp)
      /\ Counted(comp, finished, successful)
      /\ \A q \in A : q \in Choosable(comp[q], successful, fails) /\ q \notin finished
      /\ \A q, r \in A : r \in comp[q] => q = r
      /\ \A q \in Packages :
           q \in A \/ successful[q] > 0 \/ fails[q] > 0 =>
             \A W \in Parents(G, comp, comp[q]) : W \subseteq finished
      /\ \A q \in Packages : \A r \in comp[q] : successful[q] <= successful[r] + 1
      /\ ~error => \A d \in Packages :
                    \/ comp[d] \subseteq finished
                    \/ \E W \in Parents(G, comp, comp[d]) : ~(W \subseteq finished)
                    \/ \E q \in comp[d] : q \in A
      /\ remaining \cap (A \cup finished) = {}
      /\ \A q \in remaining : successful[q] = 0 /\ fails[q] = 0
  BY DEF Core
<1>2. /\ p \in Packages /\ p \in C /\ C \subseteq Packages
      /\ \A q \in Packages : q \in comp[q] /\ comp[q] \subseteq Packages
      /\ \A q \in Packages : \A r \in comp[q] : comp[r] = comp[q]
  BY <1>1 DEF Partition
<1>3. fl[p] = fails[p] + 1 /\ \A q \in Packages : q # p => fl[q] = fails[q]
  BY <1>2 DEF Tried
\* What is chosen, whether the component has failed or not.
<1>4. /\ K \subseteq Packages
      /\ \A x \in K : comp[x] = C /\ K \cap C = {x} /\ x \in Choosable(C, successful, fl)
      /\ ~err => ~error /\ \E x \in C : x \in K
  <2>1. CASE SCCFailed(C, successful, fl)
    BY <2>1 DEF Tried
  <2>2. CASE ~SCCFailed(C, successful, fl)
    <3>1. K \in Choices({C}, successful, fl) /\ err = error
      BY <2>2 DEF Tried
    <3>2. \E v \in C : ~(fl[v] > 0) /\ \A u \in C : successful[v] <= successful[u]
      BY <2>2 DEF SCCFailed
    <3>3. \A v \in C : ~(fl[v] > 0) => fl[v] = 0
      BY <1>2, <1>3
    <3>4. Choosable(C, successful, fl) # {}
      BY <3>2, <3>3 DEF Choosable
    <3>5. Partition(comp) /\ AreComponents(comp, {C})
      BY <1>1, <1>2 DEF AreComponents
    <3>6. /\ K \subseteq Packages
          /\ \A x \in K : /\ comp[x] \in {C} /\ K \cap comp[x] = {x}
                          /\ x \in Choosable(comp[x], successful, fl)
          /\ \A T \in {C} : Choosable(T, successful, fl) # {} => \E x \in T : x \in K
      <4> HIDE DEF C
      <4>. QED BY <3>1, <3>5, ChoiceFacts
    <3>. QED BY <3>1, <3>4, <3>6
  <2>. QED BY <2>1, <2>2
<1>5. \A x \in K : x \in Packages /\ x \in C /\ x \notin finished
  <2>1. TAKE x \in K
  <2>2. x \in Packages /\ x \in C /\ comp[x] = C
    BY <1>2, <1>4
  <2>3. x \in Choosable(comp[x], successful, fl) /\ ~(comp[x] \subseteq finished)
    BY <1>1, <1>2, <1>4, <2>2
  <2>. QED BY <1>1, <2>2, <2>3, ChosenUnfinished
<1>6. K \cap (A \ {p}) = {}
  BY <1>1, <1>5
<1>7. \A q \in B : q \in Choosable(comp[q], successful, fl) /\ q \notin finished
  <2>1. ASSUME NEW q \in A \ {p} PROVE q \in Choosable(comp[q], successful, fl) /\ q \notin finished
    <3>1. q \in Packages /\ q # p /\ q \in Choosable(comp[q], successful, fails) /\ q \notin finished
      BY <1>1
    <3>. QED BY <3>1, <1>3 DEF Choosable
  <2>. QED BY <2>1, <1>4, <1>5
<1>8. \A q, r \in B : r \in comp[q] => q = r
  <2>1. TAKE q, r \in B
  <2>2. HAVE r \in comp[q]
  <2>3. q \in Packages /\ r \in Packages /\ q \in comp[r]
    BY <1>2, <1>5, <2>2
  <2>4. CASE q \in K /\ r \in K
    BY <2>4, <1>4, <1>5
  <2>5. CASE q \in A \ {p} /\ r \in A \ {p}
    BY <2>2, <2>5, <1>1
  <2>6. CASE q \in K /\ r \in A \ {p}
    BY <2>2, <2>6, <1>1, <1>4
  <2>7. CASE q \in A \ {p} /\ r \in K
    BY <2>3, <2>7, <1>1, <1>4
  <2>. QED BY <2>4, <2>5, <2>6, <2>7
<1>9. \A q \in Packages :
        q \in B \/ successful[q] > 0 \/ fl[q] > 0 =>
          \A W \in Parents(G, comp, comp[q]) : W \subseteq finished
  <2>1. TAKE q \in Packages
  <2>2. CASE q = p \/ q \in A \/ successful[q] > 0 \/ fails[q] > 0
    BY <2>2, <1>1
  <2>3. CASE q \in K
    BY <2>3, <1>1, <1>4
  <2>4. CASE q \notin K /\ ~(q = p \/ q \in A \/ successful[q] > 0 \/ fails[q] > 0)
    BY <2>4, <1>3
  <2>. QED BY <2>2, <2>3, <2>4
<1>10. ~err => \A d \in Packages :
                \/ comp[d] \subseteq finished
                \/ \E W \in Parents(G, comp, comp[d]) : ~(W \subseteq finished)
                \/ \E q \in comp[d] : q \in B
  <2>1. HAVE ~err
  <2>2. TAKE d \in Packages
  <2>3. CASE comp[d] = C
    BY <2>1, <2>3, <1>4
  <2>4. CASE comp[d] # C
    <3>1. p \notin comp[d]
      BY <2>4, <1>2
    <3>. QED BY <2>1, <3>1, <1>1, <1>4
  <2>. QED BY <2>3, <2>4
<1>11. /\ (remaining \ K) \cap (B \cup finished) = {}
       /\ \A q \in remaining \ K : successful[q] = 0 /\ fl[q] = 0
  BY <1>1, <1>3
<1> HIDE DEF B
<1>12. Core(G, comp, B, finished, successful, fl, remaining \ K, err)
  BY <1>1, <1>7, <1>8, <1>9, <1>10, <1>11 DEF Core
<1>. QED BY <1>4, <1>6, <1>12 DEF B

-----------------------------------------------------------------------------
(* Type correctness.                                                       *)

\* What a node can report has the type of a report.
LEMMA ReportsHaveType ==
  ASSUME TypeOK, NEW n \in Nodes
  PROVE  /\ Reports(n) \subseteq ReportsType
         /\ ForeignReports \subseteq ReportsType
         /\ {Idle, Maintenance, Busy, Gone} \subseteq ReportsType
<1>1. \A p \in Packages \cup Foreign :
        /\ Building(p) \in ReportsType /\ Finished(p) \in ReportsType
        /\ \A why \in Reasons : Failed(p, why) \in ReportsType
  BY DEF Building, Finished, Failed, Shows, ReportsType
<1>2. {Idle, Maintenance, Busy, Gone} \subseteq ReportsType
  BY DEF Idle, Maintenance, Busy, Gone, Plain, Shows, ReportsType
<1>3. ReportsAbout(Packages \cup Foreign) \subseteq ReportsType
  BY <1>1 DEF ReportsAbout
<1>4. building \subseteq Packages
  BY DEF TypeOK
<1>5. /\ ForeignReports \subseteq ReportsAbout(Packages \cup Foreign)
      /\ ReportsAbout(({nodes[n]} \cap building) \cup Foreign)
           \subseteq ReportsAbout(Packages \cup Foreign)
  BY <1>4 DEF ForeignReports, ReportsAbout
<1>. QED BY <1>2, <1>3, <1>5 DEF Reports, NextReports

\* _stop_build leaves well-typed data structures.
LEMMA StopType ==
  ASSUME TypeOK, StopBuild
  PROVE  TypeOK'
<1>1. Gone \in ReportsType
  BY DEF Gone, Plain, Shows, ReportsType
<1>2. NoGraph \in DependencyGraphs /\ NoComponents \in [Packages -> SUBSET Packages]
  BY DEF NoGraph, NoComponents, DependencyGraphs
<1>3. Zero \in [Packages -> Nat]
  BY DEF Zero
<1>. QED BY <1>1, <1>2, <1>3 DEF StopBuild, TypeOK

\* A handler that ends with _schedule, from the types of what it leaves.
LEMMA ScheduleKeepsType ==
  ASSUME TypeOK,
         task' \in {"none", "running", "done"},
         error' \in BOOLEAN, valve' \in BOOLEAN,
         G' \in DependencyGraphs, comp' \in [Packages -> SUBSET Packages],
         remaining' \in SUBSET Packages, finished' \in SUBSET Packages,
         successful' \in [Packages -> Nat], fails' \in [Packages -> Nat],
         NEW q \in [Packages -> Nat], NEW bld \in SUBSET Packages,
         NEW nds \in NodesType, NEW prx \in [Nodes -> ReportsType],
         NEW pend \in SUBSET Packages,
         Schedule(q, bld, nds, prx, pend)
  PROVE  TypeOK'
<1>1. /\ state' \in {"idle", "computing"}
      /\ queue' \in [Packages -> Nat]
      /\ building' \in SUBSET Packages
      /\ nodes' \in NodesType
      /\ proxy' \in [Nodes -> ReportsType]
      /\ pending' \in SUBSET Packages
  BY ScheduleType
<1>. QED BY <1>1 DEF TypeOK, NodesType

\* The beginning of a build: components and the first choice are well typed.
LEMMA ComputeType ==
  ASSUME TypeOK, ComputeDone
  PROVE  TypeOK'
<1>1. PICK g \in Graphs, pend \in SUBSET Packages :
        \E K \in Choices({C \in {Components(g)[p] : p \in Packages} :
                            Parents(g, Components(g), C) = {}}, Zero, Zero) :
          /\ G' = g /\ comp' = Components(g)
          /\ remaining' = Packages \ K
          /\ finished' = {} /\ successful' = Zero /\ fails' = Zero
          /\ UNCHANGED <<error, valve>>
          /\ Schedule(Enqueue(Zero, K), {}, nodes, proxy, pend)
  BY DEF ComputeDone
<1>2. PICK K \in Choices({C \in {Components(g)[p] : p \in Packages} :
                            Parents(g, Components(g), C) = {}}, Zero, Zero) :
          /\ G' = g /\ comp' = Components(g)
          /\ remaining' = Packages \ K
          /\ finished' = {} /\ successful' = Zero /\ fails' = Zero
          /\ UNCHANGED <<error, valve>>
          /\ Schedule(Enqueue(Zero, K), {}, nodes, proxy, pend)
  BY <1>1
<1>3. g \in DependencyGraphs
  BY BuildMasterAssumption
<1>4. Components(g) \in [Packages -> SUBSET Packages]
  BY <1>3, ComponentsPartition DEF Partition
<1>5. Zero \in [Packages -> Nat] /\ Enqueue(Zero, K) \in [Packages -> Nat]
  BY DEF Zero, Enqueue
<1>6. task' \in {"none", "running", "done"} /\ {} \in SUBSET Packages
      /\ error' \in BOOLEAN /\ valve' \in BOOLEAN /\ nodes \in NodesType
      /\ proxy \in [Nodes -> ReportsType] /\ remaining' \in SUBSET Packages
  BY <1>2 DEF ComputeDone, TypeOK, NodesType
<1>. QED BY <1>2, <1>3, <1>4, <1>5, <1>6, ScheduleKeepsType

\* A node's report of a package it was told to build, or of another's.
LEMMA NodeReportsType ==
  ASSUME TypeOK, NEW n \in Nodes, NodeReports(n)
  PROVE  TypeOK'
<1> DEFINE put(r) == [proxy EXCEPT ![n] = r]
           free == [nodes EXCEPT ![n] = NoTask]
           reset == [nodes EXCEPT ![n] = ResetTask]
<1>1. /\ \A r \in Reports(n) : put(r) \in [Nodes -> ReportsType]
      /\ put(Busy) \in [Nodes -> ReportsType]
      /\ nodes \in NodesType /\ free \in NodesType /\ reset \in NodesType
      /\ proxy \in [Nodes -> ReportsType]
  BY ReportsHaveType DEF TypeOK, NodesType
<1>2. /\ task \in {"none", "running", "done"} /\ error \in BOOLEAN /\ valve \in BOOLEAN
      /\ TRUE \in BOOLEAN /\ FALSE \in BOOLEAN
      /\ G \in DependencyGraphs /\ comp \in [Packages -> SUBSET Packages]
      /\ remaining \in SUBSET Packages /\ finished \in SUBSET Packages
      /\ building \in SUBSET Packages /\ pending \in SUBSET Packages
      /\ queue \in [Packages -> Nat]
      /\ successful \in [Packages -> Nat] /\ fails \in [Packages -> Nat]
  BY DEF TypeOK
<1>3. \A K : Enqueue(queue, K) \in [Packages -> Nat]
  BY <1>2 DEF Enqueue
<1>4. \A p : building \ {p} \in SUBSET Packages /\ pending \ {p} \in SUBSET Packages
  BY <1>2
<1>5. \A K : remaining \ K \in SUBSET Packages
  BY <1>2
<1> HIDE DEF put, free, reset
<1>6. ASSUME NEW r \in Reports(n), UNCHANGED <<task, graph, progress>>, Raised(n, r)
      PROVE  TypeOK'
  BY <1>1, <1>6 DEF Raised, put, TypeOK, graph, progress
<1>7. ASSUME NEW r \in Reports(n), UNCHANGED <<task, graph, progress>>,
             NEW q \in Packages \cup Foreign, Requeue(n, q, r)
      PROVE  TypeOK'
  <2>1. CASE q \notin Packages
    BY <2>1, <1>6, <1>7 DEF Requeue
  <2>2. CASE q \in Packages
    <3>1. /\ UNCHANGED <<error, valve>>
          /\ Schedule(Enqueue(queue, {q}), building \ {q}, free, put(r), pending)
      BY <2>2, <1>7 DEF Requeue, free, put
    <3>. QED BY <3>1, <1>1, <1>2, <1>3, <1>4, <1>7, ScheduleKeepsType DEF graph, progress
  <2>. QED BY <2>1, <2>2
<1>8. ASSUME NEW r \in Reports(n), UNCHANGED <<task, graph, progress>>,
             Fail \/ UNCHANGED <<error, valve>>, JustSchedule(n, r)
      PROVE  TypeOK'
  <2>1. Schedule(queue, building, nodes, put(r), pending)
    BY <1>8 DEF JustSchedule, put
  <2>2. error' \in BOOLEAN /\ valve' \in BOOLEAN
    BY <1>2, <1>8 DEF Fail
  <2>. QED BY <2>1, <2>2, <1>1, <1>2, <1>8, ScheduleKeepsType DEF graph, progress
<1>9. CASE NodeIdle(n)
  <2>1. Idle \in Reports(n) /\ UNCHANGED <<task, graph, progress>>
    BY <1>9 DEF NodeIdle, Notified
  <2>2. CASE Fail /\ JustSchedule(n, Idle)
    BY <2>1, <2>2, <1>8
  <2>3. CASE /\ UNCHANGED <<error, valve>>
             /\ Schedule(queue, building, [nodes EXCEPT ![n] = NoTask],
                         [proxy EXCEPT ![n] = Idle], pending)
    <3>1. /\ UNCHANGED <<error, valve>>
          /\ Schedule(queue, building, free, put(Idle), pending)
      BY <2>3 DEF free, put
    <3>. QED BY <3>1, <2>1, <1>1, <1>2, ScheduleKeepsType DEF graph, progress
  <2>. QED BY <2>2, <2>3, <1>9 DEF NodeIdle
<1>10. CASE NodeMaintenance(n)
  BY <1>10, <1>8 DEF NodeMaintenance, Notified
<1>11. ASSUME NEW q \in Packages \cup Foreign, NodeBuilding(n, q) PROVE TypeOK'
  <2>1. Building(q) \in Reports(n) /\ UNCHANGED <<task, graph, progress>>
    BY <1>11 DEF NodeBuilding, Notified
  <2>2. CASE Requeue(n, q, Building(q))
    BY <2>1, <2>2, <1>7
  <2>3. CASE (Fail \/ UNCHANGED <<error, valve>>) /\ JustSchedule(n, Building(q))
    BY <2>1, <2>3, <1>8
  <2>. QED BY <2>2, <2>3, <1>11 DEF NodeBuilding
<1>12. ASSUME NEW q \in Packages \cup Foreign, NodeFinished(n, q) PROVE TypeOK'
  <2>1. Finished(q) \in Reports(n) /\ UNCHANGED <<task, graph>>
    BY <1>12 DEF NodeFinished, Notified
  <2>2. CASE UNCHANGED progress /\ Requeue(n, q, Finished(q))
    BY <2>1, <2>2, <1>7
  <2>3. CASE UNCHANGED <<error, valve, progress>> /\ JustSchedule(n, Finished(q))
    BY <2>1, <2>3, <1>8
  <2>4. CASE UNCHANGED progress /\ Raised(n, Finished(q))
    BY <2>1, <2>4, <1>6
  <2>5. CASE q \in building /\ Succeed(n, q)
    <3>1. /\ successful' = [successful EXCEPT ![q] = @ + 1]
          /\ fails' = [v \in Packages |-> IF v \in comp[q] THEN 0 ELSE fails[v]]
          /\ finished' = finished \/ finished' = finished \cup {q}
          /\ UNCHANGED <<error, valve>>
          /\ \E K : /\ remaining' = remaining \ K
                    /\ Schedule(Enqueue(queue, K), building \ {q}, reset, put(Busy),
                                pending \ {q})
      BY <2>5 DEF Succeed, reset, put
    <3>2. PICK K : /\ remaining' = remaining \ K
                   /\ Schedule(Enqueue(queue, K), building \ {q}, reset, put(Busy),
                               pending \ {q})
      BY <3>1
    <3>3. /\ successful' \in [Packages -> Nat] /\ fails' \in [Packages -> Nat]
          /\ finished' \in SUBSET Packages
      BY <3>1, <2>5, <1>2
    <3>. QED BY <3>1, <3>2, <3>3, <2>1, <1>1, <1>2, <1>3, <1>4, <1>5, ScheduleKeepsType
             DEF graph
  <2>. QED BY <2>2, <2>3, <2>4, <2>5, <1>12 DEF NodeFinished
<1>13. ASSUME NEW q \in Packages \cup Foreign, NEW why \in Reasons, NodeFailed(n, q, why)
       PROVE  TypeOK'
  <2>1. Failed(q, why) \in Reports(n) /\ UNCHANGED <<task, graph>>
    BY <1>13 DEF NodeFailed, Notified
  <2>2. CASE UNCHANGED progress /\ Requeue(n, q, Failed(q, why))
    BY <2>1, <2>2, <1>7
  <2>3. CASE UNCHANGED <<error, valve, progress>> /\ JustSchedule(n, Failed(q, why))
    BY <2>1, <2>3, <1>8
  <2>4. CASE UNCHANGED progress /\ Raised(n, Failed(q, why))
    BY <2>1, <2>4, <1>6
  <2>5. CASE /\ Fail /\ UNCHANGED progress
             /\ Schedule(queue, building \ {q}, nodes, [proxy EXCEPT ![n] = Failed(q, why)],
                         pending)
    <3>1. Schedule(queue, building \ {q}, nodes, put(Failed(q, why)), pending)
      BY <2>5 DEF put
    <3>2. error' \in BOOLEAN /\ valve' \in BOOLEAN
      BY <2>5 DEF Fail
    <3>. QED BY <3>1, <3>2, <2>1, <2>5, <1>1, <1>2, <1>4, ScheduleKeepsType
             DEF graph, progress
  <2>6. CASE q \in building /\ FailPackage(n, q)
    <3>1. /\ fails' = [fails EXCEPT ![q] = @ + 1]
          /\ Fail \/ UNCHANGED <<error, valve>>
          /\ UNCHANGED <<finished, successful>>
          /\ \E K : /\ remaining' = remaining \ K
                    /\ Schedule(Enqueue(queue, K), building \ {q}, reset, put(Busy), pending)
      BY <2>6 DEF FailPackage, reset, put
    <3>2. PICK K : /\ remaining' = remaining \ K
                   /\ Schedule(Enqueue(queue, K), building \ {q}, reset, put(Busy), pending)
      BY <3>1
    <3>3. fails' \in [Packages -> Nat]
      BY <3>1, <2>6, <1>2
    <3>4. error' \in BOOLEAN /\ valve' \in BOOLEAN
      BY <3>1, <1>2 DEF Fail
    <3>. QED BY <3>1, <3>2, <3>3, <3>4, <2>1, <1>1, <1>2, <1>3, <1>4, <1>5, ScheduleKeepsType
             DEF graph
  <2>. QED BY <2>2, <2>3, <2>4, <2>5, <2>6, <1>13 DEF NodeFailed, FailedOwn
<1>. QED BY <1>9, <1>10, <1>11, <1>12, <1>13 DEF NodeReports

\* Every step keeps the types.
LEMMA TypeStep ==
  ASSUME TypeOK, [Next]_vars
  PROVE  TypeOK'
<1> DEFINE put(n, s) == [proxy EXCEPT ![n] = s]
<1>1. /\ task \in {"none", "running", "done"} /\ error \in BOOLEAN /\ valve \in BOOLEAN
      /\ TRUE \in BOOLEAN /\ FALSE \in BOOLEAN
      /\ G \in DependencyGraphs /\ comp \in [Packages -> SUBSET Packages]
      /\ remaining \in SUBSET Packages /\ finished \in SUBSET Packages
      /\ building \in SUBSET Packages /\ pending \in SUBSET Packages
      /\ queue \in [Packages -> Nat]
      /\ successful \in [Packages -> Nat] /\ fails \in [Packages -> Nat]
      /\ nodes \in NodesType /\ proxy \in [Nodes -> ReportsType]
  BY DEF TypeOK, NodesType
<1>2. CASE Start
  BY <1>2 DEF Start, TypeOK, graph, progress
<1>3. CASE ComputeDone
  BY <1>3, ComputeType
<1>4. CASE ComputeInvalid \/ Stop
  BY <1>4, StopType DEF ComputeInvalid, Stop
<1>5. CASE ComputeDies
  BY <1>5 DEF ComputeDies, TypeOK, graph, progress
<1>6. CASE Open
  <2>1. valve' = TRUE /\ UNCHANGED <<task, error, graph, progress>>
    BY <1>6 DEF Open
  <2>2. CASE Schedule(queue, building, nodes, proxy, pending)
    BY <2>1, <2>2, <1>1, ScheduleKeepsType DEF graph, progress
  <2>3. CASE UNCHANGED <<state, queue, building, nodes, proxy, pending>>
    BY <2>1, <2>3 DEF TypeOK, graph, progress
  <2>. QED BY <2>2, <2>3, <1>6 DEF Open
<1>7. CASE Close
  BY <1>7 DEF Close, TypeOK, graph, progress
<1>8. ASSUME NEW n \in Nodes, NodeDiscovered(n) PROVE TypeOK'
  <2>1. /\ UNCHANGED <<task, graph, progress>>
        /\ Fail \/ UNCHANGED <<error, valve>>
    BY <1>8 DEF NodeDiscovered
  <2>2. error' \in BOOLEAN /\ valve' \in BOOLEAN
    BY <2>1, <1>1 DEF Fail
  <2>3. PICK s \in {Idle, Maintenance} \cup ForeignReports :
          Schedule(queue, building, [nodes EXCEPT ![n] = NoTask], put(n, s), pending)
    BY <1>8 DEF NodeDiscovered
  <2>4. put(n, s) \in [Nodes -> ReportsType]
    BY <1>1, <1>8, ReportsHaveType
  <2>5. [nodes EXCEPT ![n] = NoTask] \in NodesType
    BY <1>1 DEF NodesType
  <2>. QED BY <2>1, <2>2, <2>3, <2>4, <2>5, <1>1, ScheduleKeepsType DEF graph, progress
<1>9. ASSUME NEW n \in Nodes, NodeLost(n) PROVE TypeOK'
  <2>1. Gone \in ReportsType
    BY ReportsHaveType
  <2>2. error' \in BOOLEAN /\ valve' \in BOOLEAN
    BY <1>1, <1>9 DEF NodeLost, Fail
  <2>3. nodes' \in NodesType /\ proxy' \in [Nodes -> ReportsType]
    BY <2>1, <1>1, <1>9 DEF NodeLost, NodesType
  <2>4. UNCHANGED <<state, task, graph, progress, queue, building, pending>>
    BY <1>9 DEF NodeLost
  <2>. QED BY <2>2, <2>3, <2>4 DEF TypeOK, NodesType, graph, progress
<1>10. ASSUME NEW n \in Nodes, NodeReports(n) PROVE TypeOK'
  BY <1>10, NodeReportsType
<1>11. CASE UNCHANGED vars
  BY <1>11 DEF vars, TypeOK
<1>. QED BY <1>2, <1>3, <1>4, <1>5, <1>6, <1>7, <1>8, <1>9, <1>10, <1>11 DEF Next

\* The initial state has the types.
LEMMA InitType ==
  ASSUME Init
  PROVE  TypeOK
<1>1. Gone \in ReportsType
  BY DEF Gone, Plain, Shows, ReportsType
<1>2. NoGraph \in DependencyGraphs /\ NoComponents \in [Packages -> SUBSET Packages]
  BY DEF NoGraph, NoComponents, DependencyGraphs
<1>3. Zero \in [Packages -> Nat]
  BY DEF Zero
<1>4. /\ [n \in Nodes |-> NotKnown] \in [Nodes -> Packages \cup {NotKnown, NoTask, ResetTask}]
      /\ proxy \in [Nodes -> ReportsType]
  BY <1>1 DEF Init
<1>. QED BY <1>2, <1>3, <1>4 DEF Init, TypeOK

\* The controller's data structures always have their types.
THEOREM TypeCorrect == Spec => []TypeOK
<1>1. Init => TypeOK
  BY InitType
<1>2. TypeOK /\ [Next]_vars => TypeOK'
  BY TypeStep
<1>. QED BY <1>1, <1>2, PTL DEF Spec

-----------------------------------------------------------------------------
(* What _schedule does to the packages under way.                          *)

\* Each entry that is taken of the queue goes to one node.
OneNodeEach(b, q, available) ==
  /\ \A n \in DOMAIN b : /\ n \in available /\ n \in Nodes /\ b[n] \in Packages
                         /\ q[b[n]] = 1 /\ Taken(b, b[n]) = 1
  /\ \A n, m \in DOMAIN b : b[n] = b[m] => n = m
  /\ \A p \in Packages : \/ Taken(b, p) = 0
                         \/ Taken(b, p) = 1 /\ q[p] = 1 /\ \E n \in DOMAIN b : b[n] = p

\* That is so when no package is in the queue twice.
LEMMA TakenOnce ==
  ASSUME NEW available, available \subseteq Nodes,
         NEW q \in [Packages -> Nat], \A p \in Packages : q[p] <= 1,
         NEW b \in Prefixes(q, available)
  PROVE  OneNodeEach(b, q, available)
<1> DEFINE On(p) == {n \in DOMAIN b : b[n] = p}
<1>1. DOMAIN b \subseteq available /\ \A n \in DOMAIN b : b[n] \in Packages
  BY DEF Prefixes
<1>2. \A p : IsFiniteSet(On(p)) /\ Taken(b, p) = Cardinality(On(p))
  <2>1. TAKE p
  <2>2. On(p) \in SUBSET Nodes
    BY <1>1
  <2>. QED BY <2>2, FS_Subset, BuildMasterAssumption DEF Taken
<1>3. \A p \in Packages : Taken(b, p) \in {0, 1} /\ (Taken(b, p) = 1 => q[p] = 1)
  <2>1. TAKE p \in Packages
  <2>2. Taken(b, p) \in Nat /\ Taken(b, p) <= q[p] /\ q[p] \in Nat /\ q[p] <= 1
    BY TakenType DEF Prefixes
  <2>. QED BY <2>2
<1>4. \A p : Taken(b, p) = 0 <=> On(p) = {}
  BY <1>2, FS_EmptySet
<1>5. \A p : Taken(b, p) = 1 <=> \E x : On(p) = {x}
  <2> HIDE DEF On
  <2>. QED BY <1>2, FS_Singleton
<1>6. \A n \in DOMAIN b : Taken(b, b[n]) = 1 /\ q[b[n]] = 1
  <2> TAKE n \in DOMAIN b
  <2>1. n \in On(b[n])
    OBVIOUS
  <2>2. Taken(b, b[n]) # 0
    BY <2>1, <1>4
  <2>. QED BY <2>2, <1>1, <1>3
<1>7. \A n, m \in DOMAIN b : b[n] = b[m] => n = m
  <2> TAKE n, m \in DOMAIN b
  <2> HAVE b[n] = b[m]
  <2>1. PICK x : On(b[n]) = {x}
    BY <1>5, <1>6
  <2>2. n \in On(b[n]) /\ m \in On(b[n])
    OBVIOUS
  <2>. QED BY <2>1, <2>2
<1>8. \A p \in Packages : Taken(b, p) = 1 => \E n \in DOMAIN b : b[n] = p
  BY <1>4
<1>9. \A n \in DOMAIN b : n \in available /\ n \in Nodes /\ b[n] \in Packages
  BY <1>1
<1>10. \A p \in Packages : \/ Taken(b, p) = 0
                           \/ Taken(b, p) = 1 /\ q[p] = 1 /\ \E n \in DOMAIN b : b[n] = p
  BY <1>3, <1>8
<1> HIDE DEF On
<1>. QED BY <1>6, <1>7, <1>9, <1>10 DEF OneNodeEach

\* When _schedule completes, the same packages are under way as before, queue
\* and assignments are still in order, and no entry waits for an idle node.
LEMMA ScheduleActive ==
  ASSUME NEW q \in [Packages -> Nat], NEW bld \in SUBSET Packages,
         NEW nds \in NodesType, NEW prx, NEW pend, NEW err,
         Assigned(q, bld, nds, prx, err), err => ~valve',
         Schedule(q, bld, nds, prx, pend), state' = "idle"
  PROVE  /\ Active' = UnderWay(q, bld)
         /\ Assigned(queue', building', nodes', proxy', err)
         /\ WorkConserving'
<1> DEFINE available == IF valve' THEN Available(nds, prx) ELSE {}
<1>1. available \subseteq Nodes /\ \A n \in available : nds[n] = NoTask /\ ~err
  BY DEF Available
<1>2. PICK b \in Prefixes(q, available) :
        /\ Bind(b, bld, nds, prx)
        /\ Complete(b, q, available)
        /\ queue' = [p \in Packages |-> q[p] - Taken(b, p)]
  BY DEF Schedule
<1> HIDE DEF available
<1>3. /\ \A p \in Packages : q[p] <= 1
      /\ \A p \in bld : q[p] = 0
      /\ \A p \in bld : \E n \in Nodes : nds[n] = p
      /\ \A n, m \in Nodes : nds[n] \in bld /\ nds[m] = nds[n] => m = n
      /\ \A n \in Nodes : nds[n] \in Packages \ bld =>
                           err /\ prx[n] \notin {Busy, Building(nds[n])}
  BY DEF Assigned
<1>4. /\ \A n \in DOMAIN b : /\ n \in available /\ n \in Nodes /\ b[n] \in Packages
                             /\ q[b[n]] = 1 /\ Taken(b, b[n]) = 1
      /\ \A n, m \in DOMAIN b : b[n] = b[m] => n = m
      /\ \A p \in Packages : \/ Taken(b, p) = 0
                             \/ Taken(b, p) = 1 /\ q[p] = 1 /\ \E n \in DOMAIN b : b[n] = p
  <2>1. available \subseteq Nodes
    BY <1>1
  <2>2. OneNodeEach(b, q, available)
    BY <2>1, <1>3, TakenOnce
  <2>. QED BY <2>2 DEF OneNodeEach
<1>5. /\ building' = bld \cup {b[n] : n \in DOMAIN b}
      /\ nodes' = [n \in Nodes |-> IF n \in DOMAIN b THEN b[n] ELSE nds[n]]
      /\ proxy' = [n \in Nodes |-> IF n \in DOMAIN b THEN Busy ELSE prx[n]]
  BY <1>2 DEF Bind
<1>6. NoTask \notin Packages
  BY BuildMasterAssumption
<1>7. \A p \in Packages : queue'[p] = q[p] - Taken(b, p) /\ q[p] \in {0, 1}
  BY <1>2, <1>3
<1>8. Active' = UnderWay(q, bld)
  <2>1. Active' = {p \in Packages : queue'[p] > 0} \cup building'
    BY DEF Active, Queued
  <2>2. \A p \in Packages : queue'[p] > 0 => q[p] > 0
    BY <1>4, <1>7
  <2>3. \A p \in Packages : q[p] > 0 => queue'[p] > 0 \/ p \in building'
    BY <1>4, <1>5, <1>7
  <2>4. \A p \in building' : p \in bld \/ (p \in Packages /\ q[p] > 0)
    BY <1>4, <1>5
  <2>5. bld \subseteq building'
    BY <1>5
  <2>. QED BY <2>1, <2>2, <2>3, <2>4, <2>5 DEF UnderWay
<1>9. Assigned(queue', building', nodes', proxy', err)
  <2>1. \A p \in Packages : queue'[p] <= 1
    BY <1>4, <1>7
  <2>2. \A p \in building' : queue'[p] = 0
    <3>1. \A p \in bld : queue'[p] = 0
      BY <1>3, <1>4, <1>7
    <3>2. \A n \in DOMAIN b : queue'[b[n]] = 0
      BY <1>4, <1>7
    <3>. QED BY <3>1, <3>2, <1>5
  <2>3. \A p \in building' : \E n \in Nodes : nodes'[n] = p
    <3>1. ASSUME NEW p \in bld PROVE \E n \in Nodes : nodes'[n] = p
      <4>1. PICK n \in Nodes : nds[n] = p
        BY <1>3
      <4>2. n \notin DOMAIN b
        BY <4>1, <1>1, <1>4, <1>6
      <4>. QED BY <4>1, <4>2, <1>5
    <3>2. \A n \in DOMAIN b : n \in Nodes /\ nodes'[n] = b[n]
      BY <1>4, <1>5
    <3>. QED BY <3>1, <3>2, <1>5
  <2>4. \A n, m \in Nodes : nodes'[n] \in building' /\ nodes'[m] = nodes'[n] => m = n
    <3>1. TAKE n, m \in Nodes
    <3>2. HAVE nodes'[n] \in building' /\ nodes'[m] = nodes'[n]
    <3>3. /\ n \in DOMAIN b => nodes'[n] = b[n]
          /\ m \in DOMAIN b => nodes'[m] = b[m]
          /\ n \notin DOMAIN b => nodes'[n] = nds[n]
          /\ m \notin DOMAIN b => nodes'[m] = nds[m]
      BY <1>5
    <3>4. \A k \in DOMAIN b : b[k] \in Packages \ bld /\ ~err
      BY <1>1, <1>3, <1>4
    <3>5. CASE n \in DOMAIN b /\ m \in DOMAIN b
      BY <3>2, <3>3, <3>5, <1>4
    <3>6. CASE n \in DOMAIN b /\ m \notin DOMAIN b
      BY <3>2, <3>3, <3>4, <3>6, <1>3
    <3>7. CASE n \notin DOMAIN b /\ m \in DOMAIN b
      BY <3>2, <3>3, <3>4, <3>7, <1>3
    <3>8. CASE n \notin DOMAIN b /\ m \notin DOMAIN b
      <4>1. CASE nds[n] \in bld
        BY <4>1, <3>2, <3>3, <3>8, <1>3
      <4>2. CASE nds[n] \notin bld
        <5>1. PICK k \in DOMAIN b : nds[n] = b[k]
          BY <4>2, <3>2, <3>3, <3>8, <1>5
        <5>. QED BY <5>1, <3>4, <1>3
      <4>. QED BY <4>1, <4>2
    <3>. QED BY <3>5, <3>6, <3>7, <3>8
  <2>5. \A n \in Nodes : nodes'[n] \in Packages \ building' =>
                          err /\ proxy'[n] \notin {Busy, Building(nodes'[n])}
    BY <1>3, <1>5
  <2>. QED BY <2>1, <2>2, <2>3, <2>4, <2>5 DEF Assigned
<1>10. WorkConserving'
  <2>1. SUFFICES ASSUME valve' PROVE Queued' = {} \/ Available(nodes, proxy)' = {}
    BY DEF WorkConserving
  <2>2. CASE DOMAIN b = available
    <3>1. available = Available(nds, prx)
      BY <2>1 DEF available
    <3>2. \A n \in Nodes : n \notin DOMAIN b => nodes'[n] = nds[n] /\ proxy'[n] = prx[n]
      BY <1>5
    <3>3. \A n \in DOMAIN b : nodes'[n] # NoTask
      BY <1>4, <1>5, <1>6
    <3>. QED BY <2>2, <3>1, <3>2, <3>3 DEF Available
  <2>3. CASE \A p \in Packages : Taken(b, p) = q[p]
    BY <2>3, <1>7 DEF Queued
  <2>. QED BY <2>2, <2>3, <1>2 DEF Complete
<1>. QED BY <1>8, <1>9, <1>10

\* What _schedule outdates is not finished.
LEMMA OutdatedUnfinished ==
  ASSUME TypeOK', UNCHANGED graph, NEW A, NEW fl, NEW rem, NEW err,
         Core(G, comp, A, finished', successful', fl, rem, err),
         NEW p \in A, A \subseteq Packages
  PROVE  Outdated(p) \cap finished' = {}
<1>1. /\ Partition(comp)
      /\ Counted(comp, finished', successful')
      /\ p \notin finished'
      /\ \A c \in Packages : successful'[c] > 0 =>
           \A W \in Parents(G, comp, comp[c]) : W \subseteq finished'
  BY DEF Core
<1>2. SUFFICES ASSUME NEW c \in Outdated(p), c \in finished' PROVE FALSE
  OBVIOUS
<1>3. /\ c \in Packages /\ p \in G[c] /\ p \in Packages
      /\ comp[c] = comp[p] => successful'[c] < 2
  BY <1>2 DEF Outdated, Children
<1>4. c \in comp[c] /\ p \in comp[p]
  BY <1>1, <1>3 DEF Partition
<1>5. successful'[c] = Rounds(comp, c) /\ c # p
  BY <1>1, <1>2, <1>3 DEF Counted
<1>6. CASE comp[c] = comp[p]
  BY <1>3, <1>4, <1>5, <1>6 DEF Rounds
<1>7. CASE comp[c] # comp[p]
  <2>1. comp[p] \in Parents(G, comp, comp[c])
    BY <1>3, <1>4, <1>7 DEF Parents
  <2>2. successful'[c] > 0
    BY <1>5 DEF Rounds
  <2>. QED BY <2>1, <2>2, <1>1, <1>3, <1>4
<1>. QED BY <1>6, <1>7

\* _schedule keeps finished packages up to date.
LEMMA ScheduleUpToDate ==
  ASSUME TypeOK', UNCHANGED graph,
         NEW q \in [Packages -> Nat], NEW bld \in SUBSET Packages,
         NEW nds, NEW prx, NEW pend, pend \cap finished' = {},
         NEW fl, NEW rem, NEW err,
         Core(G, comp, UnderWay(q, bld), finished', successful', fl, rem, err),
         \A p \in Packages : q[p] <= 1,
         Schedule(q, bld, nds, prx, pend)
  PROVE  FinishedUpToDate'
<1> DEFINE available == IF valve' THEN Available(nds, prx) ELSE {}
           outdated(b) == UNION {Outdated(b[n]) : n \in {m \in DOMAIN b : b[m] \in pend}}
<1>1. available \subseteq Nodes
  BY DEF Available
<1>2. PICK b \in Prefixes(q, available) :
        \/ pending' = pend \cup outdated(b)
        \/ \E p \in Packages :
             /\ Taken(b, p) < q[p]
             /\ \E some \in SUBSET (IF p \in pend THEN Outdated(p) ELSE {}) :
                  pending' = pend \cup outdated(b) \cup some
  BY DEF Schedule
<1> HIDE DEF available
<1>3. OneNodeEach(b, q, available)
  BY <1>1, TakenOnce
<1>4. \A p \in Packages : q[p] > 0 => Outdated(p) \cap finished' = {}
  <2>1. TAKE p \in Packages
  <2>2. HAVE q[p] > 0
  <2>3. p \in UnderWay(q, bld) /\ UnderWay(q, bld) \subseteq Packages
    BY <2>2 DEF UnderWay
  <2>. QED BY <2>3, OutdatedUnfinished
<1>5. outdated(b) \cap finished' = {}
  <2>1. \A n \in DOMAIN b : b[n] \in Packages /\ q[b[n]] > 0
    BY <1>3 DEF OneNodeEach
  <2>. QED BY <2>1, <1>4
<1>6. \A p \in Packages : Taken(b, p) < q[p] => q[p] > 0
  BY <1>1, TakenType
<1> HIDE DEF outdated
<1>. QED BY <1>2, <1>4, <1>5, <1>6 DEF FinishedUpToDate

\* A handler that ends with _schedule keeps the invariant, if what it leaves is in
\* order.
LEMMA ScheduleInv ==
  ASSUME TypeOK', task' # "running", error' => ~valve',
         NEW q \in [Packages -> Nat], NEW bld \in SUBSET Packages,
         NEW nds \in NodesType, NEW prx, NEW pend, pend \cap finished' = {},
         UNCHANGED graph \/ (pend \cup Packages) \cap finished' = {},
         Core(G', comp', UnderWay(q, bld), finished', successful', fails', remaining', error'),
         Assigned(q, bld, nds, prx, error'),
         Schedule(q, bld, nds, prx, pend)
  PROVE  IInv'
<1>1. state' \in {"idle", "computing"}
  BY DEF Schedule
<1>2. LevelSpread'
  BY DEF Core, LevelSpread
<1>3. FinishedUpToDate'
  <2>1. CASE UNCHANGED graph
    <3>1. Core(G, comp, UnderWay(q, bld), finished', successful', fails', remaining', error')
      BY <2>1 DEF graph
    <3>2. \A p \in Packages : q[p] <= 1
      BY DEF Assigned
    <3>. QED BY <2>1, <3>1, <3>2, ScheduleUpToDate
  <2>2. CASE (pend \cup Packages) \cap finished' = {}
    BY <2>2 DEF TypeOK, FinishedUpToDate
  <2>. QED BY <2>1, <2>2
<1>4. ASSUME state' = "idle"
      PROVE  /\ Core(G, comp, Active, finished, successful, fails, remaining, error)'
             /\ Assigned(queue, building, nodes, proxy, error)'
             /\ WorkConserving'
  <2>1. /\ Active' = UnderWay(q, bld)
        /\ Assigned(queue', building', nodes', proxy', error')
        /\ WorkConserving'
    BY <1>4, ScheduleActive
  <2>2. Core(G', comp', Active', finished', successful', fails', remaining', error')
    BY <2>1
  <2>. QED BY <2>1, <2>2
<1>. QED BY <1>1, <1>2, <1>3, <1>4 DEF IInv

-----------------------------------------------------------------------------
(* The handlers keep the invariant.                                        *)

\* A node reports on an enabled package only while it builds it, if no other
\* client builds one of them.
LEMMA OwnReport ==
  ASSUME Foreign \cap Packages = {}, NEW n \in Nodes, NEW q \in Packages,
         \/ Building(q) \in Reports(n) \/ Finished(q) \in Reports(n)
         \/ \E why \in Reasons : Failed(q, why) \in Reports(n)
  PROVE  nodes[n] = q /\ q \in building
<1>1. /\ \A p : Building(p).pkg = p
      /\ \A p : Finished(p).pkg = p
      /\ \A p, why : Failed(p, why).pkg = p
      /\ Idle.pkg = "no package" /\ Maintenance.pkg = "no package"
  BY DEF Building, Finished, Failed, Idle, Maintenance, Plain, Shows
<1>2. PICK r \in Reports(n) : r.pkg = q
  BY <1>1
<1>2b. r \in ReportsAbout(({nodes[n]} \cap building) \cup Foreign) \cup {Idle, Maintenance}
  BY <1>2 DEF Reports, NextReports
<1>3. "no package" \notin Packages
  BY BuildMasterAssumption
<1>4. r \in ReportsAbout(({nodes[n]} \cap building) \cup Foreign)
  <2>1. r # Idle
    BY <1>1, <1>2, <1>3
  <2>2. r # Maintenance
    BY <1>1, <1>2, <1>3
  <2>. QED BY <1>2b, <2>1, <2>2, Zenon
<1>5. PICK p \in ({nodes[n]} \cap building) \cup Foreign :
        r = Building(p) \/ r = Finished(p) \/ \E why \in Reasons : r = Failed(p, why)
  BY <1>4 DEF ReportsAbout
<1>6. r.pkg = p
  BY <1>1, <1>5
<1>7. nodes[n] = q /\ q \in building
  BY <1>2, <1>5, <1>6
<1>. QED BY <1>7

\* The reports that are not about a package under way.
LEMMA ReportsDiffer ==
  ASSUME NEW p, NEW q, NEW why
  PROVE  /\ Idle \notin {Busy, Building(p)} /\ Maintenance \notin {Busy, Building(p)}
         /\ Gone \notin {Busy, Building(p), Idle}
         /\ Finished(q) \notin {Busy, Building(p), Idle}
         /\ Failed(q, why) \notin {Busy, Building(p), Idle}
         /\ Building(q) \notin {Busy, Idle} /\ Busy # Idle
         /\ q # p => Building(q) # Building(p)
<1>1. /\ Idle.st = "idle" /\ Busy.st = "busy" /\ Gone.st = "gone"
      /\ Maintenance.st = "maintenance"
  BY DEF Idle, Busy, Gone, Maintenance, Plain, Shows
<1>2. /\ Building(p).st = "building" /\ Building(q).st = "building"
      /\ Finished(q).st = "finished" /\ Failed(q, why).st = "failed"
      /\ Building(p).pkg = p /\ Building(q).pkg = q
  BY DEF Building, Finished, Failed, Shows
<1>. QED BY <1>1, <1>2

\* Nothing changed but, perhaps, that there is an error now.
LEMMA CoreStays ==
  ASSUME Core(G, comp, Active, finished, successful, fails, remaining, error),
         UNCHANGED <<graph, progress>>, Fail \/ UNCHANGED <<error, valve>>
  PROVE  Core(G', comp', Active, finished', successful', fails', remaining', error')
<1>1. /\ G' = G /\ comp' = comp /\ finished' = finished /\ successful' = successful
      /\ fails' = fails /\ remaining' = remaining
  BY DEF graph, progress
<1>2. Core(G, comp, Active, finished, successful, fails, remaining, TRUE)
  BY CoreAborts
<1>3. error' = TRUE \/ error' = error
  BY DEF Fail
<1>. QED BY <1>1, <1>2, <1>3

\* What holds before a notification is handled.
LEMMA NotifiedFacts ==
  ASSUME IInv, state = "idle"
  PROVE  /\ TypeOK /\ task # "running" /\ (error => ~valve)
         /\ finished \cap pending = {}
         /\ Core(G, comp, Active, finished, successful, fails, remaining, error)
         /\ Assigned(queue, building, nodes, proxy, error)
         /\ WorkConserving
         /\ Active = UnderWay(queue, building)
         /\ queue \in [Packages -> Nat] /\ building \in SUBSET Packages
         /\ nodes \in NodesType /\ proxy \in [Nodes -> ReportsType]
  BY DEF IInv, FinishedUpToDate, Active, Queued, UnderWay, TypeOK, NodesType

\* A node's report leaves assignments in order, unless a node that has reported
\* the abort of its package begins to build it.
LEMMA AssignedReported ==
  ASSUME IInv, state = "idle", NEW n \in Nodes, NEW r, NEW err, error => err,
         nodes[n] \in Packages \ building => err /\ r \notin {Busy, Building(nodes[n])}
  PROVE  Assigned(queue, building, nodes, [proxy EXCEPT ![n] = r], err)
  BY NotifiedFacts DEF Assigned

\* The handler fails the build or does nothing, and then schedules.
LEMMA JustScheduleInv ==
  ASSUME IInv, TypeOK', state = "idle", NEW n \in Nodes, NEW r,
         nodes[n] \in Packages \ building => r \notin {Busy, Building(nodes[n])},
         UNCHANGED <<task, graph, progress>>, Fail \/ UNCHANGED <<error, valve>>,
         JustSchedule(n, r)
  PROVE  IInv'
<1> DEFINE prx == [proxy EXCEPT ![n] = r]
<1>1. /\ task' # "running" /\ (error' => ~valve') /\ pending \cap finished' = {}
      /\ queue \in [Packages -> Nat] /\ building \in SUBSET Packages /\ nodes \in NodesType
  BY NotifiedFacts DEF Fail, progress
<1>2. Core(G', comp', UnderWay(queue, building), finished', successful', fails', remaining', error')
  BY NotifiedFacts, CoreStays
<1>3. (error => error') /\ (nodes[n] \in Packages \ building => error)
  BY NotifiedFacts DEF Fail, Assigned
<1>4. Assigned(queue, building, nodes, prx, error')
  BY <1>3, AssignedReported
<1>5. Schedule(queue, building, nodes, prx, pending)
  BY DEF JustSchedule
<1> HIDE DEF prx
<1>. QED BY <1>1, <1>2, <1>4, <1>5, ScheduleInv

\* The handler raised.
LEMMA RaisedInv ==
  ASSUME IInv, TypeOK', state = "idle", NEW n \in Nodes, NEW r, r # Idle,
         nodes[n] \in Packages \ building => r \notin {Busy, Building(nodes[n])},
         UNCHANGED <<task, graph, progress>>, Raised(n, r)
  PROVE  IInv'
<1>1. /\ UNCHANGED <<state, task, error, valve, G, comp, remaining, queue, building,
                     finished, successful, fails, nodes, pending>>
      /\ proxy' = [proxy EXCEPT ![n] = r]
  BY DEF Raised, graph, progress
<1>2. Assigned(queue, building, nodes, proxy', error)
  BY <1>1, NotifiedFacts, AssignedReported DEF Assigned
<1>3. Available(nodes, proxy') \subseteq Available(nodes, proxy)
  BY <1>1, NotifiedFacts DEF Available
<1>4. WorkConserving'
  BY <1>1, <1>3, NotifiedFacts DEF WorkConserving, Queued, Available
<1>5. /\ Core(G, comp, Active, finished, successful, fails, remaining, error)'
      /\ Assigned(queue, building, nodes, proxy, error)'
  BY <1>1, <1>2, NotifiedFacts DEF Active, Queued
<1>. QED BY <1>1, <1>4, <1>5 DEF IInv, LevelSpread, FinishedUpToDate

\* The entry of a package under way goes back to the queue.
LEMMA RequeueInv ==
  ASSUME IInv, TypeOK', state = "idle", NEW n \in Nodes, NEW q \in building, nodes[n] = q,
         NEW r, UNCHANGED <<task, graph, progress>>, Requeue(n, q, r)
  PROVE  IInv'
<1> DEFINE q2 == Enqueue(queue, {q})
           bld == building \ {q}
           nds == [nodes EXCEPT ![n] = NoTask]
           prx == [proxy EXCEPT ![n] = r]
<1>1. /\ q \in Packages /\ queue \in [Packages -> Nat] /\ building \subseteq Packages
      /\ nodes \in NodesType /\ Active = UnderWay(queue, building)
      /\ task' # "running" /\ pending \cap finished' = {}
      /\ NoTask \notin Packages
  BY NotifiedFacts, BuildMasterAssumption DEF progress
<1>2. UNCHANGED <<error, valve>> /\ Schedule(q2, bld, nds, prx, pending)
  BY <1>1 DEF Requeue
<1>3. /\ \A p \in Packages : queue[p] <= 1
      /\ \A p \in building : queue[p] = 0
      /\ \A p \in building : \E m \in Nodes : nodes[m] = p
      /\ \A k, m \in Nodes : nodes[k] \in building /\ nodes[m] = nodes[k] => m = k
      /\ \A m \in Nodes : nodes[m] \in Packages \ building =>
                            error /\ proxy[m] \notin {Busy, Building(nodes[m])}
  BY NotifiedFacts DEF Assigned
<1>4. /\ q2 \in [Packages -> Nat] /\ bld \in SUBSET Packages /\ nds \in NodesType
      /\ q2[q] = 1 /\ \A p \in Packages : p # q => q2[p] = queue[p]
  BY <1>1, <1>3 DEF Enqueue, NodesType
<1>5. nds[n] = NoTask /\ \A m \in Nodes : m # n => nds[m] = nodes[m] /\ prx[m] = proxy[m]
  BY <1>1, NotifiedFacts DEF NodesType
<1> HIDE DEF q2, nds, prx
<1>6. UnderWay(q2, bld) = Active
  BY <1>1, <1>3, <1>4 DEF UnderWay
<1>7. Assigned(q2, bld, nds, prx, error')
  <2>1. /\ \A p \in Packages : q2[p] <= 1
        /\ \A p \in bld : q2[p] = 0
    BY <1>1, <1>3, <1>4
  <2>2. \A p \in bld : \E m \in Nodes : nds[m] = p
    <3>1. TAKE p \in bld
    <3>2. PICK m \in Nodes : nodes[m] = p
      BY <1>3
    <3>. QED BY <3>2, <1>5
  <2>3. \A k, m \in Nodes : nds[k] \in bld /\ nds[m] = nds[k] => m = k
    BY <1>1, <1>3, <1>5
  <2>4. \A m \in Nodes : nds[m] \in Packages \ bld =>
                           error' /\ prx[m] \notin {Busy, Building(nds[m])}
    <3>1. TAKE m \in Nodes
    <3>2. HAVE nds[m] \in Packages \ bld
    <3>3. m # n /\ nodes[m] # q
      BY <3>2, <1>1, <1>3, <1>5
    <3>. QED BY <3>2, <3>3, <1>2, <1>3, <1>5
  <2>. QED BY <2>1, <2>2, <2>3, <2>4 DEF Assigned
<1>8. Core(G', comp', UnderWay(q2, bld), finished', successful', fails', remaining', error')
  BY <1>2, <1>6, NotifiedFacts, CoreStays
<1>9. error' => ~valve'
  BY <1>2, NotifiedFacts
<1>. QED BY <1>1, <1>2, <1>4, <1>7, <1>8, <1>9, ScheduleInv

\* The build of a package was aborted: nobody builds it, and there is an error.
LEMMA AbortInv ==
  ASSUME IInv, TypeOK', state = "idle", NEW n \in Nodes, NEW q \in building, nodes[n] = q,
         NEW r, r \notin {Busy, Building(q)}, UNCHANGED <<task, graph, progress>>, Fail,
         Schedule(queue, building \ {q}, nodes, [proxy EXCEPT ![n] = r], pending)
  PROVE  IInv'
<1> DEFINE bld == building \ {q}
           prx == [proxy EXCEPT ![n] = r]
<1>1. /\ queue \in [Packages -> Nat] /\ building \subseteq Packages
      /\ nodes \in NodesType /\ Active = UnderWay(queue, building)
      /\ task' # "running" /\ pending \cap finished' = {}
      /\ error' = TRUE /\ valve' = FALSE /\ bld \in SUBSET Packages
  BY NotifiedFacts DEF progress, Fail
<1>2. /\ \A p \in Packages : queue[p] <= 1
      /\ \A p \in building : queue[p] = 0
      /\ \A p \in building : \E m \in Nodes : nodes[m] = p
      /\ \A k, m \in Nodes : nodes[k] \in building /\ nodes[m] = nodes[k] => m = k
      /\ \A m \in Nodes : nodes[m] \in Packages \ building =>
                            error /\ proxy[m] \notin {Busy, Building(nodes[m])}
  BY NotifiedFacts DEF Assigned
<1>3. prx[n] = r /\ \A m \in Nodes : m # n => prx[m] = proxy[m]
  BY NotifiedFacts
<1>4. Schedule(queue, bld, nodes, prx, pending)
  OBVIOUS
<1> HIDE DEF prx
<1>5. Assigned(queue, bld, nodes, prx, error')
  BY <1>1, <1>2, <1>3 DEF Assigned
<1>6. UnderWay(queue, bld) \subseteq Active
  BY <1>1 DEF UnderWay
<1>7. Core(G, comp, UnderWay(queue, bld), finished, successful, fails, remaining, TRUE)
  BY <1>6, NotifiedFacts, CoreAborts
<1>8. Core(G', comp', UnderWay(queue, bld), finished', successful', fails', remaining', error')
  BY <1>1, <1>7 DEF graph, progress
<1> HIDE DEF bld
<1>. QED BY <1>1, <1>4, <1>5, <1>8, ScheduleInv

\* A verdict on a package: its node is reset, and other packages get their turn.
LEMMA VerdictInv ==
  ASSUME IInv, TypeOK', state = "idle", NEW n \in Nodes, NEW p \in building, nodes[n] = p,
         NEW K \in SUBSET Packages, K \cap (Active \ {p}) = {},
         UNCHANGED <<task, graph>>, error => error', error' => ~valve',
         Core(G, comp, (Active \ {p}) \cup K, finished', successful', fails', remaining', error'),
         NEW pend, pend \cap finished' = {},
         Schedule(Enqueue(queue, K), building \ {p}, [nodes EXCEPT ![n] = ResetTask],
                  [proxy EXCEPT ![n] = Busy], pend)
  PROVE  IInv'
<1> DEFINE q2 == Enqueue(queue, K)
           bld == building \ {p}
           nds == [nodes EXCEPT ![n] = ResetTask]
           prx == [proxy EXCEPT ![n] = Busy]
<1>1. /\ p \in Packages /\ queue \in [Packages -> Nat] /\ building \subseteq Packages
      /\ nodes \in NodesType /\ Active = UnderWay(queue, building)
      /\ task' # "running" /\ ResetTask \notin Packages
  BY NotifiedFacts, BuildMasterAssumption
<1>2. /\ \A x \in Packages : queue[x] <= 1
      /\ \A x \in building : queue[x] = 0
      /\ \A x \in building : \E m \in Nodes : nodes[m] = x
      /\ \A k, m \in Nodes : nodes[k] \in building /\ nodes[m] = nodes[k] => m = k
      /\ \A m \in Nodes : nodes[m] \in Packages \ building =>
                            error /\ proxy[m] \notin {Busy, Building(nodes[m])}
  BY NotifiedFacts DEF Assigned
<1>3. /\ q2 \in [Packages -> Nat] /\ bld \in SUBSET Packages /\ nds \in NodesType
      /\ \A x \in K : q2[x] = queue[x] + 1
      /\ \A x \in Packages : x \notin K => q2[x] = queue[x]
  BY <1>1 DEF Enqueue, NodesType
<1>4. nds[n] = ResetTask /\ \A m \in Nodes : m # n => nds[m] = nodes[m] /\ prx[m] = proxy[m]
  BY <1>1, NotifiedFacts DEF NodesType
<1>5. Schedule(q2, bld, nds, prx, pend)
  OBVIOUS
<1> HIDE DEF q2, nds, prx
<1>6. \A x \in K : queue[x] = 0 /\ x \notin bld
  BY <1>1, <1>2 DEF UnderWay
<1>7. UnderWay(q2, bld) = (Active \ {p}) \cup K
  <2>1. \A x \in Packages : q2[x] > 0 <=> x \in K \/ queue[x] > 0
    BY <1>1, <1>3
  <2>. QED BY <2>1, <1>1, <1>2 DEF UnderWay
<1>8. Assigned(q2, bld, nds, prx, error')
  <2>1. /\ \A x \in Packages : q2[x] <= 1
        /\ \A x \in bld : q2[x] = 0
    BY <1>1, <1>2, <1>3, <1>6
  <2>2. \A x \in bld : \E m \in Nodes : nds[m] = x
    <3>1. TAKE x \in bld
    <3>2. PICK m \in Nodes : nodes[m] = x
      BY <1>2
    <3>. QED BY <3>2, <1>4
  <2>3. \A k, m \in Nodes : nds[k] \in bld /\ nds[m] = nds[k] => m = k
    BY <1>1, <1>2, <1>4
  <2>4. \A m \in Nodes : nds[m] \in Packages \ bld =>
                           error' /\ prx[m] \notin {Busy, Building(nds[m])}
    <3>1. TAKE m \in Nodes
    <3>2. HAVE nds[m] \in Packages \ bld
    <3>3. m # n /\ nodes[m] # p
      BY <3>2, <1>1, <1>2, <1>4
    <3>. QED BY <3>2, <3>3, <1>2, <1>4
  <2>. QED BY <2>1, <2>2, <2>3, <2>4 DEF Assigned
<1>9. Core(G', comp', UnderWay(q2, bld), finished', successful', fails', remaining', error')
  BY <1>7 DEF graph
<1> HIDE DEF bld
<1>. QED BY <1>1, <1>3, <1>5, <1>8, <1>9, ScheduleInv

\* _handle_successful_build
LEMMA SucceedInv ==
  ASSUME IInv, TypeOK', state = "idle", NEW n \in Nodes, NEW p \in building, nodes[n] = p,
         UNCHANGED <<task, graph>>, Succeed(n, p)
  PROVE  IInv'
<1>1. /\ Built(p, finished', successful', fails')
      /\ UNCHANGED <<error, valve>>
      /\ \E K \in Choices(Turns(comp[p], finished'), successful', fails') :
           /\ remaining' = remaining \ K
           /\ Schedule(Enqueue(queue, K), building \ {p}, [nodes EXCEPT ![n] = ResetTask],
                       [proxy EXCEPT ![n] = Busy], pending \ {p})
  <2>1. p \in Packages /\ successful \in [Packages -> Nat]
    BY NotifiedFacts DEF TypeOK
  <2>2. [successful EXCEPT ![p] = @ + 1][p] = successful[p] + 1
    BY <2>1
  <2>. QED BY <2>2 DEF Succeed, Built
<1>2. PICK K \in Choices(Turns(comp[p], finished'), successful', fails') :
        /\ remaining' = remaining \ K
        /\ Schedule(Enqueue(queue, K), building \ {p}, [nodes EXCEPT ![n] = ResetTask],
                    [proxy EXCEPT ![n] = Busy], pending \ {p})
  BY <1>1
<1>3. /\ TypeOK /\ p \in Active
      /\ Core(G, comp, Active, finished, successful, fails, remaining, error)
      /\ finished \cap pending = {} /\ (error' => ~valve') /\ error' = error
  BY <1>1, NotifiedFacts DEF Active
<1>4. /\ K \in SUBSET Packages
      /\ K \cap (Active \ {p}) = {}
      /\ Core(G, comp, (Active \ {p}) \cup K, finished', successful', fails', remaining \ K, error)
  BY <1>1, <1>2, <1>3, CoreSucceeds
<1>5. Core(G, comp, (Active \ {p}) \cup K, finished', successful', fails', remaining', error')
  BY <1>2, <1>3, <1>4
<1>6. (pending \ {p}) \cap finished' = {}
  BY <1>1, <1>3 DEF Built
<1>. QED BY <1>2, <1>3, <1>4, <1>5, <1>6, VerdictInv

\* _handle_failed_build
LEMMA FailInv ==
  ASSUME IInv, TypeOK', state = "idle", NEW n \in Nodes, NEW p \in building, nodes[n] = p,
         UNCHANGED <<task, graph>>, FailPackage(n, p)
  PROVE  IInv'
<1>1. /\ fails' = [fails EXCEPT ![p] = @ + 1]
      /\ IF SCCFailed(comp[p], successful, fails') THEN Fail ELSE UNCHANGED <<error, valve>>
      /\ UNCHANGED <<finished, successful>>
      /\ \E K \in IF SCCFailed(comp[p], successful, fails')
                    THEN {{}} ELSE Choices({comp[p]}, successful, fails') :
           /\ remaining' = remaining \ K
           /\ Schedule(Enqueue(queue, K), building \ {p}, [nodes EXCEPT ![n] = ResetTask],
                       [proxy EXCEPT ![n] = Busy], pending)
  BY DEF FailPackage
<1>2. PICK K \in IF SCCFailed(comp[p], successful, fails')
                   THEN {{}} ELSE Choices({comp[p]}, successful, fails') :
        /\ remaining' = remaining \ K
        /\ Schedule(Enqueue(queue, K), building \ {p}, [nodes EXCEPT ![n] = ResetTask],
                    [proxy EXCEPT ![n] = Busy], pending)
  BY <1>1
<1>3. Tried(p, fails', K, error')
  BY <1>1, <1>2 DEF Tried, Fail
<1>4. /\ TypeOK /\ p \in Active
      /\ Core(G, comp, Active, finished, successful, fails, remaining, error)
      /\ finished \cap pending = {} /\ (error => ~valve)
  BY NotifiedFacts DEF Active
<1>5. (error => error') /\ (error' => ~valve')
  BY <1>1, <1>4 DEF Fail
<1>6. /\ K \in SUBSET Packages
      /\ K \cap (Active \ {p}) = {}
      /\ Core(G, comp, (Active \ {p}) \cup K, finished, successful, fails', remaining \ K, error')
  BY <1>3, <1>4, CoreFails
<1>7. Core(G, comp, (Active \ {p}) \cup K, finished', successful', fails', remaining', error')
  BY <1>1, <1>2, <1>6
<1>8. pending \cap finished' = {}
  BY <1>1, <1>4
<1>. QED BY <1>2, <1>5, <1>6, <1>7, <1>8, VerdictInv

\* The beginning of a build.
LEMMA ComputeInv ==
  ASSUME IInv, TypeOK', ComputeDone
  PROVE  IInv'
<1>1. nodes = [n \in Nodes |-> NotKnown] /\ nodes \in NodesType /\ error \in BOOLEAN
  BY DEF IInv, ComputeDone, TypeOK, NodesType
<1>2. PICK g \in Graphs, pend \in SUBSET Packages :
        \E K \in Choices({C \in {Components(g)[p] : p \in Packages} :
                            Parents(g, Components(g), C) = {}}, Zero, Zero) :
          /\ G' = g /\ comp' = Components(g)
          /\ remaining' = Packages \ K
          /\ finished' = {} /\ successful' = Zero /\ fails' = Zero
          /\ UNCHANGED <<error, valve>>
          /\ Schedule(Enqueue(Zero, K), {}, nodes, proxy, pend)
  BY DEF ComputeDone
<1>3. PICK K \in Choices({C \in {Components(g)[p] : p \in Packages} :
                            Parents(g, Components(g), C) = {}}, Zero, Zero) :
          /\ G' = g /\ comp' = Components(g)
          /\ remaining' = Packages \ K
          /\ finished' = {} /\ successful' = Zero /\ fails' = Zero
          /\ UNCHANGED <<error, valve>>
          /\ Schedule(Enqueue(Zero, K), {}, nodes, proxy, pend)
  BY <1>2
<1>4. g \in DependencyGraphs
  BY BuildMasterAssumption
<1>5. /\ K \in SUBSET Packages
      /\ Core(g, Components(g), K, {}, Zero, Zero, Packages \ K, error)
  BY <1>4, CoreBegins
<1> DEFINE q == Enqueue(Zero, K)
<1>6. /\ q \in [Packages -> Nat] /\ UnderWay(q, {}) = K
      /\ \A p \in Packages : q[p] <= 1
  BY <1>5 DEF Enqueue, Zero, UnderWay
<1> HIDE DEF q
<1>7. \A n \in Nodes : nodes[n] \notin Packages
  BY <1>1, BuildMasterAssumption
<1>8. Assigned(q, {}, nodes, proxy, error')
  BY <1>6, <1>7 DEF Assigned
<1>9. /\ task' # "running" /\ (error' => ~valve')
      /\ {} \in SUBSET Packages /\ pend \cap finished' = {}
      /\ (pend \cup Packages) \cap finished' = {}
  BY <1>3 DEF ComputeDone, IInv
<1>10. Schedule(q, {}, nodes, proxy, pend)
  BY <1>3 DEF q
<1>11. Core(G', comp', UnderWay(q, {}), finished', successful', fails', remaining', error')
  BY <1>3, <1>5, <1>6
<1>. QED BY <1>1, <1>6, <1>8, <1>9, <1>10, <1>11, ScheduleInv

\* What the clients may do at any time.
LEMMA ClientsInv ==
  ASSUME IInv, TypeOK', Start \/ ComputeInvalid \/ ComputeDies \/ Stop \/ Open \/ Close
  PROVE  IInv'
<1>1. CASE Start
  BY <1>1 DEF Start, IInv, LevelSpread, FinishedUpToDate, graph, progress
<1>2. CASE ComputeInvalid \/ Stop
  <2>1. /\ state' = "off" /\ task' = "none" /\ error' = FALSE /\ finished' = {}
        /\ comp' = NoComponents /\ nodes' = [n \in Nodes |-> NotKnown]
    BY <1>2 DEF ComputeInvalid, Stop, StopBuild
  <2>2. LevelSpread' /\ FinishedUpToDate'
    BY <2>1 DEF LevelSpread, FinishedUpToDate, NoComponents
  <2>. QED BY <2>1, <2>2 DEF IInv
<1>3. CASE ComputeDies
  BY <1>3 DEF ComputeDies, IInv, LevelSpread, FinishedUpToDate, graph, progress
<1>4. CASE Open
  <2>1. /\ ~error /\ valve' = TRUE /\ UNCHANGED <<task, error, graph, progress>>
    BY <1>4 DEF Open
  <2>2. CASE state = "idle"
    <3>1. /\ task' # "running" /\ (error' => ~valve') /\ pending \cap finished' = {}
          /\ queue \in [Packages -> Nat] /\ building \in SUBSET Packages /\ nodes \in NodesType
      BY <2>1, <2>2, NotifiedFacts DEF progress
    <3>2. /\ Core(G', comp', UnderWay(queue, building), finished', successful', fails',
                  remaining', error')
          /\ Assigned(queue, building, nodes, proxy, error')
      BY <2>1, <2>2, NotifiedFacts DEF graph, progress
    <3>3. Schedule(queue, building, nodes, proxy, pending)
      BY <2>2, <1>4 DEF Open
    <3>. QED BY <2>1, <3>1, <3>2, <3>3, ScheduleInv
  <2>3. CASE state # "idle"
    <3>1. UNCHANGED <<state, queue, building, nodes, proxy, pending>>
      BY <2>3, <1>4 DEF Open
    <3>. QED BY <2>1, <2>3, <3>1 DEF IInv, LevelSpread, FinishedUpToDate, graph, progress
  <2>. QED BY <2>2, <2>3
<1>5. CASE Close
  <2>1. /\ valve' = FALSE
        /\ UNCHANGED <<state, task, error, G, comp, remaining, queue, building, finished,
                       successful, fails, nodes, proxy, pending>>
    BY <1>5 DEF Close, graph, progress
  <2>2. /\ LevelSpread' /\ FinishedUpToDate' /\ WorkConserving'
        /\ Active' = Active
    BY <2>1 DEF IInv, LevelSpread, FinishedUpToDate, WorkConserving, Active, Queued
  <2>. QED BY <2>1, <2>2 DEF IInv
<1>. QED BY <1>1, <1>2, <1>3, <1>4, <1>5

\* A node comes.
LEMMA DiscoveredInv ==
  ASSUME IInv, TypeOK', NEW n \in Nodes, NodeDiscovered(n)
  PROVE  IInv'
<1>1. /\ state = "idle" /\ nodes[n] = NotKnown
      /\ UNCHANGED <<task, graph, progress>>
      /\ Fail \/ UNCHANGED <<error, valve>>
  BY DEF NodeDiscovered
<1>2. PICK s : Schedule(queue, building, [nodes EXCEPT ![n] = NoTask],
                        [proxy EXCEPT ![n] = s], pending)
  BY DEF NodeDiscovered
<1> DEFINE nds == [nodes EXCEPT ![n] = NoTask]
           prx == [proxy EXCEPT ![n] = s]
<1>3. /\ queue \in [Packages -> Nat] /\ building \in SUBSET Packages
      /\ nodes \in NodesType /\ nds \in NodesType
      /\ task' # "running" /\ (error' => ~valve') /\ (error => error')
      /\ pending \cap finished' = {}
      /\ NoTask \notin Packages /\ NotKnown \notin Packages
  <2>1. nodes \in NodesType /\ nds \in NodesType
    BY <1>1, NotifiedFacts DEF NodesType
  <2>2. task' # "running" /\ (error' => ~valve') /\ (error => error')
    BY <1>1, NotifiedFacts DEF Fail
  <2>3. /\ queue \in [Packages -> Nat] /\ building \in SUBSET Packages
        /\ pending \cap finished' = {}
    BY <1>1, NotifiedFacts DEF progress
  <2>. QED BY <2>1, <2>2, <2>3, BuildMasterAssumption
<1>4. nds[n] = NoTask /\ \A m \in Nodes : m # n => nds[m] = nodes[m] /\ prx[m] = proxy[m]
  BY <1>1, NotifiedFacts DEF NodesType
<1>5. Schedule(queue, building, nds, prx, pending)
  BY <1>2
<1> HIDE DEF nds, prx
<1>6. Assigned(queue, building, nodes, proxy, error)
  BY <1>1, NotifiedFacts
<1>7. Assigned(queue, building, nds, prx, error')
  <2>1. \A p \in building : \E m \in Nodes : nds[m] = p
    <3>1. TAKE p \in building
    <3>2. PICK m \in Nodes : nodes[m] = p
      BY <1>6 DEF Assigned
    <3>. QED BY <3>2, <1>1, <1>3, <1>4
  <2>2. \A k, m \in Nodes : nds[k] \in building /\ nds[m] = nds[k] => m = k
    BY <1>3, <1>4, <1>6 DEF Assigned
  <2>3. \A m \in Nodes : nds[m] \in Packages \ building =>
                           error' /\ prx[m] \notin {Busy, Building(nds[m])}
    BY <1>3, <1>4, <1>6 DEF Assigned
  <2>. QED BY <2>1, <2>2, <2>3, <1>6 DEF Assigned
<1>8. Core(G', comp', UnderWay(queue, building), finished', successful', fails', remaining', error')
  BY <1>1, NotifiedFacts, CoreStays
<1>9. UNCHANGED graph
  BY <1>1
<1>. QED BY <1>3, <1>9, <1>5, <1>7, <1>8, ScheduleInv

\* A node goes.
LEMMA LostInv ==
  ASSUME IInv, TypeOK', NEW n \in Nodes, NodeLost(n)
  PROVE  IInv'
<1>1. /\ state = "idle"
      /\ Fail \/ UNCHANGED <<error, valve>>
      /\ nodes' = IF nodes[n] # NoTask THEN nodes ELSE [nodes EXCEPT ![n] = NotKnown]
      /\ proxy' = [proxy EXCEPT ![n] = Gone]
      /\ UNCHANGED <<state, task, graph, progress, queue, building, pending>>
  BY DEF NodeLost
<1>2. /\ Core(G, comp, Active, finished, successful, fails, remaining, error)
      /\ Assigned(queue, building, nodes, proxy, error)
      /\ WorkConserving /\ task # "running" /\ (error => ~valve)
      /\ nodes \in NodesType /\ proxy \in [Nodes -> ReportsType]
      /\ building \in SUBSET Packages
  BY <1>1, NotifiedFacts
<1>3. (error => error') /\ (error' => ~valve') /\ (valve' => valve)
  BY <1>1, <1>2 DEF Fail
<1>4. Core(G', comp', Active, finished', successful', fails', remaining', error')
  BY <1>1, <1>2, CoreStays
<1>5. Active' = Active /\ Queued' = Queued
  BY <1>1 DEF Active, Queued
<1>6. NotKnown # NoTask /\ NotKnown \notin Packages /\ NoTask \notin Packages
  BY BuildMasterAssumption DEF NotKnown, NoTask
<1>7. /\ \A m \in Nodes : m # n => nodes'[m] = nodes[m] /\ proxy'[m] = proxy[m]
      /\ nodes'[n] = nodes[n] \/ (nodes[n] = NoTask /\ nodes'[n] = NotKnown)
      /\ proxy'[n] = Gone
  BY <1>1, <1>2 DEF NodesType
<1>8. Available(nodes', proxy') \subseteq Available(nodes, proxy)
  BY <1>6, <1>7, ReportsDiffer DEF Available
<1>9. WorkConserving'
  BY <1>1, <1>2, <1>3, <1>5, <1>8 DEF WorkConserving, Available
<1>10. Assigned(queue, building, nodes', proxy', error')
  <2>1. \A p \in building : \E m \in Nodes : nodes'[m] = p
    <3>1. TAKE p \in building
    <3>2. PICK m \in Nodes : nodes[m] = p
      BY <1>2 DEF Assigned
    <3>. QED BY <3>2, <1>2, <1>6, <1>7
  <2>2. \A k, m \in Nodes : nodes'[k] \in building /\ nodes'[m] = nodes'[k] => m = k
    BY <1>2, <1>6, <1>7 DEF Assigned
  <2>3. \A m \in Nodes : nodes'[m] \in Packages \ building =>
                           error' /\ proxy'[m] \notin {Busy, Building(nodes'[m])}
    BY <1>2, <1>3, <1>6, <1>7, ReportsDiffer DEF Assigned
  <2>. QED BY <2>1, <2>2, <2>3, <1>2 DEF Assigned
<1>11. LevelSpread' /\ FinishedUpToDate'
  BY <1>1 DEF IInv, LevelSpread, FinishedUpToDate, graph, progress
<1>12. Assigned(queue', building', nodes', proxy', error')
  BY <1>1, <1>10
<1>. QED BY <1>1, <1>2, <1>3, <1>4, <1>5, <1>9, <1>11, <1>12 DEF IInv

\* A node's report, by the state it shows.
LEMMA ReportInv ==
  ASSUME Foreign \cap Packages = {}, IInv, TypeOK', NEW n \in Nodes, NodeReports(n)
  PROVE  IInv'
<1>1. state = "idle"
  BY DEF NodeReports, NodeIdle, NodeMaintenance, NodeBuilding, NodeFinished, NodeFailed, Notified
<1>2. Assigned(queue, building, nodes, proxy, error)
  BY <1>1, NotifiedFacts
<1>3. CASE NodeIdle(n)
  <2>1. UNCHANGED <<task, graph, progress>>
    BY <1>3 DEF NodeIdle
  <2>2. CASE Fail /\ JustSchedule(n, Idle)
    BY <2>1, <2>2, <1>1, ReportsDiffer, JustScheduleInv
  <2>3. CASE /\ nodes[n] \notin Packages /\ UNCHANGED <<error, valve>>
             /\ Schedule(queue, building, [nodes EXCEPT ![n] = NoTask],
                         [proxy EXCEPT ![n] = Idle], pending)
    <3> DEFINE nds == [nodes EXCEPT ![n] = NoTask]
               prx == [proxy EXCEPT ![n] = Idle]
    <3>1. /\ queue \in [Packages -> Nat] /\ building \in SUBSET Packages
          /\ task' # "running" /\ (error' => ~valve') /\ pending \cap finished' = {}
      BY <2>1, <2>3, <1>1, NotifiedFacts DEF progress
    <3>2. nds \in NodesType /\ nds[n] = NoTask /\ NoTask \notin Packages
          /\ \A m \in Nodes : m # n => nds[m] = nodes[m] /\ prx[m] = proxy[m]
      BY <1>1, NotifiedFacts, BuildMasterAssumption DEF NodesType
    <3>3. Schedule(queue, building, nds, prx, pending) /\ error' = error
      BY <2>3
    <3> HIDE DEF nds, prx
    <3>4. Assigned(queue, building, nds, prx, error')
      <4>1. \A p \in building : \E m \in Nodes : nds[m] = p
        <5>1. TAKE p \in building
        <5>2. PICK m \in Nodes : nodes[m] = p
          BY <1>2 DEF Assigned
        <5>. QED BY <5>2, <2>3, <3>1, <3>2
      <4>2. \A k, m \in Nodes : nds[k] \in building /\ nds[m] = nds[k] => m = k
        BY <3>1, <3>2, <1>2 DEF Assigned
      <4>3. \A m \in Nodes : nds[m] \in Packages \ building =>
                               error' /\ prx[m] \notin {Busy, Building(nds[m])}
        BY <3>2, <3>3, <1>2 DEF Assigned
      <4>. QED BY <4>1, <4>2, <4>3, <1>2 DEF Assigned
    <3>5. Core(G', comp', UnderWay(queue, building), finished', successful', fails',
               remaining', error')
      BY <2>1, <2>3, <1>1, NotifiedFacts, CoreStays
    <3>6. UNCHANGED graph
      BY <2>1
    <3>. QED BY <3>1, <3>2, <3>3, <3>4, <3>5, <3>6, ScheduleInv
  <2>. QED BY <2>2, <2>3, <1>3 DEF NodeIdle
<1>4. CASE NodeMaintenance(n)
  <2>1. /\ UNCHANGED <<task, graph, progress>> /\ (Fail \/ UNCHANGED <<error, valve>>)
        /\ JustSchedule(n, Maintenance)
    BY <1>4 DEF NodeMaintenance
  <2>. QED BY <2>1, <1>1, ReportsDiffer, JustScheduleInv
<1>5. ASSUME NEW q \in Packages \cup Foreign, NodeBuilding(n, q) PROVE IInv'
  <2>1. Building(q) \in Reports(n) /\ UNCHANGED <<task, graph, progress>>
    BY <1>5 DEF NodeBuilding, Notified
  <2>2. q \in Packages => nodes[n] = q /\ q \in building
    BY <2>1, <1>2, OwnReport
  <2>3. nodes[n] \in Packages \ building => Building(q) \notin {Busy, Building(nodes[n])}
    <3>1. nodes[n] \in Packages \ building => q # nodes[n]
      BY <2>2
    <3>. QED BY <3>1, ReportsDiffer
  <2>4. CASE (Fail \/ UNCHANGED <<error, valve>>) /\ JustSchedule(n, Building(q))
    BY <2>1, <2>3, <2>4, <1>1, JustScheduleInv
  <2>5. CASE nodes[n] \notin {NoTask, ResetTask, q} /\ Requeue(n, q, Building(q))
    <3>1. Raised(n, Building(q)) /\ Building(q) # Idle
      BY <2>2, <2>5, ReportsDiffer DEF Requeue
    <3>. QED BY <2>1, <2>3, <3>1, <1>1, RaisedInv
  <2>. QED BY <2>4, <2>5, <1>5 DEF NodeBuilding
<1>6. ASSUME NEW q \in Packages \cup Foreign, NodeFinished(n, q) PROVE IInv'
  <2>1. Finished(q) \in Reports(n) /\ UNCHANGED <<task, graph>>
    BY <1>6 DEF NodeFinished, Notified
  <2>2. q \in Packages => nodes[n] = q /\ q \in building
    BY <2>1, <1>2, OwnReport
  <2>3. Finished(q) # Idle /\ Finished(q) \notin {Busy, Building(nodes[n])}
    BY ReportsDiffer
  <2>4. CASE nodes[n] = q /\ q \in building /\ Succeed(n, q)
    BY <2>1, <2>4, <1>1, SucceedInv
  <2>5. CASE UNCHANGED progress /\ Raised(n, Finished(q))
    BY <2>1, <2>3, <2>5, <1>1, RaisedInv
  <2>6. CASE UNCHANGED <<error, valve, progress>> /\ JustSchedule(n, Finished(q))
    BY <2>1, <2>3, <2>6, <1>1, JustScheduleInv
  <2>7. CASE nodes[n] \notin {NoTask, q} /\ UNCHANGED progress /\ Requeue(n, q, Finished(q))
    <3>1. Raised(n, Finished(q))
      BY <2>2, <2>7 DEF Requeue
    <3>. QED BY <2>1, <2>3, <2>7, <3>1, <1>1, RaisedInv
  <2>. QED BY <2>4, <2>5, <2>6, <2>7, <1>6 DEF NodeFinished
<1>7. ASSUME NEW q \in Packages \cup Foreign, NEW why \in Reasons, NodeFailed(n, q, why)
      PROVE  IInv'
  <2>1. Failed(q, why) \in Reports(n) /\ UNCHANGED <<task, graph>>
    BY <1>7 DEF NodeFailed, Notified
  <2>2. q \in Packages => nodes[n] = q /\ q \in building
    BY <2>1, <1>2, OwnReport
  <2>3. /\ Failed(q, why) # Idle /\ Failed(q, why) \notin {Busy, Building(nodes[n])}
        /\ Failed(q, why) \notin {Busy, Building(q)}
    BY ReportsDiffer
  <2>4. CASE nodes[n] = q /\ UNCHANGED progress /\ Requeue(n, q, Failed(q, why))
    <3>1. CASE q \in Packages
      BY <2>1, <2>2, <2>4, <3>1, <1>1, RequeueInv
    <3>2. CASE q \notin Packages
      <4>1. Raised(n, Failed(q, why))
        BY <2>4, <3>2 DEF Requeue
      <4>. QED BY <2>1, <2>3, <2>4, <4>1, <1>1, RaisedInv
    <3>. QED BY <3>1, <3>2
  <2>5. CASE /\ nodes[n] = q /\ q \in building /\ Fail /\ UNCHANGED progress
             /\ Schedule(queue, building \ {q}, nodes, [proxy EXCEPT ![n] = Failed(q, why)],
                         pending)
    BY <2>1, <2>3, <2>5, <1>1, AbortInv
  <2>6. CASE nodes[n] = q /\ q \in building /\ FailPackage(n, q)
    BY <2>1, <2>6, <1>1, FailInv
  <2>7. CASE UNCHANGED progress /\ Raised(n, Failed(q, why))
    BY <2>1, <2>3, <2>7, <1>1, RaisedInv
  <2>8. CASE UNCHANGED <<error, valve, progress>> /\ JustSchedule(n, Failed(q, why))
    BY <2>1, <2>3, <2>8, <1>1, JustScheduleInv
  <2>. QED BY <2>4, <2>5, <2>6, <2>7, <2>8, <1>7 DEF NodeFailed, FailedOwn
<1>. QED BY <1>3, <1>4, <1>5, <1>6, <1>7 DEF NodeReports

\* Every step keeps the invariant.
LEMMA InvStep ==
  ASSUME Foreign \cap Packages = {}, IInv, [Next]_vars
  PROVE  IInv'
<1>1. TypeOK'
  BY TypeStep DEF IInv
<1>2. CASE Start \/ ComputeInvalid \/ ComputeDies \/ Stop \/ Open \/ Close
  BY <1>1, <1>2, ClientsInv
<1>3. CASE ComputeDone
  BY <1>1, <1>3, ComputeInv
<1>4. ASSUME NEW n \in Nodes, NodeDiscovered(n) \/ NodeLost(n) \/ NodeReports(n)
      PROVE  IInv'
  BY <1>1, <1>4, DiscoveredInv, LostInv, ReportInv
<1>5. CASE UNCHANGED vars
  <2>1. /\ UNCHANGED <<state, task, error, valve, G, comp, remaining, queue, building,
                       finished, successful, fails, nodes, proxy, pending>>
    BY <1>5 DEF vars
  <2>2. /\ LevelSpread' /\ FinishedUpToDate' /\ Active' = Active
        /\ (WorkConserving <=> WorkConserving')
    BY <2>1 DEF IInv, LevelSpread, FinishedUpToDate, Active, Queued, WorkConserving, Available
  <2>. QED BY <2>1, <2>2, <1>1 DEF IInv
<1>. QED BY <1>2, <1>3, <1>4, <1>5 DEF Next

\* IInv is an invariant, if no other client builds an enabled package.
THEOREM Inductive ==
  ASSUME Foreign \cap Packages = {}
  PROVE  Spec => []IInv
<1>1. Init => IInv
  <2>1. SUFFICES ASSUME Init PROVE IInv
    OBVIOUS
  <2>2. TypeOK
    BY <2>1, InitType
  <2>3. LevelSpread /\ FinishedUpToDate
    BY <2>1 DEF Init, LevelSpread, FinishedUpToDate, NoComponents
  <2>. QED BY <2>1, <2>2, <2>3 DEF Init, IInv
<1>2. IInv /\ [Next]_vars => IInv'
  BY InvStep
<1>. QED BY <1>1, <1>2, PTL DEF Spec

-----------------------------------------------------------------------------
(* What follows from the invariant.                                        *)

\* Everything the invariant says of a state.
LEMMA InvImplies ==
  ASSUME IInv
  PROVE  /\ SingleFlight /\ DepsFirst /\ LevelSpread /\ TurnTaken
         /\ BuildingAssigned /\ WorkConserving /\ FinishedUpToDate /\ SetsDisjoint
<1>1. LevelSpread /\ FinishedUpToDate /\ WorkConserving
  BY DEF IInv, WorkConserving
<1>2. ASSUME state = "idle"
      PROVE  /\ SingleFlight /\ DepsFirst /\ TurnTaken /\ BuildingAssigned /\ SetsDisjoint
  <2>1. /\ Core(G, comp, Active, finished, successful, fails, remaining, error)
        /\ Assigned(queue, building, nodes, proxy, error) /\ TypeOK
        /\ queue \in [Packages -> Nat] /\ building \in SUBSET Packages
    BY <1>2, NotifiedFacts
  <2>2. SingleFlight
    <3>1. Queued \cap building = {} /\ \A p \in Packages : queue[p] <= 1
      BY <2>1 DEF Assigned, Queued
    <3>2. \A p, q \in Active : q \in comp[p] => p = q
      BY <2>1 DEF Core
    <3>. QED BY <3>1, <3>2 DEF SingleFlight
  <2>3. DepsFirst
    BY <2>1 DEF Core, DepsFirst
  <2>4. TurnTaken
    BY <2>1 DEF Core, TurnTaken
  <2>5. BuildingAssigned
    BY <2>1 DEF Assigned, BuildingAssigned
  <2>6. SetsDisjoint
    BY <2>1 DEF Core, SetsDisjoint
  <2>. QED BY <2>2, <2>3, <2>4, <2>5, <2>6
<1>3. ASSUME state # "idle"
      PROVE  /\ SingleFlight /\ DepsFirst /\ TurnTaken /\ BuildingAssigned /\ SetsDisjoint
  BY <1>3 DEF SingleFlight, DepsFirst, TurnTaken, BuildingAssigned, SetsDisjoint
<1>. QED BY <1>1, <1>2, <1>3

\* Packages that depend on each other are never built at a time, and nothing is
\* queued or assigned twice.
THEOREM NoTwoAtATime ==
  ASSUME Foreign \cap Packages = {}
  PROVE  Spec => []SingleFlight
<1>1. IInv => SingleFlight
  BY InvImplies
<1>. QED BY <1>1, Inductive, PTL

\* Packages are built after what they depend on.
THEOREM DependenciesFirst ==
  ASSUME Foreign \cap Packages = {}
  PROVE  Spec => []DepsFirst
<1>1. IInv => DepsFirst
  BY InvImplies
<1>. QED BY <1>1, Inductive, PTL

\* The packages of a component are never more than one level apart.
THEOREM RoundsStayTogether ==
  ASSUME Foreign \cap Packages = {}
  PROVE  Spec => []LevelSpread
<1>1. IInv => LevelSpread
  BY InvImplies
<1>. QED BY <1>1, Inductive, PTL

\* A build comes to rest only when it failed or when everything is finished.
THEOREM NobodyForgotten ==
  ASSUME Foreign \cap Packages = {}
  PROVE  Spec => []TurnTaken
<1>1. IInv => TurnTaken
  BY InvImplies
<1>. QED BY <1>1, Inductive, PTL

\* What is called building is being built by one node.
THEOREM OneNodePerBuild ==
  ASSUME Foreign \cap Packages = {}
  PROVE  Spec => []BuildingAssigned
<1>1. IInv => BuildingAssigned
  BY InvImplies
<1>. QED BY <1>1, Inductive, PTL

\* No entry waits while a node is idle and the valve open.
THEOREM NoIdleNodes ==
  ASSUME Foreign \cap Packages = {}
  PROVE  Spec => []WorkConserving
<1>1. IInv => WorkConserving
  BY InvImplies
<1>. QED BY <1>1, Inductive, PTL

\* Nothing outdates a package after its last build.
THEOREM FinishedStaysFinished ==
  ASSUME Foreign \cap Packages = {}
  PROVE  Spec => []FinishedUpToDate
<1>1. IInv => FinishedUpToDate
  BY InvImplies
<1>. QED BY <1>1, Inductive, PTL

\* What clients are shown does not overlap.
THEOREM DisjointSets ==
  ASSUME Foreign \cap Packages = {}
  PROVE  Spec => []SetsDisjoint
<1>1. IInv => SetsDisjoint
  BY InvImplies
<1>. QED BY <1>1, Inductive, PTL

-----------------------------------------------------------------------------
(* What a step may not do.                                                 *)

\* _schedule binds packages only while the valve is open.
LEMMA ScheduleBinds ==
  ASSUME NEW q, NEW bld, NEW nds, NEW prx, NEW pend, Schedule(q, bld, nds, prx, pend),
         ~valve'
  PROVE  building' = bld
<1>1. PICK b \in Prefixes(q, {}) : building' = bld \cup {b[n] : n \in DOMAIN b}
  BY DEF Schedule, Bind
<1>2. DOMAIN b = {}
  BY DEF Prefixes
<1>. QED BY <1>1, <1>2

\* With the valve closed no step adds to the building set.
LEMMA ClosedBuildsNothing ==
  ASSUME [Next]_vars, ~valve'
  PROVE  building' \subseteq building
<1>1. CASE Start \/ ComputeInvalid \/ ComputeDies \/ Stop \/ Close
  BY <1>1 DEF Start, ComputeInvalid, ComputeDies, Stop, StopBuild, Close
<1>2. CASE ComputeDone
  <2>1. PICK q, pend : Schedule(q, {}, nodes, proxy, pend)
    BY <1>2 DEF ComputeDone
  <2>. QED BY <2>1, ScheduleBinds
<1>3. CASE Open
  BY <1>3 DEF Open
<1>4. ASSUME NEW n \in Nodes, NodeDiscovered(n) PROVE building' \subseteq building
  <2>1. PICK s : Schedule(queue, building, [nodes EXCEPT ![n] = NoTask],
                          [proxy EXCEPT ![n] = s], pending)
    BY <1>4 DEF NodeDiscovered
  <2>. QED BY <2>1, ScheduleBinds
<1>5. ASSUME NEW n \in Nodes, NodeLost(n) PROVE building' \subseteq building
  BY <1>5 DEF NodeLost
<1>6. ASSUME NEW n \in Nodes, NodeReports(n) PROVE building' \subseteq building
  <2>1. ASSUME NEW r, JustSchedule(n, r) PROVE building' \subseteq building
    BY <2>1, ScheduleBinds DEF JustSchedule
  <2>2. ASSUME NEW r, Raised(n, r) PROVE building' \subseteq building
    BY <2>2 DEF Raised
  <2>3. ASSUME NEW r, NEW q, Requeue(n, q, r) PROVE building' \subseteq building
    <3>1. CASE q \in Packages
      <4>1. Schedule(Enqueue(queue, {q}), building \ {q}, [nodes EXCEPT ![n] = NoTask],
                     [proxy EXCEPT ![n] = r], pending)
        BY <3>1, <2>3 DEF Requeue
      <4>. QED BY <4>1, ScheduleBinds
    <3>2. CASE q \notin Packages
      BY <3>2, <2>2, <2>3 DEF Requeue
    <3>. QED BY <3>1, <3>2
  <2>4. ASSUME NEW q, NEW q2, NEW nds, NEW prx, NEW pend,
               Schedule(q2, building \ {q}, nds, prx, pend)
        PROVE  building' \subseteq building
    BY <2>4, ScheduleBinds
  <2>5. CASE NodeIdle(n)
    BY <2>1, <2>5, ScheduleBinds DEF NodeIdle
  <2>6. CASE NodeMaintenance(n)
    BY <2>1, <2>6 DEF NodeMaintenance
  <2>7. ASSUME NEW q, NodeBuilding(n, q) PROVE building' \subseteq building
    BY <2>1, <2>3, <2>7 DEF NodeBuilding
  <2>8. ASSUME NEW q, NodeFinished(n, q) PROVE building' \subseteq building
    <3>1. CASE Succeed(n, q)
      <4>1. PICK K : Schedule(Enqueue(queue, K), building \ {q}, [nodes EXCEPT ![n] = ResetTask],
                              [proxy EXCEPT ![n] = Busy], pending \ {q})
        BY <3>1 DEF Succeed
      <4>. QED BY <4>1, <2>4
    <3>. QED BY <3>1, <2>1, <2>2, <2>3, <2>8 DEF NodeFinished
  <2>9. ASSUME NEW q, NEW why, NodeFailed(n, q, why) PROVE building' \subseteq building
    <3>1. CASE FailPackage(n, q)
      <4>1. PICK K : Schedule(Enqueue(queue, K), building \ {q}, [nodes EXCEPT ![n] = ResetTask],
                              [proxy EXCEPT ![n] = Busy], pending)
        BY <3>1 DEF FailPackage
      <4>. QED BY <4>1, <2>4
    <3>2. CASE Schedule(queue, building \ {q}, nodes, [proxy EXCEPT ![n] = Failed(q, why)],
                        pending)
      BY <3>2, <2>4
    <3>. QED BY <3>1, <3>2, <2>1, <2>2, <2>3, <2>9 DEF NodeFailed, FailedOwn
  <2>. QED BY <2>5, <2>6, <2>7, <2>8, <2>9, <1>6 DEF NodeReports
<1>7. CASE UNCHANGED vars
  BY <1>7 DEF vars
<1>. QED BY <1>1, <1>2, <1>3, <1>4, <1>5, <1>6, <1>7 DEF Next

\* No build begins in a step that leaves the valve closed or an error present.
THEOREM StartsWhenOpen ==
  ASSUME Foreign \cap Packages = {}
  PROVE  Spec => StartsOnlyWhenOpen
<1>1. IInv' /\ [Next]_vars => [building' \ building # {} => valve' /\ ~error']_vars
  BY ClosedBuildsNothing DEF IInv
<1>. QED BY <1>1, Inductive, PTL DEF Spec, StartsOnlyWhenOpen

\* While the build is not stopped, no handler takes back an error or a result.
LEMMA HandlersKeepResults ==
  ASSUME TypeOK, [Next]_vars, state = "idle", state' # "off"
  PROVE  /\ error => error'
         /\ finished \subseteq finished'
         /\ \A p \in Packages : successful[p] <= successful'[p]
<1> DEFINE Kept == /\ error => error'
                   /\ finished \subseteq finished'
                   /\ \A p \in Packages : successful[p] <= successful'[p]
<1>0. /\ successful \in [Packages -> Nat] /\ building \subseteq Packages
  BY DEF TypeOK
<1>1. ASSUME UNCHANGED progress, Fail \/ UNCHANGED <<error, valve>> PROVE Kept
  BY <1>0, <1>1 DEF progress, Fail
<1>2. ~Start /\ ~ComputeDone /\ ~ComputeInvalid /\ ~ComputeDies /\ ~Stop
  BY DEF Start, ComputeDone, ComputeInvalid, ComputeDies, Stop, StopBuild
<1>3. CASE Open
  BY <1>0, <1>3 DEF Open, progress
<1>4. CASE Close
  BY <1>0, <1>4 DEF Close, progress
<1>5. ASSUME NEW n \in Nodes, NodeDiscovered(n) \/ NodeLost(n) PROVE Kept
  <2>1. UNCHANGED progress /\ (Fail \/ UNCHANGED <<error, valve>>)
    BY <1>5 DEF NodeDiscovered, NodeLost
  <2>. QED BY <2>1, <1>1
<1>6. ASSUME NEW n \in Nodes, NodeReports(n) PROVE Kept
  <2>1. ASSUME NEW q, NEW r, Requeue(n, q, r) PROVE UNCHANGED <<error, valve>>
    BY <2>1 DEF Requeue, Raised
  <2>2. CASE NodeIdle(n) \/ NodeMaintenance(n)
    <3>1. UNCHANGED progress /\ (Fail \/ UNCHANGED <<error, valve>>)
      BY <2>2 DEF NodeIdle, NodeMaintenance
    <3>. QED BY <3>1, <1>1
  <2>3. ASSUME NEW q, NodeBuilding(n, q) PROVE Kept
    <3>1. UNCHANGED progress /\ (Fail \/ UNCHANGED <<error, valve>>)
      BY <2>1, <2>3 DEF NodeBuilding
    <3>. QED BY <3>1, <1>1
  <2>4. ASSUME NEW q, NodeFinished(n, q) PROVE Kept
    <3>1. CASE q \in building /\ Succeed(n, q)
      <4>1. /\ successful' = [successful EXCEPT ![q] = @ + 1]
            /\ finished \subseteq finished' /\ UNCHANGED <<error, valve>>
        BY <3>1 DEF Succeed
      <4>. QED BY <4>1, <3>1, <1>0
    <3>2. CASE UNCHANGED progress /\ (Raised(n, Finished(q)) \/ UNCHANGED <<error, valve>>
                                      \/ Requeue(n, q, Finished(q)))
      <4>1. UNCHANGED <<error, valve>>
        BY <3>2, <2>1 DEF Raised
      <4>. QED BY <4>1, <3>2, <1>1
    <3>. QED BY <3>1, <3>2, <2>4 DEF NodeFinished
  <2>5. ASSUME NEW q, NEW why, NodeFailed(n, q, why) PROVE Kept
    <3>1. CASE FailPackage(n, q)
      <4>1. /\ UNCHANGED <<finished, successful>>
            /\ Fail \/ UNCHANGED <<error, valve>>
        BY <3>1 DEF FailPackage
      <4>. QED BY <4>1, <1>0 DEF Fail
    <3>2. CASE UNCHANGED progress /\ (Raised(n, Failed(q, why)) \/ UNCHANGED <<error, valve>>
                                      \/ Requeue(n, q, Failed(q, why)) \/ Fail)
      <4>1. Fail \/ UNCHANGED <<error, valve>>
        BY <3>2, <2>1 DEF Raised
      <4>. QED BY <4>1, <3>2, <1>1
    <3>. QED BY <3>1, <3>2, <2>5 DEF NodeFailed, FailedOwn
  <2>. QED BY <2>2, <2>3, <2>4, <2>5, <1>6 DEF NodeReports
<1>7. CASE UNCHANGED vars
  BY <1>0, <1>7 DEF vars
<1>. QED BY <1>2, <1>3, <1>4, <1>5, <1>6, <1>7 DEF Next

\* Errors and results stay until the build is stopped.
THEOREM ResultsAreKept == Spec => ResultsStay
<1>1. TypeOK /\ [Next]_vars =>
        [state = "idle" /\ state' # "off" =>
           /\ error => error'
           /\ finished \subseteq finished'
           /\ \A p \in Packages : successful[p] <= successful'[p]]_vars
  BY HandlersKeepResults
<1>. QED BY <1>1, TypeCorrect, PTL DEF Spec, ResultsStay

-----------------------------------------------------------------------------
(* The controller implements BuildOrder.                                   *)

\* While a build is under way, the stored components are those of its graph.
ComponentsOfGraph == state = "idle" => comp = Components(G)

\* A step that leaves the controller idle keeps the graph, or is the end of the
\* graph computation.
LEMMA GraphStays ==
  ASSUME [Next]_vars, state' = "idle"
  PROVE  \/ state = "idle" /\ UNCHANGED graph
         \/ ComputeDone
<1>1. CASE ComputeDone
  BY <1>1
<1>2. CASE Start \/ ComputeInvalid \/ ComputeDies \/ Stop \/ Open \/ Close
  BY <1>2 DEF Start, ComputeInvalid, ComputeDies, Stop, StopBuild, Open, Close
<1>3. ASSUME NEW n \in Nodes, NodeDiscovered(n) \/ NodeLost(n) \/ NodeReports(n)
      PROVE  state = "idle" /\ UNCHANGED graph
  BY <1>3 DEF NodeDiscovered, NodeLost, NodeReports, NodeIdle, NodeMaintenance, NodeBuilding,
              NodeFinished, NodeFailed, Notified
<1>4. CASE UNCHANGED vars
  BY <1>4 DEF vars, graph
<1>. QED BY <1>1, <1>2, <1>3, <1>4 DEF Next

\* The stored components are right.
LEMMA ComponentsRight ==
  ASSUME ComponentsOfGraph, [Next]_vars
  PROVE  ComponentsOfGraph'
<1>1. SUFFICES ASSUME state' = "idle" PROVE comp' = Components(G')
  BY DEF ComponentsOfGraph
<1>2. CASE state = "idle" /\ UNCHANGED graph
  BY <1>2 DEF ComponentsOfGraph, graph
<1>3. CASE ComputeDone
  BY <1>3 DEF ComputeDone
<1>. QED BY <1>1, <1>2, <1>3, GraphStays

-----------------------------------------------------------------------------
(* Packages under way.                                                     *)

\* _schedule, when it completes, moves packages from the queue to the building set.
LEMMA ScheduleMoves ==
  ASSUME NEW q \in [Packages -> Nat], NEW bld \in SUBSET Packages,
         NEW nds, NEW prx, NEW pend, Schedule(q, bld, nds, prx, pend), state' = "idle"
  PROVE  Active' = UnderWay(q, bld)
<1> DEFINE available == IF valve' THEN Available(nds, prx) ELSE {}
<1>1. available \subseteq Nodes
  BY DEF Available
<1>2. PICK b \in Prefixes(q, available) :
        /\ building' = bld \cup {b[n] : n \in DOMAIN b}
        /\ queue' = [p \in Packages |-> q[p] - Taken(b, p)]
  BY DEF Schedule, Bind
<1> HIDE DEF available
<1>3. \A p \in Packages : Taken(b, p) \in Nat /\ Taken(b, p) <= q[p]
  BY <1>1, TakenType DEF Prefixes
<1>4. \A p \in Packages : Taken(b, p) > 0 <=> \E n \in DOMAIN b : b[n] = p
  <2>1. TAKE p \in Packages
  <2> DEFINE On == {n \in DOMAIN b : b[n] = p}
  <2>2. On \in SUBSET Nodes
    BY <1>1 DEF Prefixes
  <2>3. IsFiniteSet(On) /\ Taken(b, p) = Cardinality(On)
    BY <2>2, FS_Subset, BuildMasterAssumption DEF Taken
  <2>4. Taken(b, p) = 0 <=> On = {}
    BY <2>3, FS_EmptySet
  <2>. QED BY <2>4, <1>3
<1>5. \A n \in DOMAIN b : b[n] \in Packages
  BY DEF Prefixes
<1>6. Active' = {p \in Packages : queue'[p] > 0} \cup building'
  BY DEF Active, Queued
<1>7. \A p \in Packages : p \in Active' <=> p \in UnderWay(q, bld)
  <2>1. TAKE p \in Packages
  <2>2. queue'[p] = q[p] - Taken(b, p) /\ Taken(b, p) \in Nat /\ Taken(b, p) <= q[p]
        /\ q[p] \in Nat
    BY <1>2, <1>3
  <2>3. p \in building' <=> p \in bld \/ Taken(b, p) > 0
    BY <1>2, <1>4
  <2>4. queue'[p] > 0 \/ Taken(b, p) > 0 <=> q[p] > 0
    BY <2>2
  <2>. QED BY <2>3, <2>4, <1>6 DEF UnderWay
<1>8. Active' \subseteq Packages /\ UnderWay(q, bld) \subseteq Packages
  BY <1>2, <1>5, <1>6 DEF UnderWay
<1>. QED BY <1>7, <1>8

\* What a handler does to the packages under way and to the levels.
Same == Active' = Active /\ successful' = successful

Attempt(p) ==
  /\ p \in Active /\ Active \ {p} \subseteq Active'
  /\ successful' = successful \/ successful' = [successful EXCEPT ![p] = @ + 1]

\* A handler changes nothing about them, or ends the attempt at one package.
LEMMA OneAttempt ==
  ASSUME Foreign \cap Packages = {}, IInv, [Next]_vars, state = "idle", state' = "idle"
  PROVE  Same \/ \E p \in Packages : Attempt(p)
<1>1. /\ queue \in [Packages -> Nat] /\ building \in SUBSET Packages
      /\ Active = UnderWay(queue, building)
      /\ Assigned(queue, building, nodes, proxy, error)
      /\ successful \in [Packages -> Nat]
  BY NotifiedFacts DEF TypeOK
<1>2. ASSUME NEW nds, NEW prx, NEW pend, UNCHANGED progress,
             Schedule(queue, building, nds, prx, pend)
      PROVE  Same
  BY <1>1, <1>2, ScheduleMoves DEF Same, progress
<1>3. ASSUME UNCHANGED <<progress, queue, building>> PROVE Same
  BY <1>3 DEF Same, progress, Active, Queued
<1>4. ~Start /\ ~ComputeDone /\ ~ComputeInvalid /\ ~ComputeDies /\ ~Stop
  BY DEF Start, ComputeDone, ComputeInvalid, ComputeDies, Stop, StopBuild
<1>5. CASE Open
  BY <1>2, <1>5 DEF Open
<1>6. CASE Close
  BY <1>3, <1>6 DEF Close
<1>7. ASSUME NEW n \in Nodes, NodeDiscovered(n) PROVE Same
  <2>1. PICK s : Schedule(queue, building, [nodes EXCEPT ![n] = NoTask],
                          [proxy EXCEPT ![n] = s], pending)
    BY <1>7 DEF NodeDiscovered
  <2>. QED BY <2>1, <1>2, <1>7 DEF NodeDiscovered
<1>8. ASSUME NEW n \in Nodes, NodeLost(n) PROVE Same
  BY <1>3, <1>8 DEF NodeLost
<1>9. ASSUME NEW n \in Nodes, NodeReports(n) PROVE Same \/ \E p \in Packages : Attempt(p)
  <2>1. ASSUME NEW r, UNCHANGED progress, JustSchedule(n, r) PROVE Same
    BY <2>1, <1>2 DEF JustSchedule
  <2>2. ASSUME NEW r, UNCHANGED progress, Raised(n, r) PROVE Same
    BY <2>2, <1>3 DEF Raised
  <2>3. ASSUME NEW r, NEW q, q \in Packages => q \in building,
               UNCHANGED progress, Requeue(n, q, r)
        PROVE  Same
    <3>1. CASE q \notin Packages
      BY <3>1, <2>2, <2>3 DEF Requeue
    <3>2. CASE q \in Packages
      <4>1. Schedule(Enqueue(queue, {q}), building \ {q}, [nodes EXCEPT ![n] = NoTask],
                     [proxy EXCEPT ![n] = r], pending)
        BY <3>2, <2>3 DEF Requeue
      <4>2. /\ Enqueue(queue, {q}) \in [Packages -> Nat]
            /\ UnderWay(Enqueue(queue, {q}), building \ {q}) = Active
        BY <3>2, <1>1, <2>3 DEF Enqueue, UnderWay
      <4>3. Active' = Active
        BY <4>1, <4>2, <1>1, ScheduleMoves
      <4>. QED BY <4>3, <2>3 DEF Same, progress
    <3>. QED BY <3>1, <3>2
  <2>4. ASSUME NEW q \in building, NEW K, NEW nds, NEW prx, NEW pend,
               Schedule(Enqueue(queue, K), building \ {q}, nds, prx, pend),
               \/ successful' = successful \/ successful' = [successful EXCEPT ![q] = @ + 1]
        PROVE  \E p \in Packages : Attempt(p)
    <3>1. /\ Enqueue(queue, K) \in [Packages -> Nat]
          /\ Active \ {q} \subseteq UnderWay(Enqueue(queue, K), building \ {q})
          /\ q \in Active /\ q \in Packages
      BY <1>1 DEF Enqueue, UnderWay
    <3>2. Active \ {q} \subseteq Active'
      BY <3>1, <2>4, <1>1, ScheduleMoves
    <3>. QED BY <3>1, <3>2, <2>4 DEF Attempt
  <2>5. CASE NodeIdle(n) \/ NodeMaintenance(n)
    BY <2>1, <2>5, <1>2 DEF NodeIdle, NodeMaintenance
  <2>6. ASSUME NEW q \in Packages \cup Foreign, NodeBuilding(n, q) PROVE Same
    <3>1. q \in Packages => q \in building
      BY <2>6, <1>1, OwnReport DEF NodeBuilding, Notified
    <3>. QED BY <3>1, <2>1, <2>3, <2>6 DEF NodeBuilding
  <2>7. ASSUME NEW q \in Packages \cup Foreign, NodeFinished(n, q)
        PROVE  Same \/ \E p \in Packages : Attempt(p)
    <3>1. q \in Packages => q \in building
      BY <2>7, <1>1, OwnReport DEF NodeFinished, Notified
    <3>2. CASE q \in building /\ Succeed(n, q)
      <4>1. PICK K : Schedule(Enqueue(queue, K), building \ {q}, [nodes EXCEPT ![n] = ResetTask],
                              [proxy EXCEPT ![n] = Busy], pending \ {q})
        BY <3>2 DEF Succeed
      <4>2. successful' = [successful EXCEPT ![q] = @ + 1]
        BY <3>2 DEF Succeed
      <4>. QED BY <4>1, <4>2, <3>2, <2>4
    <3>. QED BY <3>1, <3>2, <2>1, <2>2, <2>3, <2>7 DEF NodeFinished
  <2>8. ASSUME NEW q \in Packages \cup Foreign, NEW why \in Reasons, NodeFailed(n, q, why)
        PROVE  Same \/ \E p \in Packages : Attempt(p)
    <3>1. q \in Packages => q \in building
      BY <2>8, <1>1, OwnReport DEF NodeFailed, Notified
    <3>2. CASE q \in building /\ FailPackage(n, q)
      <4>1. PICK K : Schedule(Enqueue(queue, K), building \ {q}, [nodes EXCEPT ![n] = ResetTask],
                              [proxy EXCEPT ![n] = Busy], pending)
        BY <3>2 DEF FailPackage
      <4>2. successful' = successful
        BY <3>2 DEF FailPackage
      <4>. QED BY <4>1, <4>2, <3>2, <2>4
    <3>3. CASE /\ q \in building /\ UNCHANGED progress
               /\ Schedule(queue, building \ {q}, nodes, [proxy EXCEPT ![n] = Failed(q, why)],
                           pending)
      <4>1. Enqueue(queue, {}) = queue
        BY <1>1 DEF Enqueue
      <4>2. successful' = successful
        BY <3>3 DEF progress
      <4>. QED BY <4>1, <4>2, <3>3, <2>4
    <3>. QED BY <3>1, <3>2, <3>3, <2>1, <2>2, <2>3, <2>8 DEF NodeFailed, FailedOwn
  <2>. QED BY <2>5, <2>6, <2>7, <2>8, <1>9 DEF NodeReports
<1>10. CASE UNCHANGED vars
  BY <1>3, <1>10 DEF vars, progress
<1>. QED BY <1>4, <1>5, <1>6, <1>7, <1>8, <1>9, <1>10 DEF Next

-----------------------------------------------------------------------------
(* Steps of BuildOrder.                                                    *)

\* The packages that get their turn may begin, if the others were under way.
LEMMA TurnsAreBatch ==
  ASSUME NEW g \in DependencyGraphs, NEW cs, cs = Components(g),
         NEW A, A \subseteq Packages,
         NEW fin, fin \subseteq Packages,
         NEW succ \in [Packages -> Nat], NEW fl, NEW rem, NEW err,
         Core(g, cs, A, fin, succ, fl, rem, err),
         NEW B, B \subseteq A
  PROVE  Order!Batch(A \ B, g, succ, B)
<1>1. /\ Partition(cs) /\ Counted(cs, fin, succ)
      /\ \A p \in A : p \in Choosable(cs[p], succ, fl) /\ p \notin fin
      /\ \A p, q \in A : q \in cs[p] => p = q
      /\ \A p \in A : \A W \in Parents(g, cs, cs[p]) : W \subseteq fin
  BY DEF Core
<1>2. cs = Order!Components(g) /\ \A p \in Packages : cs[p] = Order!SCC(g, p)
  BY DEF Components, Order!Components, SCC, Order!SCC, Reach, Order!Reach, Closed, Order!Closed
<1>3. fin = Order!Done(cs, succ)
  BY <1>1 DEF Order!Done, Counted, Rounds
<1>4. \A C : Parents(g, cs, C) = Order!Parents(g, cs, C)
  BY DEF Parents, Order!Parents
<1>5. ASSUME NEW p \in A \ B PROVE Order!MayBegin(g, p, succ, B)
  <2>1. \A W \in Order!Parents(g, cs, cs[p]) : W \subseteq Order!Done(cs, succ)
    BY <1>1, <1>3, <1>4
  <2>2. p \notin Order!Done(cs, succ) /\ \A q \in cs[p] : succ[p] <= succ[q]
    BY <1>1, <1>3 DEF Choosable
  <2>3. cs[p] \cap B = {}
    BY <1>1
  <2>. QED BY <2>1, <2>2, <2>3, <1>2 DEF Order!MayBegin
<1>6. \A p, q \in A \ B : q \in Order!SCC(g, p) => p = q
  BY <1>1, <1>2
<1>. QED BY <1>5, <1>6 DEF Order!Batch

\* Every step of the controller is one of BuildOrder, or none.
LEMMA StepOrder ==
  ASSUME Foreign \cap Packages = {}, IInv, IInv', ComponentsOfGraph, ComponentsOfGraph',
         [Next]_vars
  PROVE  [Order!Next]_(Order!vars)
<1>1. TypeOK /\ TypeOK'
  BY DEF IInv
<1>2. CASE state # "idle" /\ state' # "idle"
  <2>1. UNCHANGED Order!vars
    BY <1>2 DEF Order!vars, IsRunning
  <2>. QED BY <2>1
<1>3. CASE state = "idle" /\ state' # "idle"
  <2>1. Order!End
    BY <1>3 DEF Order!End, Order!Nothing, Order!Zero, IsRunning, NoGraph, Zero
  <2>. QED BY <2>1 DEF Order!Next
<1>4. CASE state # "idle" /\ state' = "idle"
  <2>1. ComputeDone
    BY <1>4, GraphStays
  <2>2. successful' = Zero
    BY <2>1 DEF ComputeDone
  <2>3. /\ Core(G', comp', Active', finished', successful', fails', remaining', error')
        /\ comp' = Components(G') /\ G' \in DependencyGraphs
        /\ Active' \subseteq Packages /\ finished' \subseteq Packages
        /\ successful' \in [Packages -> Nat]
    BY <1>1, <1>4 DEF IInv, ComponentsOfGraph, TypeOK, Active, Queued
  <2>4. Order!Batch(Active' \ {}, G', Zero, {})
    BY <2>2, <2>3, TurnsAreBatch
  <2>5. Active' \ {} = Active'
    OBVIOUS
  <2>6. Order!Zero = Zero /\ G' \in Order!DependencyGraphs
    BY <2>3 DEF Order!Zero, Zero, DependencyGraphs, Order!DependencyGraphs
  <2>7. Order!Begin
    BY <1>4, <2>2, <2>3, <2>4, <2>5, <2>6 DEF Order!Begin, IsRunning
  <2>. QED BY <2>7 DEF Order!Next
<1>5. CASE state = "idle" /\ state' = "idle"
  <2>1. UNCHANGED graph
    <3>1. ~ComputeDone
      BY <1>5 DEF ComputeDone
    <3>. QED BY <3>1, <1>5, GraphStays
  <2>2. CASE Same
    <3>1. UNCHANGED Order!vars
      BY <1>5, <2>1, <2>2 DEF Order!vars, IsRunning, Same, graph
    <3>. QED BY <3>1
  <2>3. ASSUME NEW p \in Packages, Attempt(p) PROVE Order!Next
    <3> DEFINE B == Active \ {p}
    <3>1. /\ Core(G', comp', Active', finished', successful', fails', remaining', error')
          /\ comp' = Components(G') /\ G' \in DependencyGraphs
          /\ Active' \subseteq Packages /\ finished' \subseteq Packages
          /\ successful' \in [Packages -> Nat]
      BY <1>1, <1>5 DEF IInv, ComponentsOfGraph, TypeOK, Active, Queued
    <3>2. B \subseteq Active' /\ p \in Active /\ G' = G
      BY <2>1, <2>3 DEF Attempt, graph
    <3>3. Order!Batch(Active' \ B, G, successful', B)
      <4> HIDE DEF B
      <4>. QED BY <3>1, <3>2, TurnsAreBatch
    <3>4. Active' = B \cup (Active' \ B) /\ (Active' \ B) \in SUBSET Packages
      BY <3>1, <3>2
    <3>5. successful' \in {successful, [successful EXCEPT ![p] = @ + 1]}
      BY <2>3 DEF Attempt
    <3>6. Order!Attempted(p)
      BY <1>5, <3>2, <3>3, <3>4, <3>5 DEF Order!Attempted, IsRunning
    <3>. QED BY <3>6 DEF Order!Next
  <2>. QED BY <2>2, <2>3, <1>5, OneAttempt
<1>. QED BY <1>2, <1>3, <1>4, <1>5

\* The controller implements BuildOrder, if no other client builds one of the
\* enabled packages.
THEOREM BuildsInOrder ==
  ASSUME Foreign \cap Packages = {}
  PROVE  Spec => ImplementsOrder
<1>1. Init => Order!Init /\ ComponentsOfGraph
  BY DEF Init, Order!Init, Order!Nothing, Order!Zero, IsRunning, NoGraph, Zero,
         ComponentsOfGraph
<1>2. ComponentsOfGraph /\ [Next]_vars => ComponentsOfGraph'
  BY ComponentsRight
<1>3. /\ IInv /\ IInv' /\ ComponentsOfGraph /\ ComponentsOfGraph' /\ [Next]_vars
      => [Order!Next]_(Order!vars)
  BY StepOrder
<1>. QED BY <1>1, <1>2, <1>3, Inductive, PTL DEF Spec, ImplementsOrder, Order!Spec

-----------------------------------------------------------------------------
(* What the clients see: the inductive invariant.                          *)

Commands == Domains \cup {"identify", "subscribe"}
UpMessages == [to : Nat, cmd : Commands]

\* What is told: a set of packages, the queue, the nodes or the state.
Values ==
  {"none", "not followed"} \cup (SUBSET Packages) \cup [Packages -> Nat]
    \cup [idle : SUBSET Nodes, busy : SUBSET Nodes]
    \cup [st : {"off", "idle", "computing", "building"}, error : BOOLEAN, valve : BOOLEAN]
DownMessages == [from : Nat, domain : Domains \cup {"none"}, value : Values]

ViewTypeOK ==
  /\ TypeOK
  /\ alive \in BOOLEAN /\ incarnation \in Nat \ {0} /\ subscription \in 0 .. NotSubscribed
  /\ followed \in Domains /\ copy \in Values
  /\ selected \in BOOLEAN /\ green \in BOOLEAN /\ address \in 0 .. incarnation
  /\ sinceRefresh \in 0 .. RefreshAfter /\ sinceSearch \in 0 .. SearchAfter - 1
  /\ sinceResponse \in 0 .. Responds /\ calm \in 0 .. Settled /\ trouble \in Nat
  /\ selected => address # 0
  /\ up \in Seq(UpMessages) /\ down \in Seq(DownMessages)
  /\ \A i \in 1 .. Len(up) : up[i].to <= incarnation
  /\ \A i \in 1 .. Len(down) : down[i].from \in 1 .. incarnation

\* No trouble means no restart.
FirstRun == trouble = 0 => alive /\ incarnation = 1

\* What is under way comes from the process that runs, unless there was trouble just now.
FromIt == trouble = 0 \/ calm >= 1 => \A i \in 1 .. Len(down) : down[i].from = incarnation

Dead == ~alive /\ calm >= 1 => /\ down = <<>>
                               /\ sinceResponse >= calm \/ sinceResponse = Responds

\* The requests that are under way to the master.
AskedIt(c) == {i \in 1 .. Len(up) : up[i].to \in {0, incarnation} /\ up[i].cmd = c}

\* The master will be heard in this second.
Pending == AskedIt("identify") # {} \/ down # <<>>

\* After one search the client knows the master, after another one the LED is green.
Heard == address = incarnation /\ sinceResponse <= sinceSearch
FindsIt == alive /\ calm > sinceSearch => Heard \/ (sinceSearch = 0 /\ Pending)
HearsIt ==
  alive /\ calm > sinceSearch + SearchAfter =>
    /\ address = incarnation /\ sinceResponse < Responds
    /\ selected => green \/ Pending
GreenRight == green => selected /\ IsResponding(sinceResponse)

\* Whether v shows t, which is the truth about domain d.
Fits(d, v, t) == IF d = "nodes" THEN t.idle \subseteq v.idle /\ t.busy \subseteq v.busy ELSE v = t

\* Messages that do not speak of d, and messages of which the last that does tells t.
Mute(d, q) == \A i \in 1 .. Len(q) : q[i].domain # d
Ends(d, q, t) == \E i \in 1 .. Len(q) : /\ q[i].domain = d /\ Fits(d, q[i].value, t)
                                        /\ \A j \in i + 1 .. Len(q) : q[j].domain # d

\* The client has asked for everything since the last trouble.
Certain == selected /\ alive /\ address = incarnation /\ (trouble = 0 \/ sinceRefresh < calm)

\* The master will subscribe the client before it answers.
WillAnswer ==
  \E i \in AskedIt(followed) :
    subscription # NotSubscribed \/ \E j \in AskedIt("subscribe") : j < i

\* What the client will know once all has arrived.
Told(t) == Ends(followed, down, t) \/ (Mute(followed, down) /\ Fits(followed, copy, t))

InSync ==
  Certain => \/ WillAnswer
             \/ subscription # NotSubscribed /\ (Leftover \/ Told(Truth[followed]))
Remembered == Certain => AskedIt("subscribe") # {} \/ subscription <= sinceRefresh

ViewInv ==
  /\ ViewTypeOK /\ FirstRun /\ FromIt /\ Dead /\ FindsIt /\ HearsIt /\ GreenRight
  /\ InSync /\ Remembered

\* The constants are numbers.
LEMMA Times ==
  /\ RefreshAfter \in Nat /\ SearchAfter \in Nat /\ Responds \in Nat /\ Expires \in Nat
  /\ MaxFlight \in Nat /\ MaxTrouble \in Nat
  /\ 0 < SearchAfter /\ SearchAfter <= RefreshAfter
  /\ RefreshAfter + 1 < Responds /\ Responds <= Expires
  /\ NotSubscribed = Expires + 1 /\ Settled = Responds + SearchAfter
BY ClientViewAssumption DEF NotSubscribed, Settled

-----------------------------------------------------------------------------
(* What is said about a domain.                                            *)

\* What is left of a queue of messages.
LEMMA Rest ==
  ASSUME NEW S, NEW q \in Seq(S), q # <<>>
  PROVE  /\ q[1] \in S /\ Head(q) = q[1] /\ Len(q) \in Nat /\ Len(q) >= 1
         /\ Tail(q) \in Seq(S) /\ Len(Tail(q)) = Len(q) - 1
         /\ \A i \in 1 .. Len(q) - 1 : Tail(q)[i] = q[i + 1]
OBVIOUS

\* Where the messages are when more are sent.
LEMMA More ==
  ASSUME NEW S, NEW q \in Seq(S), NEW r \in Seq(S)
  PROVE  /\ q \o r \in Seq(S) /\ Len(q) \in Nat /\ Len(r) \in Nat
         /\ Len(q \o r) = Len(q) + Len(r)
         /\ \A i \in 1 .. Len(q) : (q \o r)[i] = q[i]
         /\ \A i \in 1 .. Len(r) : (q \o r)[Len(q) + i] = r[i]
OBVIOUS

\* Each message of a longer queue is one of the old or of the new ones.
LEMMA MoreOf ==
  ASSUME NEW S, NEW q \in Seq(S), NEW r \in Seq(S)
  PROVE  \A i \in 1 .. Len(q \o r) :
           \/ i \in 1 .. Len(q) /\ (q \o r)[i] = q[i]
           \/ \E j \in 1 .. Len(r) : i = Len(q) + j /\ (q \o r)[i] = r[j]
<1> SUFFICES ASSUME NEW i \in 1 .. Len(q \o r)
             PROVE  \/ i \in 1 .. Len(q) /\ (q \o r)[i] = q[i]
                    \/ \E j \in 1 .. Len(r) : i = Len(q) + j /\ (q \o r)[i] = r[j]
  OBVIOUS
<1>1. /\ Len(q) \in Nat /\ Len(r) \in Nat /\ Len(q \o r) = Len(q) + Len(r)
      /\ \A k \in 1 .. Len(q) : (q \o r)[k] = q[k]
      /\ \A k \in 1 .. Len(r) : (q \o r)[Len(q) + k] = r[k]
  BY More
<1>2. CASE i <= Len(q)
  BY <1>1, <1>2
<1>3. CASE i > Len(q)
  <2>1. i - Len(q) \in 1 .. Len(r) /\ Len(q) + (i - Len(q)) = i
    BY <1>1, <1>3
  <2>. QED BY <1>1, <2>1
<1>. QED BY <1>1, <1>2, <1>3

\* The last word counts.
LEMMA LastWord ==
  ASSUME NEW d, NEW t, NEW q \in Seq(DownMessages), NEW r \in Seq(DownMessages)
  PROVE  /\ Ends(d, r, t) => Ends(d, q \o r, t)
         /\ Ends(d, q, t) /\ Mute(d, r) => Ends(d, q \o r, t)
         /\ Mute(d, q) /\ Mute(d, r) => Mute(d, q \o r)
<1>1. /\ Len(q) \in Nat /\ Len(r) \in Nat /\ Len(q \o r) = Len(q) + Len(r)
      /\ \A k \in 1 .. Len(q) : (q \o r)[k] = q[k]
      /\ \A k \in 1 .. Len(r) : (q \o r)[Len(q) + k] = r[k]
  BY More
<1>2. \A i \in 1 .. Len(q \o r) :
        \/ i \in 1 .. Len(q) /\ (q \o r)[i] = q[i]
        \/ \E j \in 1 .. Len(r) : i = Len(q) + j /\ (q \o r)[i] = r[j]
  <2>1. TAKE i \in 1 .. Len(q \o r)
  <2>2. CASE i <= Len(q)
    BY <1>1, <2>2
  <2>3. CASE i > Len(q)
    <3>1. i - Len(q) \in 1 .. Len(r) /\ Len(q) + (i - Len(q)) = i
      BY <1>1, <2>3
    <3>. QED BY <1>1, <3>1
  <2>. QED BY <1>1, <2>2, <2>3
<1>3. ASSUME Ends(d, r, t)
      PROVE  Ends(d, q \o r, t)
  <2>1. PICK i \in 1 .. Len(r) : /\ r[i].domain = d /\ Fits(d, r[i].value, t)
                                 /\ \A j \in i + 1 .. Len(r) : r[j].domain # d
    BY <1>3 DEF Ends
  <2>2. Len(q) + i \in 1 .. Len(q \o r)
    BY <1>1
  <2>3. ASSUME NEW j \in (Len(q) + i) + 1 .. Len(q \o r)
        PROVE  (q \o r)[j].domain # d
    <3>1. j - Len(q) \in i + 1 .. Len(r) /\ j - Len(q) \in 1 .. Len(r)
          /\ Len(q) + (j - Len(q)) = j
      BY <1>1
    <3>. QED BY <1>1, <2>1, <3>1
  <2>. QED BY <1>1, <2>1, <2>2, <2>3 DEF Ends
<1>4. ASSUME Ends(d, q, t), Mute(d, r)
      PROVE  Ends(d, q \o r, t)
  <2>1. PICK i \in 1 .. Len(q) : /\ q[i].domain = d /\ Fits(d, q[i].value, t)
                                 /\ \A j \in i + 1 .. Len(q) : q[j].domain # d
    BY <1>4 DEF Ends
  <2>2. i \in 1 .. Len(q \o r)
    BY <1>1
  <2>3. ASSUME NEW j \in i + 1 .. Len(q \o r)
        PROVE  (q \o r)[j].domain # d
    <3>1. j \in 1 .. Len(q \o r)
      BY <1>1
    <3>2. CASE j \in 1 .. Len(q) /\ (q \o r)[j] = q[j]
      <4>1. j \in i + 1 .. Len(q)
        BY <1>1, <3>2
      <4>. QED BY <2>1, <3>2, <4>1
    <3>3. CASE \E k \in 1 .. Len(r) : j = Len(q) + k /\ (q \o r)[j] = r[k]
      BY <1>4, <3>3 DEF Mute
    <3>. QED BY <1>2, <3>1, <3>2, <3>3
  <2>. QED BY <1>1, <2>1, <2>2, <2>3 DEF Ends
<1>5. ASSUME Mute(d, q), Mute(d, r)
      PROVE  Mute(d, q \o r)
  <2>1. ASSUME NEW j \in 1 .. Len(q \o r)
        PROVE  (q \o r)[j].domain # d
    <3>1. CASE j \in 1 .. Len(q) /\ (q \o r)[j] = q[j]
      BY <1>5, <3>1 DEF Mute
    <3>2. CASE \E k \in 1 .. Len(r) : j = Len(q) + k /\ (q \o r)[j] = r[k]
      BY <1>5, <3>2 DEF Mute
    <3>. QED BY <1>2, <3>1, <3>2
  <2>. QED BY <2>1 DEF Mute
<1>. QED BY <1>3, <1>4, <1>5

\* The truth is shown by itself.
LEMMA TruthFits ==
  ASSUME NEW d, NEW t
  PROVE  Fits(d, t, t)
BY DEF Fits

\* The truth is of some kind, about each domain.
LEMMA TruthType ==
  ASSUME TypeOK, NEW d \in Domains
  PROVE  Truth[d] \in Values
<1>1. /\ Truth["remaining"] = remaining /\ Truth["queue"] = queue
      /\ Truth["building"] = building
      /\ Truth["nodes"] = [idle |-> Available(nodes, proxy),
                           busy |-> Known \ Available(nodes, proxy)]
      /\ Truth["state"] = StateShown(state, building)
  BY DEF Truth
<1>2. remaining \in SUBSET Packages /\ queue \in [Packages -> Nat] /\ building \in SUBSET Packages
  BY DEF TypeOK
<1>3. Truth["nodes"] \in [idle : SUBSET Nodes, busy : SUBSET Nodes]
  BY <1>1 DEF Available, Known
<1>4. Truth["state"] \in [st : {"off", "idle", "computing", "building"}, error : BOOLEAN,
                          valve : BOOLEAN]
  BY <1>1 DEF StateShown, TypeOK
<1>. QED BY <1>1, <1>2, <1>3, <1>4 DEF Domains, Values

-----------------------------------------------------------------------------
(* What the controller tells.                                              *)

\* Messages of the process that runs.
Word(q) == q \in Seq(DownMessages) /\ \A i \in 1 .. Len(q) : q[i].from = incarnation

\* The truth after a step is of some kind, too.
LEMMA NextTruthType ==
  ASSUME TypeOK', NEW d \in Domains
  PROVE  Truth'[d] \in Values
<1>1. /\ Truth'["remaining"] = remaining' /\ Truth'["queue"] = queue'
      /\ Truth'["building"] = building'
      /\ Truth'["nodes"] = [idle |-> Available(nodes, proxy)',
                            busy |-> Known' \ Available(nodes, proxy)']
      /\ Truth'["state"] = StateShown(state, building)'
  BY DEF Truth
<1>2. /\ remaining' \in SUBSET Packages /\ queue' \in [Packages -> Nat]
      /\ building' \in SUBSET Packages
  BY DEF TypeOK
<1>3. Truth'["nodes"] \in [idle : SUBSET Nodes, busy : SUBSET Nodes]
  BY <1>1 DEF Available, Known
<1>4. Truth'["state"] \in [st : {"off", "idle", "computing", "building"}, error : BOOLEAN,
                           valve : BOOLEAN]
  BY <1>1 DEF StateShown, TypeOK
<1>. QED BY <1>1, <1>2, <1>3, <1>4 DEF Domains, Values

\* A message says who sent it, what about, and what is followed.
LEMMA TellsIs ==
  ASSUME incarnation \in Nat \ {0}, NEW d \in Domains \cup {"none"}, NEW v \in Values
  PROVE  /\ Tells(d, v) \in DownMessages
         /\ Tells(d, v).from = incarnation /\ Tells(d, v).domain = d
         /\ d = followed => Tells(d, v).value = v
<1>1. (IF d = followed THEN v ELSE "not followed") \in Values
  BY DEF Values
<1>2. incarnation \in Nat
  OBVIOUS
<1>. QED BY <1>1, <1>2 DEF Tells, DownMessages

\* What is told of some domains, one after the other.
LEMMA SaidIs ==
  ASSUME incarnation \in Nat \ {0}, NEW ds \in Seq(Domains), NEW T,
         \A d \in Domains : T[d] \in Values,
         NEW q, q = [i \in DOMAIN ds |-> Tells(ds[i], T[ds[i]])]
  PROVE  /\ Word(q) /\ Len(q) = Len(ds)
         /\ \A i \in 1 .. Len(ds) : /\ q[i].domain = ds[i]
                                    /\ ds[i] = followed => q[i].value = T[followed]
<1>1. DOMAIN ds = 1 .. Len(ds) /\ Len(ds) \in Nat
  OBVIOUS
<1>2. ASSUME NEW i \in 1 .. Len(ds)
      PROVE  /\ q[i] \in DownMessages /\ q[i].from = incarnation /\ q[i].domain = ds[i]
             /\ ds[i] = followed => q[i].value = T[followed]
  <2>1. ds[i] \in Domains
    BY <1>2
  <2>2. q[i] = Tells(ds[i], T[ds[i]]) /\ T[ds[i]] \in Values
    BY <1>1, <2>1
  <2>. QED BY <2>1, <2>2, TellsIs
<1>3. q = [i \in 1 .. Len(ds) |-> q[i]]
  BY <1>1
<1>4. q \in [1 .. Len(ds) -> DownMessages]
  BY <1>2, <1>3
<1>5. q \in Seq(DownMessages) /\ Len(q) = Len(ds)
  BY <1>1, <1>4
<1>. QED BY <1>2, <1>5 DEF Word

\* The same after a step.
LEMMA ThenIs ==
  ASSUME TypeOK', incarnation \in Nat \ {0}, NEW ds \in Seq(Domains)
  PROVE  /\ Word(Then(ds)) /\ Len(Then(ds)) = Len(ds)
         /\ \A i \in 1 .. Len(ds) : /\ Then(ds)[i].domain = ds[i]
                                    /\ ds[i] = followed => Then(ds)[i].value = Truth'[followed]
<1>1. \A d \in Domains : Truth'[d] \in Values
  BY NextTruthType
<1>2. PICK T : T = Truth'
  OBVIOUS
<1>3. \A d \in Domains : T[d] \in Values
  BY <1>1, <1>2
<1>4. Then(ds) = [i \in DOMAIN ds |-> Tells(ds[i], T[ds[i]])]
  BY <1>2 DEF Then
<1>5. PICK q : q = Then(ds)
  OBVIOUS
<1>6. /\ Word(q) /\ Len(q) = Len(ds)
      /\ \A i \in 1 .. Len(ds) : /\ q[i].domain = ds[i]
                                 /\ ds[i] = followed => q[i].value = T[followed]
  BY <1>3, <1>4, <1>5, SaidIs
<1>. QED BY <1>2, <1>5, <1>6

\* The last that is told of the domain that is followed is the truth.
LEMMA ThenEnds ==
  ASSUME TypeOK', incarnation \in Nat \ {0}, NEW ds \in Seq(Domains),
         NEW k \in 1 .. Len(ds), ds[k] = followed, \A j \in k + 1 .. Len(ds) : ds[j] # followed
  PROVE  Ends(followed, Then(ds), Truth'[followed])
<1>1. PICK q : q = Then(ds)
  OBVIOUS
<1>2. /\ Len(q) = Len(ds)
      /\ \A i \in 1 .. Len(ds) : /\ q[i].domain = ds[i]
                                 /\ ds[i] = followed => q[i].value = Truth'[followed]
  BY <1>1, ThenIs
<1>3. Len(ds) \in Nat
  OBVIOUS
<1>4. PICK t : t = Truth'[followed]
  OBVIOUS
<1>5. q[k].domain = followed /\ q[k].value = t
  BY <1>2, <1>4
<1>6. \A j \in k + 1 .. Len(q) : q[j].domain # followed
  BY <1>2, <1>3
<1>7. Ends(followed, q, t)
  BY <1>2, <1>5, <1>6, TruthFits DEF Ends
<1>. QED BY <1>1, <1>4, <1>7

\* What is told of other domains.
LEMMA ThenMute ==
  ASSUME TypeOK', incarnation \in Nat \ {0}, NEW ds \in Seq(Domains),
         \A j \in 1 .. Len(ds) : ds[j] # followed
  PROVE  Mute(followed, Then(ds))
BY ThenIs DEF Mute

\* DOMAIN_ALL is everything.
LEMMA AllEnds ==
  ASSUME TypeOK', incarnation \in Nat \ {0}, followed \in Domains
  PROVE  Word(Then(All)) /\ Ends(followed, Then(All), Truth'[followed])
<1>1. /\ All \in Seq(Domains) /\ Len(All) = 5
      /\ All[1] = "remaining" /\ All[2] = "queue" /\ All[3] = "building" /\ All[4] = "nodes"
      /\ All[5] = "state"
  BY DEF All, Domains
<1>2. PICK k \in 1 .. 5 : All[k] = followed
  <2>1. followed \in {All[1], All[2], All[3], All[4], All[5]}
    BY <1>1 DEF Domains
  <2>. QED BY <2>1
<1>3. \A i, j \in 1 .. 5 : All[i] = All[j] => i = j
  BY <1>1
<1>4. \A j \in k + 1 .. Len(All) : All[j] # followed
  BY <1>1, <1>2, <1>3
<1>5. k \in 1 .. Len(All)
  BY <1>1
<1>. QED BY <1>1, <1>2, <1>4, <1>5, ThenEnds, ThenIs

\* Two texts make one.
LEMMA WordsJoin ==
  ASSUME NEW q, NEW r, Word(q), Word(r)
  PROVE  Word(q \o r)
<1>1. q \in Seq(DownMessages) /\ r \in Seq(DownMessages)
  BY DEF Word
<1>2. /\ q \o r \in Seq(DownMessages)
      /\ \A i \in 1 .. Len(q \o r) : \/ i \in 1 .. Len(q) /\ (q \o r)[i] = q[i]
                                     \/ \E j \in 1 .. Len(r) : (q \o r)[i] = r[j]
  BY <1>1, More, MoreOf
<1>. QED BY <1>2 DEF Word

\* One message is a text.
LEMMA OneWord ==
  ASSUME incarnation \in Nat \ {0}, NEW d \in Domains \cup {"none"}, NEW v \in Values,
         NEW q, q = <<Tells(d, v)>>
  PROVE  /\ Word(q) /\ Len(q) = 1 /\ q[1].domain = d
         /\ d = followed => q[1].value = v
<1>1. PICK m : m = Tells(d, v)
  OBVIOUS
<1>2. /\ m \in DownMessages /\ m.from = incarnation /\ m.domain = d
      /\ d = followed => m.value = v
  BY <1>1, TellsIs
<1>3. q = <<m>>
  BY <1>1
<1>. QED BY <1>2, <1>3 DEF Word

\* Most handlers end with _schedule, which first tells the state.
LEMMA BeginsIs ==
  ASSUME TypeOK', incarnation \in Nat \ {0}
  PROVE  Word(ScheduleBegins) /\ (followed = "remaining" => Mute(followed, ScheduleBegins))
<1> DEFINE v == [st |-> IF building' \ Bound # {} THEN "building" ELSE "computing",
                 error |-> error', valve |-> valve']
<1>1. v \in Values
  BY DEF TypeOK, Values
<1> HIDE DEF v
<1>2. PICK b : b = ScheduleBegins
  OBVIOUS
<1>3. b = <<Tells("state", v)>>
  BY <1>2 DEF ScheduleBegins, v
<1>4. "state" \in Domains \cup {"none"}
  BY DEF Domains
<1>5. Word(b) /\ Len(b) = 1 /\ b[1].domain = "state"
  BY <1>1, <1>3, <1>4, OneWord
<1>. QED BY <1>2, <1>5 DEF Mute

\* At its end it tells everything but what remains.
LEMMA ScheduleEnds ==
  ASSUME TypeOK', incarnation \in Nat \ {0}, followed \in Domains
  PROVE  /\ Word(Then(ScheduleTells))
         /\ followed # "remaining" => Ends(followed, Then(ScheduleTells), Truth'[followed])
         /\ followed = "remaining" => Mute(followed, Then(ScheduleTells))
<1> DEFINE ds == ScheduleTells
<1>1. /\ ds \in Seq(Domains) /\ Len(ds) = 4
      /\ ds[1] = "state" /\ ds[2] = "queue" /\ ds[3] = "building" /\ ds[4] = "nodes"
  BY DEF ScheduleTells, Domains
<1>2. CASE followed # "remaining"
  <2>1. PICK k \in 1 .. 4 : ds[k] = followed
    <3>1. followed \in {ds[1], ds[2], ds[3], ds[4]}
      BY <1>1, <1>2 DEF Domains
    <3>. QED BY <3>1
  <2>2. \A i, j \in 1 .. 4 : ds[i] = ds[j] => i = j
    BY <1>1
  <2>3. \A j \in k + 1 .. Len(ds) : ds[j] # followed
    BY <1>1, <2>1, <2>2
  <2>4. k \in 1 .. Len(ds)
    BY <1>1
  <2> HIDE DEF ds
  <2>. QED BY <1>1, <1>2, <2>1, <2>3, <2>4, ThenEnds, ThenIs DEF ds
<1>3. CASE followed = "remaining"
  <2>1. \A j \in 1 .. Len(ds) : ds[j] # followed
    BY <1>1, <1>3
  <2> HIDE DEF ds
  <2>. QED BY <1>1, <1>3, <2>1, ThenMute, ThenIs DEF ds
<1>. QED BY <1>2, <1>3

-----------------------------------------------------------------------------
(* Whatever the controller does, its subscribers can follow.               *)

\* A step that tells q either tells what followed became, or leaves it as it was shown.
Informs(q) ==
  /\ Word(q)
  /\ ~Leftover' => \/ Ends(followed, q, Truth'[followed])
                   \/ /\ ~Leftover /\ Mute(followed, q)
                      /\ \A v : Fits(followed, v, Truth[followed])
                                  => Fits(followed, v, Truth'[followed])

\* What is told before _schedule matters only for what remains.
LEMMA ScheduleInforms ==
  ASSUME TypeOK', incarnation \in Nat \ {0}, followed \in Domains, NEW q, Word(q),
         followed = "remaining" =>
           \/ Ends(followed, q, Truth'[followed])
           \/ Mute(followed, q) /\ ~Leftover /\ UNCHANGED remaining
  PROVE  Informs(q \o ScheduleBegins \o Then(ScheduleTells))
<1>1. PICK b : b = ScheduleBegins
  OBVIOUS
<1>2. PICK e : e = Then(ScheduleTells)
  OBVIOUS
<1>3. PICK t : t = Truth'[followed]
  OBVIOUS
<1>4. Word(b) /\ (followed = "remaining" => Mute(followed, b))
  BY <1>1, BeginsIs
<1>5. /\ Word(e) /\ (followed # "remaining" => Ends(followed, e, t))
      /\ followed = "remaining" => Mute(followed, e)
  BY <1>2, <1>3, ScheduleEnds
<1>6. PICK a : a = q \o b
  OBVIOUS
<1>7. Word(a) /\ Word(a \o e)
  BY <1>4, <1>5, <1>6, WordsJoin
<1>8. /\ q \in Seq(DownMessages) /\ b \in Seq(DownMessages) /\ e \in Seq(DownMessages)
      /\ a \in Seq(DownMessages)
  BY <1>4, <1>5, <1>7 DEF Word
<1>9. CASE followed # "remaining"
  <2>1. Ends(followed, a \o e, t)
    BY <1>5, <1>8, <1>9, LastWord
  <2>. QED BY <1>1, <1>2, <1>3, <1>6, <1>7, <2>1 DEF Informs
<1>10. CASE followed = "remaining" /\ Ends(followed, q, t)
  <2>1. Ends(followed, a, t)
    BY <1>4, <1>6, <1>8, <1>10, LastWord
  <2>2. Ends(followed, a \o e, t)
    BY <1>5, <1>8, <1>10, <2>1, LastWord
  <2>. QED BY <1>1, <1>2, <1>3, <1>6, <1>7, <2>2 DEF Informs
<1>11. CASE followed = "remaining" /\ Mute(followed, q) /\ ~Leftover /\ UNCHANGED remaining
  <2>1. Mute(followed, a)
    BY <1>4, <1>6, <1>8, <1>11, LastWord
  <2>2. Mute(followed, a \o e)
    BY <1>5, <1>8, <1>11, <2>1, LastWord
  <2>3. Truth[followed] = Truth'[followed]
    BY <1>11 DEF Truth
  <2>. QED BY <1>1, <1>2, <1>6, <1>7, <1>11, <2>2, <2>3 DEF Informs
<1>. QED BY <1>3, <1>9, <1>10, <1>11

\* What a step needs to be known before it.
Ready ==
  /\ TypeOK /\ incarnation \in Nat \ {0} /\ followed \in Domains
  /\ down \in Seq(DownMessages)

\* Nothing new about what stays.
LEMMA TruthStays ==
  ASSUME UNCHANGED <<state, error, valve, remaining, queue, building, nodes, proxy>>
  PROVE  Truth' = Truth /\ (Leftover' <=> Leftover)
BY DEF Truth, Leftover, StateShown, Available, Known

\* The steps of the controller keep the types of its data.
LEMMA StepType ==
  ASSUME TypeOK,
         \/ StartBuild \/ Computes \/ Dies \/ Stops \/ Opens \/ Closes
         \/ \E n \in Nodes : Discovers(n) \/ Loses(n) \/ Reported(n)
  PROVE  TypeOK'
<1>1. CASE StartBuild /\ ~Start
  <2>1. /\ state' = "computing"
        /\ UNCHANGED <<task, error, valve, graph, progress, queue, building, nodes, proxy,
                       pending>>
    BY <1>1 DEF StartBuild
  <2>. QED BY <2>1 DEF TypeOK, graph, progress
<1>2. CASE ~(StartBuild /\ ~Start)
  <2>1. Next
    BY <1>2 DEF StartBuild, Computes, Dies, Stops, Opens, Closes, Discovers, Loses, Reported, Next
  <2>. QED BY <2>1, TypeStep
<1>. QED BY <1>1, <1>2

\* Everything is told, unless get_building_set raises.
LEMMA SendsAllInforms ==
  ASSUME Ready, TypeOK', SendsAll
  PROVE  \E q : Informs(q) /\ Sends(q)
<1>1. CASE Leftover'
  <2>1. BeforeBuilding \in Seq(Domains)
    BY DEF BeforeBuilding, Domains
  <2>2. Word(Then(BeforeBuilding))
    BY <2>1, ThenIs DEF Ready
  <2>. QED BY <1>1, <2>2 DEF Informs, SendsAll
<1>2. CASE ~Leftover'
  <2>1. Word(Then(All)) /\ Ends(followed, Then(All), Truth'[followed])
    BY AllEnds DEF Ready
  <2>. QED BY <1>2, <2>1 DEF Informs, SendsAll
<1>. QED BY <1>1, <1>2

\* The same after the graph has been computed.
LEMMA ComputesInforms ==
  ASSUME Ready, TypeOK', Computes
  PROVE  \E q : Informs(q) /\ Sends(q)
<1>1. PICK b : b = ScheduleBegins
  OBVIOUS
<1>2. PICK e : e = Then(All)
  OBVIOUS
<1>3. PICK t : t = Truth'[followed]
  OBVIOUS
<1>4. Word(b) /\ Word(e) /\ Ends(followed, e, t)
  BY <1>1, <1>2, <1>3, BeginsIs, AllEnds DEF Ready
<1>5. Word(b \o e)
  BY <1>4, WordsJoin
<1>6. Ends(followed, b \o e, t)
  BY <1>4, LastWord DEF Word
<1>7. Informs(b \o e)
  BY <1>3, <1>5, <1>6 DEF Informs
<1>. QED BY <1>1, <1>2, <1>7 DEF Computes

\* The handlers that tell nothing, or the state only, change nothing else.
LEMMA StateInforms ==
  ASSUME Ready, NEW q, Word(q),
         Leftover' <=> Leftover,
         followed # "state" => Truth'[followed] = Truth[followed] /\ Mute(followed, q),
         followed = "state" => Ends(followed, q, Truth'[followed])
  PROVE  Informs(q)
BY DEF Informs

\* open, which begins with the valve.
LEMMA OpensInforms ==
  ASSUME Ready, TypeOK', Opens
  PROVE  \E q : Informs(q) /\ Sends(q)
<1>1. PICK v : v = [Truth.state EXCEPT !.valve = TRUE]
  OBVIOUS
<1>2. PICK first : first = <<Tells("state", v)>>
  OBVIOUS
<1>3. v = [st |-> IF building # {} THEN "building" ELSE state, error |-> error, valve |-> TRUE]
  BY <1>1 DEF Truth, StateShown
<1>4. v \in Values
  BY <1>3 DEF Ready, TypeOK, Values
<1>5. "state" \in Domains \cup {"none"}
  BY DEF Domains
<1>6. /\ Word(first) /\ Len(first) = 1 /\ first[1].domain = "state"
      /\ followed = "state" => first[1].value = v
  BY <1>2, <1>4, <1>5, OneWord DEF Ready
<1>7. followed # "state" => Mute(followed, first)
  BY <1>6 DEF Mute
<1>8. valve' = TRUE /\ UNCHANGED <<task, error, graph, progress>>
  BY DEF Opens, Open
<1>9. CASE state = "idle"
  <2>1. Sends(first \o ScheduleBegins \o Then(ScheduleTells))
    BY <1>1, <1>2, <1>9 DEF Opens
  <2>2. ~Leftover /\ UNCHANGED remaining
    BY <1>8, <1>9 DEF Leftover, progress
  <2>3. Informs(first \o ScheduleBegins \o Then(ScheduleTells))
    BY <1>6, <1>7, <2>2, ScheduleInforms DEF Ready
  <2>. QED BY <2>1, <2>3
<1>10. CASE state # "idle"
  <2>1. Sends(first)
    BY <1>1, <1>2, <1>10 DEF Opens
  <2>2. UNCHANGED <<state, queue, building, nodes, proxy, pending>>
    BY <1>10 DEF Opens, Open
  <2>3. /\ Leftover' <=> Leftover
        /\ Truth'["remaining"] = Truth["remaining"] /\ Truth'["queue"] = Truth["queue"]
        /\ Truth'["building"] = Truth["building"] /\ Truth'["nodes"] = Truth["nodes"]
    BY <1>8, <2>2 DEF Leftover, Truth, progress, Available, Known
  <2>4. Truth'["state"] = v
    BY <1>3, <1>8, <2>2 DEF Truth, StateShown
  <2>5. followed # "state" => Truth'[followed] = Truth[followed]
    BY <2>3 DEF Ready, Domains
  <2>6. ASSUME followed = "state"
        PROVE  Ends(followed, first, Truth'[followed])
    <3>1. Ends(followed, first, v)
      BY <1>6, <2>6, TruthFits DEF Ends
    <3>. QED BY <2>4, <2>6, <3>1
  <2>. QED BY <1>6, <1>7, <2>1, <2>3, <2>5, <2>6, StateInforms
<1>. QED BY <1>9, <1>10

\* close
LEMMA ClosesInforms ==
  ASSUME Ready, TypeOK', Closes
  PROVE  \E q : Informs(q) /\ Sends(q)
<1>1. PICK ds : ds = <<"state">>
  OBVIOUS
<1>2. ds \in Seq(Domains) /\ Len(ds) = 1 /\ ds[1] = "state"
  BY <1>1 DEF Domains
<1>3. UNCHANGED <<state, task, error, graph, progress, queue, building, nodes, proxy, pending>>
      /\ Sends(Then(ds))
  BY <1>1 DEF Closes, Close
<1>4. /\ Leftover' <=> Leftover
      /\ Truth'["remaining"] = Truth["remaining"] /\ Truth'["queue"] = Truth["queue"]
      /\ Truth'["building"] = Truth["building"] /\ Truth'["nodes"] = Truth["nodes"]
  BY <1>3 DEF Leftover, Truth, progress, Available, Known
<1>5. Word(Then(ds))
  BY <1>2, ThenIs DEF Ready
<1>6. followed # "state" => Truth'[followed] = Truth[followed] /\ Mute(followed, Then(ds))
  <2>1. SUFFICES ASSUME followed # "state"
                 PROVE  Truth'[followed] = Truth[followed] /\ Mute(followed, Then(ds))
    OBVIOUS
  <2>2. \A j \in 1 .. Len(ds) : ds[j] # followed
    BY <1>2, <2>1
  <2>3. Mute(followed, Then(ds))
    BY <1>2, <2>2, ThenMute DEF Ready
  <2>. QED BY <1>4, <2>1, <2>3 DEF Ready, Domains
<1>7. followed = "state" => Ends(followed, Then(ds), Truth'[followed])
  <2>1. SUFFICES ASSUME followed = "state" PROVE Ends(followed, Then(ds), Truth'[followed])
    OBVIOUS
  <2>2. 1 \in 1 .. Len(ds) /\ ds[1] = followed /\ \A j \in 1 + 1 .. Len(ds) : ds[j] # followed
    BY <1>2, <2>1
  <2>. QED BY <1>2, <2>2, ThenEnds DEF Ready
<1>. QED BY <1>3, <1>4, <1>5, <1>6, <1>7, StateInforms

\* What _fail tells.
LEMMA FailTellsIs ==
  /\ FailTells \in Seq(Domains) /\ Len(FailTells) \in {0, 1}
  /\ \A i \in 1 .. Len(FailTells) : FailTells[i] = "state"
  /\ error' /\ (~error \/ valve) => Len(FailTells) = 1
<1>1. CASE error' /\ (~error \/ valve)
  <2>1. FailTells = <<"state">>
    BY <1>1 DEF FailTells
  <2>. QED BY <2>1 DEF Domains
<1>2. CASE ~(error' /\ (~error \/ valve))
  <2>1. FailTells = <<>>
    BY <1>2 DEF FailTells
  <2>2. FailTells \in Seq(Domains) /\ Len(FailTells) = 0
    BY <2>1
  <2>. QED BY <1>2, <2>2
<1>. QED BY <1>1, <1>2

\* A node appears.
LEMMA DiscoversInforms ==
  ASSUME Ready, TypeOK', NEW n \in Nodes, Discovers(n)
  PROVE  \E q : Informs(q) /\ Sends(q)
<1>1. PICK ds : ds = FailTells
  OBVIOUS
<1>2. ds \in Seq(Domains) /\ \A i \in 1 .. Len(ds) : ds[i] = "state"
  BY <1>1, FailTellsIs
<1>3. Sends(Then(ds) \o ScheduleBegins \o Then(ScheduleTells))
  BY <1>1 DEF Discovers, SendsSchedule
<1>4. ~Leftover /\ UNCHANGED remaining
  BY DEF Discovers, NodeDiscovered, Leftover, progress
<1>5. Word(Then(ds))
  BY <1>2, ThenIs DEF Ready
<1>6. followed = "remaining" => Mute(followed, Then(ds))
  <2>1. SUFFICES ASSUME followed = "remaining" PROVE Mute(followed, Then(ds))
    OBVIOUS
  <2>2. \A j \in 1 .. Len(ds) : ds[j] # followed
    BY <1>2, <2>1
  <2>. QED BY <1>2, <2>2, ThenMute DEF Ready
<1>7. Informs(Then(ds) \o ScheduleBegins \o Then(ScheduleTells))
  BY <1>4, <1>5, <1>6, ScheduleInforms DEF Ready
<1>. QED BY <1>3, <1>7

\* A node says something: what remains is told before _schedule.
LEMMA ReportedInforms ==
  ASSUME Ready, TypeOK', NEW n \in Nodes, Reported(n)
  PROVE  \E q : Informs(q) /\ Sends(q)
<1>1. PICK f : f = FailTells
  OBVIOUS
<1>2. f \in Seq(Domains) /\ \A i \in 1 .. Len(f) : f[i] = "state"
  BY <1>1, FailTellsIs
<1>3. PICK ds : ds = f \o <<"remaining">>
  OBVIOUS
<1>4. ds \in Seq(Domains) /\ Len(ds) = Len(f) + 1 /\ ds[Len(ds)] = "remaining" /\ Len(ds) \in Nat
  BY <1>2, <1>3 DEF Domains
<1>5. Sends(Then(ds) \o ScheduleBegins \o Then(ScheduleTells))
  BY <1>1, <1>3 DEF Reported, SendsSchedule
<1>6. Word(Then(ds))
  BY <1>4, ThenIs DEF Ready
<1>7. followed = "remaining" => Ends(followed, Then(ds), Truth'[followed])
  <2>1. SUFFICES ASSUME followed = "remaining"
                 PROVE  Ends(followed, Then(ds), Truth'[followed])
    OBVIOUS
  <2>2. PICK k : k = Len(ds)
    OBVIOUS
  <2>3. k \in 1 .. Len(ds) /\ ds[k] = followed /\ \A j \in k + 1 .. Len(ds) : ds[j] # followed
    BY <1>2, <1>4, <2>1, <2>2
  <2>. QED BY <1>4, <2>3, ThenEnds DEF Ready
<1>8. Informs(Then(ds) \o ScheduleBegins \o Then(ScheduleTells))
  BY <1>6, <1>7, ScheduleInforms DEF Ready
<1>. QED BY <1>5, <1>8

\* A node disappears: what was shown of the nodes still holds of the others.
LEMMA LosesInforms ==
  ASSUME Ready, TypeOK', NEW n \in Nodes, Loses(n)
  PROVE  \E q : Informs(q) /\ Sends(q)
<1>1. PICK ds : ds = FailTells
  OBVIOUS
<1>2. /\ ds \in Seq(Domains) /\ Len(ds) \in {0, 1} /\ \A i \in 1 .. Len(ds) : ds[i] = "state"
      /\ error' /\ (~error \/ valve) => Len(ds) = 1
  BY <1>1, FailTellsIs
<1>3. Sends(Then(ds)) /\ NodeLost(n)
  BY <1>1 DEF Loses
<1>4. /\ state = "idle" /\ proxy[n] # Gone
      /\ \/ error' = TRUE /\ valve' = FALSE
         \/ UNCHANGED <<error, valve>>
      /\ nodes' = IF nodes[n] # NoTask THEN nodes ELSE [nodes EXCEPT ![n] = NotKnown]
      /\ proxy' = [proxy EXCEPT ![n] = Gone]
      /\ UNCHANGED <<state, task, graph, progress, queue, building, pending>>
  BY <1>3 DEF NodeLost, Fail
<1>5. Word(Then(ds))
  BY <1>2, ThenIs DEF Ready
<1>6. ~Leftover
  BY <1>4 DEF Leftover
<1>7. CASE followed = "nodes"
  <2>1. \A j \in 1 .. Len(ds) : ds[j] # followed
    BY <1>2, <1>7
  <2>2. Mute(followed, Then(ds))
    BY <1>2, <2>1, ThenMute DEF Ready
  <2>3. PICK t : t = Truth[followed]
    OBVIOUS
  <2>4. PICK u : u = Truth'[followed]
    OBVIOUS
  <2>5. t.idle = Available(nodes, proxy) /\ t.busy = Known \ Available(nodes, proxy)
    BY <1>7, <2>3 DEF Truth
  <2>6. u.idle = Available(nodes, proxy)' /\ u.busy = Known' \ Available(nodes, proxy)'
    BY <1>7, <2>4 DEF Truth
  <2>7. nodes \in [Nodes -> Packages \cup {NotKnown, NoTask, ResetTask}]
        /\ proxy \in [Nodes -> ReportsType] /\ NoTask # NotKnown
    BY DEF Ready, TypeOK, NoTask, NotKnown
  <2>8. \A m \in Nodes : m # n => nodes'[m] = nodes[m] /\ proxy'[m] = proxy[m]
    BY <1>4, <2>7
  <2>9. /\ proxy'[n] = Gone /\ Gone # Idle
        /\ nodes'[n] = IF nodes[n] # NoTask THEN nodes[n] ELSE NotKnown
    BY <1>4, <2>7 DEF Gone, Idle, Plain, Shows
  <2>10. Available(nodes, proxy)' \subseteq Available(nodes, proxy)
    BY <2>8, <2>9 DEF Available
  <2>11. Known' \ Available(nodes, proxy)' \subseteq Known \ Available(nodes, proxy)
    BY <2>7, <2>8, <2>9 DEF Available, Known
  <2>12. u.idle \subseteq t.idle /\ u.busy \subseteq t.busy
    BY <2>5, <2>6, <2>10, <2>11
  <2>13. \A v : Fits(followed, v, t) => Fits(followed, v, u)
    BY <1>7, <2>12 DEF Fits
  <2>. QED BY <1>3, <1>5, <1>6, <2>2, <2>3, <2>4, <2>13 DEF Informs
<1>8. CASE followed = "state" /\ Len(ds) = 1
  <2>1. 1 \in 1 .. Len(ds) /\ ds[1] = followed /\ \A j \in 1 + 1 .. Len(ds) : ds[j] # followed
    BY <1>2, <1>8
  <2>2. Ends(followed, Then(ds), Truth'[followed])
    BY <1>2, <2>1, ThenEnds DEF Ready
  <2>. QED BY <1>3, <1>5, <2>2 DEF Informs
<1>9. CASE followed # "nodes" /\ (followed # "state" \/ Len(ds) = 0)
  <2>1. \A j \in 1 .. Len(ds) : ds[j] # followed
    BY <1>2, <1>9
  <2>2. Mute(followed, Then(ds))
    BY <1>2, <2>1, ThenMute DEF Ready
  <2>3. ASSUME followed = "state"
        PROVE  Truth'[followed] = Truth[followed]
    <3>1. error \in BOOLEAN /\ valve \in BOOLEAN
      BY DEF Ready, TypeOK
    <3>2. ~(error' /\ (~error \/ valve))
      BY <1>2, <1>9, <2>3
    <3>3. ASSUME error' = TRUE, valve' = FALSE
          PROVE  error = TRUE /\ valve = FALSE
      BY <3>1, <3>2, <3>3
    <3>4. error' = error /\ valve' = valve
      BY <1>4, <3>3
    <3>5. Truth'["state"] = Truth["state"]
      BY <1>4, <3>4 DEF Truth, StateShown
    <3>. QED BY <2>3, <3>5
  <2>4. /\ Truth'["remaining"] = Truth["remaining"] /\ Truth'["queue"] = Truth["queue"]
        /\ Truth'["building"] = Truth["building"]
    BY <1>4 DEF Truth, progress
  <2>5. followed = "state" \/ followed = "remaining" \/ followed = "queue" \/ followed = "building"
    BY <1>9 DEF Ready, Domains
  <2>6. Truth'[followed] = Truth[followed]
    BY <2>3, <2>4, <2>5
  <2>. QED BY <1>3, <1>5, <1>6, <2>2, <2>6 DEF Informs
<1>. QED BY <1>2, <1>7, <1>8, <1>9

\* Every step of the controller informs its subscribers.
LEMMA StepInforms ==
  ASSUME Ready,
         \/ StartBuild \/ Computes \/ Dies \/ Stops \/ Opens \/ Closes
         \/ \E n \in Nodes : Discovers(n) \/ Loses(n) \/ Reported(n)
  PROVE  \E q : Informs(q) /\ Sends(q)
<1>1. TypeOK'
  BY StepType DEF Ready
<1>2. CASE StartBuild \/ Stops
  <2>1. SendsAll
    BY <1>2 DEF StartBuild, Stops
  <2>. QED BY <1>1, <2>1, SendsAllInforms
<1>3. CASE Dies
  <2>1. PICK q : q = <<>>
    OBVIOUS
  <2>2. /\ UNCHANGED <<state, error, valve, graph, progress, queue, building, nodes, proxy,
                       pending>>
        /\ UNCHANGED down
    BY <1>3 DEF Dies, ComputeDies
  <2>3. Truth' = Truth /\ (Leftover' <=> Leftover)
    BY <2>2, TruthStays DEF progress
  <2>4. Word(q) /\ Mute(followed, q)
    <3>1. q \in Seq(DownMessages) /\ Len(q) = 0
      BY <2>1
    <3>. QED BY <3>1 DEF Word, Mute
  <2>5. Informs(q)
    BY <2>3, <2>4 DEF Informs
  <2>6. Sends(q)
    BY <2>1, <2>2 DEF Sends, Ready
  <2>. QED BY <2>5, <2>6
<1>. QED BY <1>1, <1>2, <1>3, ComputesInforms, OpensInforms, ClosesInforms, DiscoversInforms,
            LosesInforms, ReportedInforms

-----------------------------------------------------------------------------
(* What is asked of the master.                                            *)

\* Messages to an address.
LEMMA ToIs ==
  ASSUME NEW a \in Nat, NEW cmds \in Seq(Commands), NEW r, r = To(a, cmds)
  PROVE  /\ r \in Seq(UpMessages) /\ Len(r) = Len(cmds)
         /\ \A i \in 1 .. Len(r) : r[i].to = a /\ r[i].cmd = cmds[i]
<1>1. DOMAIN cmds = 1 .. Len(cmds) /\ Len(cmds) \in Nat
  OBVIOUS
<1>2. r = [i \in 1 .. Len(cmds) |-> [to |-> a, cmd |-> cmds[i]]]
  BY <1>1 DEF To
<1>3. \A i \in 1 .. Len(cmds) : cmds[i] \in Commands
  OBVIOUS
<1>4. r \in [1 .. Len(cmds) -> UpMessages]
  BY <1>2, <1>3 DEF UpMessages
<1>5. r \in Seq(UpMessages) /\ Len(r) = Len(cmds)
  BY <1>1, <1>4
<1>. QED BY <1>2, <1>5

RefreshAll(a) == Refresh(a, TRUE)
RefreshOne(a) == Refresh(a, FALSE)

\* refresh first subscribes, if the window shows the master, and then asks for everything.
LEMMA RefreshAllIs ==
  ASSUME NEW a \in Nat, NEW r, r = RefreshAll(a)
  PROVE  /\ r \in Seq(UpMessages) /\ Len(r) = 6
         /\ \A i \in 1 .. 6 : r[i].to = a
         /\ r[1].cmd = "subscribe"
         /\ \A d \in Domains : \E i \in 2 .. 6 : r[i].cmd = d
<1>1. PICK cmds : cmds = <<"subscribe", "state", "remaining", "queue", "building", "nodes">>
  OBVIOUS
<1>2. /\ cmds \in Seq(Commands) /\ Len(cmds) = 6
      /\ cmds[1] = "subscribe" /\ cmds[2] = "state" /\ cmds[3] = "remaining"
      /\ cmds[4] = "queue" /\ cmds[5] = "building" /\ cmds[6] = "nodes"
  BY <1>1 DEF Commands, Domains
<1>3. r = To(a, cmds)
  BY <1>1 DEF RefreshAll, Refresh
<1>4. /\ r \in Seq(UpMessages) /\ Len(r) = Len(cmds)
      /\ \A i \in 1 .. Len(r) : r[i].to = a /\ r[i].cmd = cmds[i]
  BY <1>2, <1>3, ToIs
<1>5. \A i \in 1 .. 6 : r[i].to = a /\ r[i].cmd = cmds[i]
  BY <1>2, <1>4
<1>6. ASSUME NEW d \in Domains
      PROVE  \E i \in 2 .. 6 : r[i].cmd = d
  <2>1. /\ r[2].cmd = "state" /\ r[3].cmd = "remaining" /\ r[4].cmd = "queue"
        /\ r[5].cmd = "building" /\ r[6].cmd = "nodes"
    BY <1>2, <1>5
  <2>2. 2 \in 2 .. 6 /\ 3 \in 2 .. 6 /\ 4 \in 2 .. 6 /\ 5 \in 2 .. 6 /\ 6 \in 2 .. 6
    OBVIOUS
  <2>. QED BY <2>1, <2>2 DEF Domains
<1>7. r[1].cmd = "subscribe"
  BY <1>2, <1>5
<1>. QED BY <1>2, <1>4, <1>5, <1>6, <1>7

\* A proxy that no window shows only asks who is there.
LEMMA RefreshOneIs ==
  ASSUME NEW a \in Nat, NEW r, r = RefreshOne(a)
  PROVE  r \in Seq(UpMessages) /\ Len(r) = 1 /\ r[1].to = a /\ r[1].cmd = "identify"
<1>1. PICK cmds : cmds = <<"identify">>
  OBVIOUS
<1>2. cmds \in Seq(Commands) /\ Len(cmds) = 1 /\ cmds[1] = "identify"
  BY <1>1 DEF Commands
<1>3. r = To(a, cmds)
  BY <1>1 DEF RefreshOne, Refresh
<1>. QED BY <1>2, <1>3, ToIs

\* A search.
LEMMA SearchIs ==
  ASSUME NEW r, r = To(0, <<"identify">>)
  PROVE  r \in Seq(UpMessages) /\ Len(r) = 1 /\ r[1].to = 0 /\ r[1].cmd = "identify"
<1>1. PICK cmds : cmds = <<"identify">>
  OBVIOUS
<1>2. cmds \in Seq(Commands) /\ Len(cmds) = 1 /\ cmds[1] = "identify"
  BY <1>1 DEF Commands
<1>3. r = To(0, cmds)
  BY <1>1
<1>. QED BY <1>2, <1>3, ToIs

\* The requests stay while nothing is sent or received.
LEMMA AsksStay ==
  ASSUME UNCHANGED <<up, incarnation>>
  PROVE  \A c : AskedIt(c)' = AskedIt(c)
BY DEF AskedIt

\* More requests.
LEMMA AsksMore ==
  ASSUME up \in Seq(UpMessages), NEW r \in Seq(UpMessages), up' = up \o r,
         incarnation' = incarnation
  PROVE  /\ \A c : AskedIt(c) \subseteq AskedIt(c)'
         /\ \A i \in 1 .. Len(r) :
              r[i].to \in {0, incarnation} => Len(up) + i \in AskedIt(r[i].cmd)'
<1>1. /\ Len(up) \in Nat /\ Len(r) \in Nat /\ Len(up') = Len(up) + Len(r)
      /\ \A i \in 1 .. Len(up) : up'[i] = up[i]
      /\ \A i \in 1 .. Len(r) : up'[Len(up) + i] = r[i]
  BY More
<1>2. \A c : AskedIt(c) \subseteq AskedIt(c)'
  BY <1>1 DEF AskedIt
<1>3. \A i \in 1 .. Len(r) :
        r[i].to \in {0, incarnation} => Len(up) + i \in AskedIt(r[i].cmd)'
  BY <1>1 DEF AskedIt
<1>. QED BY <1>2, <1>3

\* What was to be answered still is.
LEMMA AnswersMore ==
  ASSUME up \in Seq(UpMessages), NEW r \in Seq(UpMessages), up' = up \o r,
         UNCHANGED <<incarnation, followed, subscription>>, WillAnswer
  PROVE  WillAnswer'
<1>1. \A c : AskedIt(c) \subseteq AskedIt(c)'
  BY AsksMore
<1>2. PICK i \in AskedIt(followed) :
        subscription # NotSubscribed \/ \E j \in AskedIt("subscribe") : j < i
  BY DEF WillAnswer
<1>3. i \in AskedIt(followed)'
  BY <1>1, <1>2
<1>4. CASE subscription # NotSubscribed
  BY <1>3, <1>4 DEF WillAnswer, NotSubscribed
<1>5. CASE \E j \in AskedIt("subscribe") : j < i
  <2>1. \E j \in AskedIt("subscribe")' : j < i
    BY <1>1, <1>5
  <2>. QED BY <1>3, <2>1 DEF WillAnswer
<1>. QED BY <1>2, <1>4, <1>5

\* A refresh will be answered.
LEMMA RefreshAnswers ==
  ASSUME NEW q \in Seq(UpMessages), NEW a \in Nat, NEW r, r = RefreshAll(a), up' = q \o r,
         a = incarnation', followed' \in Domains
  PROVE  WillAnswer' /\ AskedIt("subscribe")' # {}
<1>1. /\ r \in Seq(UpMessages) /\ Len(r) = 6
      /\ \A i \in 1 .. 6 : r[i].to = a
      /\ r[1].cmd = "subscribe"
      /\ \A d \in Domains : \E i \in 2 .. 6 : r[i].cmd = d
  BY RefreshAllIs
<1>2. /\ Len(q) \in Nat /\ Len(up') = Len(q) + 6
      /\ \A i \in 1 .. 6 : up'[Len(q) + i] = r[i]
  <2>1. PICK u : u = q \o r
    OBVIOUS
  <2>2. r \in Seq(UpMessages)
    BY <1>1
  <2>3. /\ Len(q) \in Nat /\ Len(u) = Len(q) + Len(r)
        /\ \A i \in 1 .. Len(r) : u[Len(q) + i] = r[i]
    BY <2>1, <2>2, More
  <2>. QED BY <1>1, <2>1, <2>3
<1>3. PICK i \in 2 .. 6 : r[i].cmd = followed'
  BY <1>1
<1>4. Len(q) + 1 \in AskedIt("subscribe")'
  BY <1>1, <1>2 DEF AskedIt
<1>5. Len(q) + i \in AskedIt(followed)'
  <2>1. Len(q) + i \in 1 .. Len(up') /\ up'[Len(q) + i] = r[i]
    <3>1. PICK n : n = Len(up')
      OBVIOUS
    <3>2. Len(q) + i \in 1 .. n
      <4>1. PICK k \in Nat : k = Len(q) /\ n = k + 6
        BY <1>2, <3>1
      <4>2. k + i \in 1 .. k + 6
        OBVIOUS
      <4>. QED BY <4>1, <4>2
    <3>3. i \in 1 .. 6
      OBVIOUS
    <3>. QED BY <1>2, <3>1, <3>2, <3>3
  <2>2. up'[Len(q) + i].to = incarnation' /\ up'[Len(q) + i].cmd = followed'
    BY <1>1, <1>3, <2>1
  <2>. QED BY <2>1, <2>2 DEF AskedIt
<1>6. Len(q) + 1 < Len(q) + i
  BY <1>2, <1>3
<1>. QED BY <1>4, <1>5, <1>6 DEF WillAnswer

\* The first request leaves the queue.
LEMMA AsksLess ==
  ASSUME up \in Seq(UpMessages), up # <<>>, up' = Tail(up), incarnation' = incarnation
  PROVE  /\ \A c : \A i \in AskedIt(c) : i \in Nat /\ i >= 1 /\ (i > 1 => i - 1 \in AskedIt(c)')
         /\ \A c : 1 \in AskedIt(c) => Head(up).to \in {0, incarnation} /\ Head(up).cmd = c
<1>1. /\ Head(up) = up[1] /\ Len(up) \in Nat /\ Len(up) >= 1 /\ Len(up') = Len(up) - 1
      /\ \A i \in 1 .. Len(up) - 1 : up'[i] = up[i + 1]
  BY Rest
<1>2. ASSUME NEW c, NEW i \in AskedIt(c)
      PROVE  i \in Nat /\ i >= 1 /\ (i > 1 => i - 1 \in AskedIt(c)')
  <2>1. i \in 1 .. Len(up) /\ up[i].to \in {0, incarnation} /\ up[i].cmd = c
    BY DEF AskedIt
  <2>2. ASSUME i > 1
        PROVE  i - 1 \in AskedIt(c)'
    <3>1. i - 1 \in 1 .. Len(up) - 1 /\ (i - 1) + 1 = i
      BY <1>1, <2>1, <2>2
    <3>2. up'[i - 1] = up[i]
      BY <1>1, <3>1
    <3>. QED BY <1>1, <2>1, <3>1, <3>2 DEF AskedIt
  <2>. QED BY <1>1, <2>1, <2>2
<1>3. \A c : 1 \in AskedIt(c) => Head(up).to \in {0, incarnation} /\ Head(up).cmd = c
  BY <1>1 DEF AskedIt
<1>. QED BY <1>2, <1>3

-----------------------------------------------------------------------------
(* What the client will know.                                              *)

\* Who shows t shows u, if that says less.
LEMMA EndsFit ==
  ASSUME NEW d, NEW q, NEW t, NEW u, \A v : Fits(d, v, t) => Fits(d, v, u), Ends(d, q, t)
  PROVE  Ends(d, q, u)
<1>1. PICK i \in 1 .. Len(q) : /\ q[i].domain = d /\ Fits(d, q[i].value, t)
                               /\ \A j \in i + 1 .. Len(q) : q[j].domain # d
  BY DEF Ends
<1>. QED BY <1>1 DEF Ends

\* The client takes the first message.
LEMMA EndsLess ==
  ASSUME NEW d, NEW t, NEW q \in Seq(DownMessages), q # <<>>
  PROVE  /\ Ends(d, q, t) => \/ Ends(d, Tail(q), t)
                             \/ /\ Mute(d, Tail(q)) /\ Head(q).domain = d
                                /\ Fits(d, Head(q).value, t)
         /\ Mute(d, q) => Mute(d, Tail(q)) /\ Head(q).domain # d
<1>1. PICK r : r = Tail(q)
  OBVIOUS
<1>2. /\ Head(q) = q[1] /\ Len(q) \in Nat /\ Len(q) >= 1 /\ Len(r) = Len(q) - 1
      /\ \A i \in 1 .. Len(q) - 1 : r[i] = q[i + 1]
  BY <1>1, Rest
<1>3. ASSUME Ends(d, q, t)
      PROVE  Ends(d, r, t) \/ (Mute(d, r) /\ Head(q).domain = d /\ Fits(d, Head(q).value, t))
  <2>1. PICK i \in 1 .. Len(q) : /\ q[i].domain = d /\ Fits(d, q[i].value, t)
                                 /\ \A j \in i + 1 .. Len(q) : q[j].domain # d
    BY <1>3 DEF Ends
  <2>2. CASE i = 1
    <3>1. Mute(d, r)
      BY <1>2, <2>1, <2>2 DEF Mute
    <3>. QED BY <1>2, <2>1, <2>2, <3>1
  <2>3. CASE i > 1
    <3>1. i - 1 \in 1 .. Len(r) /\ (i - 1) + 1 = i
      BY <1>2, <2>1, <2>3
    <3>2. r[i - 1] = q[i]
      BY <1>2, <3>1
    <3>3. \A j \in (i - 1) + 1 .. Len(r) : r[j].domain # d
      <4>1. TAKE j \in (i - 1) + 1 .. Len(r)
      <4>2. j \in 1 .. Len(q) - 1 /\ j + 1 \in i + 1 .. Len(q)
        BY <1>2, <2>1, <2>3
      <4>. QED BY <1>2, <2>1, <4>2
    <3>4. Ends(d, r, t)
      BY <2>1, <3>1, <3>2, <3>3 DEF Ends
    <3>. QED BY <3>4
  <2>. QED BY <1>2, <2>1, <2>2, <2>3
<1>4. ASSUME Mute(d, q)
      PROVE  Mute(d, r) /\ Head(q).domain # d
  BY <1>2, <1>4 DEF Mute
<1>. QED BY <1>1, <1>3, <1>4

\* Nothing is said in no messages.
LEMMA Silence ==
  ASSUME NEW d, NEW t
  PROVE  Mute(d, <<>>) /\ ~Ends(d, <<>>, t)
<1>1. PICK q : q = <<>>
  OBVIOUS
<1>2. Len(q) = 0
  BY <1>1
<1>3. 1 .. Len(q) = {}
  BY <1>2
<1>. QED BY <1>1, <1>3 DEF Mute, Ends

-----------------------------------------------------------------------------
(* Each step keeps the invariant.                                          *)

\* What is sent to the client keeps its type.
LEMMA DownType ==
  ASSUME ViewTypeOK, NEW q, Word(q), down' = down \o q, incarnation' = incarnation
  PROVE  /\ down' \in Seq(DownMessages)
         /\ \A i \in 1 .. Len(down') : down'[i].from \in 1 .. incarnation'
<1>1. /\ down \in Seq(DownMessages) /\ q \in Seq(DownMessages) /\ incarnation \in Nat \ {0}
      /\ \A i \in 1 .. Len(down) : down[i].from \in 1 .. incarnation
      /\ \A i \in 1 .. Len(q) : q[i].from = incarnation
  BY DEF ViewTypeOK, Word
<1>2. PICK d : d = down \o q
  OBVIOUS
<1>3. /\ d \in Seq(DownMessages)
      /\ \A i \in 1 .. Len(d) : \/ i \in 1 .. Len(down) /\ d[i] = down[i]
                                \/ \E j \in 1 .. Len(q) : i = Len(down) + j /\ d[i] = q[j]
  BY <1>1, <1>2, More, MoreOf
<1>4. incarnation \in 1 .. incarnation
  BY <1>1
<1>5. \A i \in 1 .. Len(d) : d[i].from \in 1 .. incarnation
  BY <1>1, <1>3, <1>4
<1>. QED BY <1>2, <1>3, <1>5

\* It comes from the process that runs, and something is under way.
LEMMA DownFrom ==
  ASSUME ViewTypeOK, FromIt, NEW q, Word(q), down' = down \o q,
         UNCHANGED <<incarnation, calm, trouble>>
  PROVE  FromIt' /\ (down # <<>> => down' # <<>>) /\ (q # <<>> => down' # <<>>)
<1>1. /\ down \in Seq(DownMessages) /\ q \in Seq(DownMessages)
      /\ \A i \in 1 .. Len(q) : q[i].from = incarnation
  BY DEF ViewTypeOK, Word
<1>2. PICK d : d = down \o q
  OBVIOUS
<1>3. /\ Len(d) = Len(down) + Len(q) /\ Len(down) \in Nat /\ Len(q) \in Nat
      /\ \A i \in 1 .. Len(d) : \/ i \in 1 .. Len(down) /\ d[i] = down[i]
                                \/ \E j \in 1 .. Len(q) : i = Len(down) + j /\ d[i] = q[j]
  BY <1>1, <1>2, More, MoreOf
<1>4. ASSUME trouble' = 0 \/ calm' >= 1
      PROVE  \A i \in 1 .. Len(d) : d[i].from = incarnation
  <2>1. \A i \in 1 .. Len(down) : down[i].from = incarnation
    BY <1>4 DEF FromIt
  <2>. QED BY <1>1, <1>3, <2>1
<1>5. FromIt'
  BY <1>2, <1>4 DEF FromIt
<1>6. down # <<>> => d # <<>>
  BY <1>1, <1>3
<1>7. q # <<>> => d # <<>>
  BY <1>1, <1>3
<1>. QED BY <1>2, <1>5, <1>6, <1>7

\* The client will be told the truth by more messages.
LEMMA ToldMore ==
  ASSUME ViewTypeOK, NEW q, Word(q), down' = down \o q,
         UNCHANGED <<followed, copy>>, NEW t, NEW u,
         \/ Ends(followed, q, u)
         \/ /\ Told(t) /\ Mute(followed, q)
            /\ \A v : Fits(followed, v, t) => Fits(followed, v, u)
  PROVE  Told(u)'
<1>1. down \in Seq(DownMessages) /\ q \in Seq(DownMessages)
  BY DEF ViewTypeOK, Word
<1>2. CASE Ends(followed, q, u)
  <2>1. Ends(followed, down \o q, u)
    BY <1>1, <1>2, LastWord
  <2>. QED BY <2>1 DEF Told
<1>3. CASE /\ Told(t) /\ Mute(followed, q)
           /\ \A v : Fits(followed, v, t) => Fits(followed, v, u)
  <2>1. CASE Ends(followed, down, t)
    <3>1. Ends(followed, down, u)
      BY <1>3, <2>1, EndsFit
    <3>2. Ends(followed, down \o q, u)
      BY <1>1, <1>3, <3>1, LastWord
    <3>. QED BY <3>2 DEF Told
  <2>2. CASE Mute(followed, down) /\ Fits(followed, copy, t)
    <3>1. Mute(followed, down \o q) /\ Fits(followed, copy, u)
      BY <1>1, <1>3, <2>2, LastWord
    <3>. QED BY <3>1 DEF Told
  <2>. QED BY <1>3, <2>1, <2>2 DEF Told
<1>. QED BY <1>2, <1>3

\* The controller's steps.
LEMMA ControllerView ==
  ASSUME ViewInv, ControllerSteps
  PROVE  ViewInv'
<1>1. /\ alive
      /\ UNCHANGED <<alive, incarnation, subscription, followed, selected, address, sinceRefresh,
                     sinceResponse, sinceSearch, copy, green, up, trouble, calm>>
  BY DEF ControllerSteps, interface, client
<1>2. /\ ViewTypeOK /\ FirstRun /\ FromIt /\ Dead /\ FindsIt /\ HearsIt /\ GreenRight
      /\ InSync /\ Remembered
  BY DEF ViewInv
<1>3. Ready
  BY <1>2 DEF ViewTypeOK, Ready
<1>4. \/ StartBuild \/ Computes \/ Dies \/ Stops \/ Opens \/ Closes
      \/ \E n \in Nodes : Discovers(n) \/ Loses(n) \/ Reported(n)
  BY DEF ControllerSteps
<1>5. TypeOK'
  BY <1>3, <1>4, StepType DEF Ready
<1>6. PICK q : Informs(q) /\ Sends(q)
  BY <1>3, <1>4, StepInforms
<1>7. PICK r : r = IF Subscribed THEN q ELSE <<>>
  OBVIOUS
<1>8. Word(r) /\ down' = down \o r
  <2>1. CASE Subscribed
    BY <1>6, <1>7, <2>1 DEF Sends, Informs
  <2>2. CASE ~Subscribed
    <3>1. r = <<>> /\ down' = down /\ down \in Seq(DownMessages)
      BY <1>3, <1>6, <1>7, <2>2 DEF Sends, Ready
    <3>2. r \in Seq(DownMessages) /\ Len(r) = 0 /\ down \o r = down
      BY <3>1
    <3>. QED BY <3>1, <3>2 DEF Word
  <2>. QED BY <2>1, <2>2
<1>9. /\ down' \in Seq(DownMessages)
      /\ \A i \in 1 .. Len(down') : down'[i].from \in 1 .. incarnation'
  BY <1>1, <1>2, <1>8, DownType
<1>10. FromIt' /\ (down # <<>> => down' # <<>>)
  BY <1>1, <1>2, <1>8, DownFrom
<1>11. \A c : AskedIt(c)' = AskedIt(c)
  BY <1>1, AsksStay
<1>12. ViewTypeOK'
  BY <1>1, <1>2, <1>5, <1>9 DEF ViewTypeOK, NotSubscribed, Settled
<1>13. FirstRun' /\ Dead' /\ GreenRight'
  BY <1>1, <1>2 DEF FirstRun, Dead, GreenRight, IsResponding
<1>14. Pending => Pending'
  BY <1>10, <1>11 DEF Pending
<1>15. FindsIt' /\ HearsIt'
  BY <1>1, <1>2, <1>14 DEF FindsIt, HearsIt, Heard
<1>16. Remembered'
  BY <1>1, <1>2, <1>11 DEF Remembered, Certain
<1>17. InSync'
  <2>1. SUFFICES ASSUME Certain' PROVE InSync'
    BY DEF InSync
  <2>2. Certain
    BY <1>1, <2>1 DEF Certain
  <2>3. CASE WillAnswer
    <3>1. WillAnswer'
      BY <1>1, <1>11, <2>3 DEF WillAnswer, NotSubscribed
    <3>. QED BY <3>1 DEF InSync
  <2>4. CASE subscription # NotSubscribed /\ (Leftover \/ Told(Truth[followed]))
    <3>1. subscription' # NotSubscribed'
      BY <1>1, <2>4 DEF NotSubscribed
    <3>2. r = q
      BY <1>1, <1>7, <2>4 DEF Subscribed
    <3>3. CASE Leftover'
      BY <3>1, <3>3 DEF InSync
    <3>4. CASE ~Leftover'
      <4>1. PICK t : t = Truth[followed]
        OBVIOUS
      <4>2. PICK u : u = Truth'[followed]
        OBVIOUS
      <4>3. \/ Ends(followed, r, u)
            \/ /\ ~Leftover /\ Mute(followed, r)
               /\ \A v : Fits(followed, v, t) => Fits(followed, v, u)
        BY <1>6, <3>2, <3>4, <4>1, <4>2 DEF Informs
      <4>4. Told(u)'
        BY <1>1, <1>2, <1>8, <2>4, <4>1, <4>3, ToldMore
      <4>5. Truth'[followed'] = u
        BY <1>1, <4>2
      <4>. QED BY <3>1, <4>4, <4>5 DEF InSync, Told
    <3>. QED BY <3>3, <3>4
  <2>. QED BY <1>2, <2>2, <2>3, <2>4 DEF InSync
<1>. QED BY <1>10, <1>12, <1>13, <1>15, <1>16, <1>17 DEF ViewInv

\* What is answered is the truth, if it is about what the behaviour follows.
Honest(q) == Word(q) /\ (Mute(followed, q) \/ Ends(followed, q, Truth[followed]))

LEMMA AnswerIs ==
  ASSUME Ready, NEW cmd \in Commands, NEW raises \in BOOLEAN
  PROVE  /\ Honest(Answer(cmd, raises))
         /\ cmd = "identify" => Answer(cmd, raises) # <<>>
         /\ cmd = followed /\ ~(cmd = "building" /\ raises)
              => Ends(followed, Answer(cmd, raises), Truth[followed])
<1>1. PICK a : a = Answer(cmd, raises)
  OBVIOUS
<1>2. CASE cmd = "identify"
  <2>1. a = <<Tells("none", "none")>>
    BY <1>1, <1>2 DEF Answer
  <2>2. "none" \in Domains \cup {"none"} /\ "none" \in Values /\ "none" \notin Domains
    BY DEF Values, Domains
  <2>3. Word(a) /\ Len(a) = 1 /\ a[1].domain = "none"
    BY <2>1, <2>2, OneWord DEF Ready
  <2>4. followed # "none" /\ followed # "identify"
    BY DEF Ready, Domains
  <2>5. Mute(followed, a)
    BY <2>3, <2>4 DEF Mute
  <2>6. a # <<>>
    BY <2>1
  <2>. QED BY <1>1, <1>2, <2>3, <2>4, <2>5, <2>6 DEF Honest
<1>3. CASE cmd = "subscribe" \/ (cmd = "building" /\ raises)
  <2>1. a = <<>>
    BY <1>1, <1>3 DEF Answer
  <2>2. a \in Seq(DownMessages) /\ Len(a) = 0
    BY <2>1
  <2>3. Word(a) /\ Mute(followed, a)
    BY <2>2 DEF Word, Mute
  <2>4. followed # "subscribe"
    BY DEF Ready, Domains
  <2>. QED BY <1>1, <1>3, <2>3, <2>4 DEF Honest
<1>4. CASE cmd \in Domains /\ ~(cmd = "building" /\ raises)
  <2>1. cmd # "identify" /\ cmd # "subscribe"
    BY <1>4 DEF Domains
  <2>2. a = Now(<<cmd>>)
    BY <1>1, <1>4, <2>1 DEF Answer
  <2>3. PICK ds : ds = <<cmd>>
    OBVIOUS
  <2>4. ds \in Seq(Domains) /\ Len(ds) = 1 /\ ds[1] = cmd
    BY <1>4, <2>3
  <2>5. PICK T : T = Truth
    OBVIOUS
  <2>6. \A d \in Domains : T[d] \in Values
    BY <2>5, TruthType DEF Ready
  <2>7. a = [i \in DOMAIN ds |-> Tells(ds[i], T[ds[i]])]
    BY <2>2, <2>3, <2>5 DEF Now
  <2>8. /\ Word(a) /\ Len(a) = Len(ds)
        /\ \A i \in 1 .. Len(ds) : /\ a[i].domain = ds[i]
                                   /\ ds[i] = followed => a[i].value = T[followed]
    BY <2>4, <2>6, <2>7, SaidIs DEF Ready
  <2>9. /\ Len(a) = 1 /\ a[1].domain = cmd
        /\ cmd = followed => a[1].value = T[followed]
    BY <2>4, <2>8
  <2>10. cmd # followed => Mute(followed, a)
    BY <2>9 DEF Mute
  <2>11. cmd = followed => Ends(followed, a, T[followed])
    BY <2>9, TruthFits DEF Ends
  <2>. QED BY <1>1, <2>1, <2>5, <2>8, <2>10, <2>11 DEF Honest
<1>. QED BY <1>2, <1>3, <1>4 DEF Commands

\* A message arrives at the master.
LEMMA MasterView ==
  ASSUME ViewInv, MasterReceives
  PROVE  ViewInv'
<1>1. /\ ViewTypeOK /\ FirstRun /\ FromIt /\ Dead /\ FindsIt /\ HearsIt /\ GreenRight
      /\ InSync /\ Remembered
  BY DEF ViewInv
<1>2. Ready /\ up \in Seq(UpMessages) /\ alive \in BOOLEAN
  BY <1>1 DEF ViewTypeOK, Ready
<1>3. PICK m : m = Head(up)
  OBVIOUS
<1>4. PICK mine \in BOOLEAN : mine <=> alive /\ m.to \in {0, incarnation}
  BY <1>2
<1>5. /\ up # <<>> /\ up' = Tail(up)
      /\ subscription' = IF mine /\ m.cmd = "subscribe" THEN 0 ELSE subscription
  BY <1>3, <1>4 DEF MasterReceives
<1>6. PICK raises \in BOOLEAN :
        (raises => MayRaise) /\ down' = IF mine THEN down \o Answer(m.cmd, raises) ELSE down
  BY <1>3, <1>4 DEF MasterReceives
<1>7. /\ UNCHANGED <<state, task, error, valve, G, comp, remaining, queue, building, finished,
                     successful, fails, nodes, proxy, pending>>
      /\ UNCHANGED <<alive, incarnation, followed, selected, address, sinceRefresh,
                     sinceResponse, sinceSearch, copy, green, calm, trouble>>
  BY DEF MasterReceives, controller, vars, client
<1>8. /\ m = up[1] /\ m \in UpMessages /\ Len(up) \in Nat /\ Len(up) >= 1
      /\ up' \in Seq(UpMessages) /\ Len(up') = Len(up) - 1
      /\ \A i \in 1 .. Len(up) - 1 : up'[i] = up[i + 1]
  BY <1>2, <1>3, <1>5, Rest
<1>9. m.cmd \in Commands
  BY <1>8 DEF UpMessages
<1>10. PICK a : a = IF mine THEN Answer(m.cmd, raises) ELSE <<>>
  OBVIOUS
<1>11. Word(a) /\ (Mute(followed, a) \/ Ends(followed, a, Truth[followed])) /\ down' = down \o a
  <2>1. CASE mine
    BY <1>2, <1>6, <1>9, <1>10, <2>1, AnswerIs DEF Honest
  <2>2. CASE ~mine
    <3>1. a = <<>> /\ down' = down /\ down \in Seq(DownMessages)
      BY <1>2, <1>6, <1>10, <2>2 DEF Ready
    <3>2. a \in Seq(DownMessages) /\ Len(a) = 0 /\ down \o a = down
      BY <3>1
    <3>. QED BY <3>1, <3>2 DEF Word, Mute
  <2>. QED BY <2>1, <2>2
<1>12. mine /\ m.cmd = "identify" => a # <<>>
  BY <1>2, <1>9, <1>10, AnswerIs
<1>13. mine /\ m.cmd = followed /\ ~(m.cmd = "building" /\ raises)
         => Ends(followed, a, Truth[followed])
  BY <1>2, <1>9, <1>10, AnswerIs
<1>14. /\ down' \in Seq(DownMessages)
       /\ \A i \in 1 .. Len(down') : down'[i].from \in 1 .. incarnation'
  BY <1>1, <1>7, <1>11, DownType
<1>15. FromIt' /\ (down # <<>> => down' # <<>>) /\ (a # <<>> => down' # <<>>)
  BY <1>1, <1>7, <1>11, DownFrom
<1>16. /\ \A c : \A i \in AskedIt(c) : i \in Nat /\ i >= 1 /\ (i > 1 => i - 1 \in AskedIt(c)')
       /\ \A c : 1 \in AskedIt(c) => m.to \in {0, incarnation} /\ m.cmd = c
  BY <1>2, <1>3, <1>5, <1>7, AsksLess
<1>17. TypeOK'
  BY <1>2, <1>7 DEF Ready, TypeOK
<1>18. ViewTypeOK'
  <2>1. subscription' \in 0 .. NotSubscribed
    <3>1. subscription' = 0 \/ subscription' = subscription
      BY <1>5
    <3>2. subscription \in 0 .. NotSubscribed
      BY <1>1 DEF ViewTypeOK
    <3>3. 0 \in 0 .. NotSubscribed
      BY Times
    <3>. QED BY <3>1, <3>2, <3>3
  <2>2. \A i \in 1 .. Len(up') : up'[i].to <= incarnation'
    <3>1. TAKE i \in 1 .. Len(up')
    <3>2. i \in 1 .. Len(up) - 1 /\ i + 1 \in 1 .. Len(up) /\ up'[i] = up[i + 1]
      BY <1>8
    <3>3. up[i + 1].to <= incarnation
      BY <1>1, <3>2 DEF ViewTypeOK
    <3>. QED BY <1>7, <3>2, <3>3
  <2>. QED BY <1>1, <1>7, <1>8, <1>14, <1>17, <2>1, <2>2 DEF ViewTypeOK, NotSubscribed, Settled
<1>19. FirstRun' /\ GreenRight'
  BY <1>1, <1>7 DEF FirstRun, GreenRight, IsResponding
<1>20. Dead'
  <2>1. ~alive => down' = down
    BY <1>4, <1>6
  <2>. QED BY <1>1, <1>7, <2>1 DEF Dead
<1>21. alive /\ Pending => Pending'
  <2>1. SUFFICES ASSUME alive, Pending PROVE Pending'
    OBVIOUS
  <2>2. CASE down # <<>>
    BY <1>15, <2>2 DEF Pending
  <2>3. CASE AskedIt("identify") # {}
    <3>1. PICK i : i \in AskedIt("identify")
      BY <2>3
    <3>2. CASE i > 1
      BY <1>16, <3>1, <3>2 DEF Pending
    <3>3. CASE i = 1
      BY <1>4, <1>12, <1>15, <1>16, <2>1, <3>1, <3>3 DEF Pending
    <3>. QED BY <1>16, <3>1, <3>2, <3>3
  <2>. QED BY <2>1, <2>2, <2>3 DEF Pending
<1>22. FindsIt' /\ HearsIt'
  BY <1>1, <1>7, <1>21 DEF FindsIt, HearsIt, Heard
<1>23. subscription # NotSubscribed => subscription' # NotSubscribed
  <2>1. subscription' = 0 \/ subscription' = subscription
    BY <1>5
  <2>2. NotSubscribed # 0
    BY Times
  <2>. QED BY <2>1, <2>2
<1>24. alive /\ 1 \in AskedIt("subscribe") => subscription' = 0
  BY <1>4, <1>5, <1>16
<1>25. Remembered'
  <2>1. SUFFICES ASSUME Certain' PROVE AskedIt("subscribe")' # {} \/ subscription' <= sinceRefresh'
    BY DEF Remembered
  <2>2. Certain /\ alive
    BY <1>7, <2>1 DEF Certain
  <2>3. sinceRefresh \in Nat /\ subscription \in Nat
    BY <1>1, Times DEF ViewTypeOK
  <2>4. CASE subscription <= sinceRefresh
    BY <1>5, <1>7, <2>3, <2>4
  <2>5. ASSUME NEW i \in AskedIt("subscribe")
        PROVE  AskedIt("subscribe")' # {} \/ subscription' <= sinceRefresh'
    BY <1>7, <1>16, <1>24, <2>2, <2>3, <2>5
  <2>. QED BY <1>1, <2>2, <2>4, <2>5 DEF Remembered
<1>26. InSync'
  <2>1. SUFFICES ASSUME Certain' PROVE InSync'
    BY DEF InSync
  <2>2. Certain /\ alive
    BY <1>7, <2>1 DEF Certain
  <2>3. PICK t : t = Truth[followed]
    OBVIOUS
  <2>4. Truth'[followed'] = t /\ (Leftover' <=> Leftover)
    BY <1>7, <2>3, TruthStays
  <2>5. NotSubscribed' = NotSubscribed
    BY DEF NotSubscribed
  <2>6. ASSUME Ends(followed, a, t) \/ Told(t)
        PROVE  Told(t)'
    <3>1. \/ Ends(followed, a, t)
          \/ /\ Told(t) /\ Mute(followed, a)
             /\ \A v : Fits(followed, v, t) => Fits(followed, v, t)
      BY <1>11, <2>3, <2>6
    <3>. QED BY <1>1, <1>7, <1>11, <3>1, ToldMore
  <2>7. CASE WillAnswer
    <3>1. PICK i \in AskedIt(followed) :
            subscription # NotSubscribed \/ \E j \in AskedIt("subscribe") : j < i
      BY <2>7 DEF WillAnswer
    <3>2. i \in Nat /\ i >= 1 /\ (i > 1 => i - 1 \in AskedIt(followed)')
      BY <1>7, <1>16
    <3>3. CASE i = 1
      <4>1. mine /\ m.cmd = followed
        BY <1>4, <1>16, <2>2, <3>1, <3>3
      <4>2. subscription # NotSubscribed
        BY <1>16, <3>1, <3>3
      <4>3. CASE m.cmd = "building" /\ raises
        BY <1>6, <1>23, <2>4, <2>5, <4>2, <4>3 DEF InSync, MayRaise
      <4>4. CASE ~(m.cmd = "building" /\ raises)
        <5>1. Told(t)'
          BY <1>13, <2>3, <2>6, <4>1, <4>4
        <5>. QED BY <1>23, <2>4, <2>5, <4>2, <5>1 DEF InSync, Told
      <4>. QED BY <4>3, <4>4
    <3>4. CASE i > 1
      <4>1. i - 1 \in AskedIt(followed)'
        BY <3>2, <3>4
      <4>2. CASE subscription # NotSubscribed
        <5>1. WillAnswer'
          BY <1>7, <1>23, <2>5, <4>1, <4>2 DEF WillAnswer
        <5>. QED BY <5>1 DEF InSync
      <4>3. CASE \E j \in AskedIt("subscribe") : j < i
        <5>1. PICK j \in AskedIt("subscribe") : j < i
          BY <4>3
        <5>2. j \in Nat /\ j >= 1 /\ (j > 1 => j - 1 \in AskedIt("subscribe")')
          BY <1>16
        <5>3. CASE j = 1
          <6>1. subscription' # NotSubscribed
            BY <1>24, <2>2, <5>1, <5>3, Times
          <6>2. WillAnswer'
            BY <1>7, <2>5, <4>1, <6>1 DEF WillAnswer
          <6>. QED BY <6>2 DEF InSync
        <5>4. CASE j > 1
          <6>1. j - 1 \in AskedIt("subscribe")' /\ j - 1 < i - 1
            BY <3>2, <5>1, <5>2, <5>4
          <6>2. WillAnswer'
            BY <1>7, <4>1, <6>1 DEF WillAnswer
          <6>. QED BY <6>2 DEF InSync
        <5>. QED BY <5>2, <5>3, <5>4
      <4>. QED BY <3>1, <4>2, <4>3
    <3>. QED BY <3>2, <3>3, <3>4
  <2>8. CASE subscription # NotSubscribed /\ (Leftover \/ Told(Truth[followed]))
    <3>1. Leftover' \/ Told(t)'
      BY <2>3, <2>4, <2>6, <2>8
    <3>. QED BY <1>23, <2>4, <2>5, <2>8, <3>1 DEF InSync, Told
  <2>. QED BY <1>1, <2>2, <2>7, <2>8 DEF InSync
<1>. QED BY <1>15, <1>18, <1>19, <1>20, <1>22, <1>25, <1>26 DEF ViewInv

\* More is asked, of masters that there are.
LEMMA UpType ==
  ASSUME ViewTypeOK, NEW r \in Seq(UpMessages), up' = up \o r, incarnation' = incarnation,
         \A i \in 1 .. Len(r) : r[i].to <= incarnation
  PROVE  up' \in Seq(UpMessages) /\ \A i \in 1 .. Len(up') : up'[i].to <= incarnation'
<1>1. up \in Seq(UpMessages) /\ \A i \in 1 .. Len(up) : up[i].to <= incarnation
  BY DEF ViewTypeOK
<1>2. PICK u : u = up \o r
  OBVIOUS
<1>3. /\ u \in Seq(UpMessages)
      /\ \A i \in 1 .. Len(u) : \/ i \in 1 .. Len(up) /\ u[i] = up[i]
                                \/ \E j \in 1 .. Len(r) : i = Len(up) + j /\ u[i] = r[j]
  BY <1>1, <1>2, More, MoreOf
<1>. QED BY <1>1, <1>2, <1>3

\* What the client takes is one message less.
LEMMA DownLess ==
  ASSUME ViewTypeOK, FromIt, down # <<>>, down' = Tail(down),
         UNCHANGED <<incarnation, calm, trouble>>
  PROVE  /\ Head(down) \in DownMessages /\ Head(down).from \in 1 .. incarnation
         /\ trouble = 0 \/ calm >= 1 => Head(down).from = incarnation
         /\ down' \in Seq(DownMessages) /\ FromIt'
         /\ \A i \in 1 .. Len(down') : down'[i].from \in 1 .. incarnation'
<1>1. /\ down \in Seq(DownMessages)
      /\ \A i \in 1 .. Len(down) : down[i].from \in 1 .. incarnation
  BY DEF ViewTypeOK
<1>2. /\ Head(down) = down[1] /\ down[1] \in DownMessages
      /\ Len(down) \in Nat /\ Len(down) >= 1
      /\ down' \in Seq(DownMessages) /\ Len(down') = Len(down) - 1
      /\ \A i \in 1 .. Len(down) - 1 : down'[i] = down[i + 1]
  BY <1>1, Rest
<1>3. \A i \in 1 .. Len(down') : i + 1 \in 1 .. Len(down) /\ down'[i] = down[i + 1]
  BY <1>2
<1>4. \A i \in 1 .. Len(down') : down'[i].from \in 1 .. incarnation'
  BY <1>1, <1>3
<1>5. trouble = 0 \/ calm >= 1 => /\ Head(down).from = incarnation
                                  /\ \A i \in 1 .. Len(down') : down'[i].from = incarnation
  BY <1>2, <1>3 DEF FromIt
<1>6. FromIt'
  BY <1>5 DEF FromIt
<1>. QED BY <1>1, <1>2, <1>4, <1>5, <1>6

\* A master that the client did not know: it becomes a proxy.
LEMMA NewProxyView ==
  ASSUME ViewInv, ClientReceives, address = 0
  PROVE  ViewInv'
<1>1. /\ ViewTypeOK /\ FirstRun /\ FromIt /\ Dead /\ FindsIt /\ HearsIt /\ GreenRight
      /\ InSync /\ Remembered
  BY DEF ViewInv
<1>2. PICK a : a = Head(down).from
  OBVIOUS
<1>3. PICK r : r = RefreshOne(a)
  OBVIOUS
<1>4. /\ down # <<>> /\ down' = Tail(down)
      /\ address' = a /\ up' = up \o r /\ sinceRefresh' = 0
      /\ UNCHANGED <<sinceResponse, copy, green>>
  BY <1>2, <1>3 DEF ClientReceives, RefreshOne
<1>5. /\ UNCHANGED <<state, task, error, valve, G, comp, remaining, queue, building, finished,
                     successful, fails, nodes, proxy, pending>>
      /\ UNCHANGED <<alive, incarnation, subscription, followed, selected, sinceSearch, calm,
                     trouble>>
  BY DEF ClientReceives, controller, vars, interface
<1>6. selected = FALSE /\ incarnation \in Nat \ {0} /\ up \in Seq(UpMessages)
      /\ calm \in Nat /\ sinceSearch \in Nat
  BY <1>1, Times DEF ViewTypeOK
<1>7. /\ a \in 1 .. incarnation
      /\ trouble = 0 \/ calm >= 1 => a = incarnation
      /\ down' \in Seq(DownMessages) /\ FromIt'
      /\ \A i \in 1 .. Len(down') : down'[i].from \in 1 .. incarnation'
  BY <1>1, <1>2, <1>4, <1>5, DownLess
<1>8. a \in Nat /\ a \in 0 .. incarnation /\ a # 0 /\ a <= incarnation
  BY <1>6, <1>7
<1>9. r \in Seq(UpMessages) /\ Len(r) = 1 /\ r[1].to = a /\ r[1].cmd = "identify"
  BY <1>3, <1>8, RefreshOneIs
<1>10. \A i \in 1 .. Len(r) : r[i].to <= incarnation
  BY <1>8, <1>9
<1>11. up' \in Seq(UpMessages) /\ \A i \in 1 .. Len(up') : up'[i].to <= incarnation'
  BY <1>1, <1>4, <1>5, <1>9, <1>10, UpType
<1>12. TypeOK'
  BY <1>1, <1>5 DEF ViewTypeOK, TypeOK
<1>13. ViewTypeOK'
  <2>1. sinceRefresh' \in 0 .. RefreshAfter
    BY <1>4, Times
  <2>. QED BY <1>1, <1>4, <1>5, <1>6, <1>7, <1>8, <1>11, <1>12, <2>1
              DEF ViewTypeOK, NotSubscribed, Settled
<1>14. FirstRun' /\ GreenRight'
  BY <1>1, <1>4, <1>5 DEF FirstRun, GreenRight, IsResponding
<1>15. Dead'
  BY <1>1, <1>4, <1>5 DEF Dead
<1>16. alive /\ calm > sinceSearch => sinceSearch = 0 /\ a = incarnation
  BY <1>1, <1>6, <1>7 DEF FindsIt, Heard
<1>17. a = incarnation => Pending'
  <2>1. SUFFICES ASSUME a = incarnation PROVE Pending'
    OBVIOUS
  <2>2. 1 \in 1 .. Len(r) /\ r[1].to \in {0, incarnation}
    BY <1>9, <2>1
  <2>3. Len(up) + 1 \in AskedIt(r[1].cmd)'
    BY <1>4, <1>5, <1>6, <1>9, <2>2, AsksMore
  <2>. QED BY <1>9, <2>3 DEF Pending
<1>18. FindsIt'
  BY <1>5, <1>16, <1>17 DEF FindsIt
<1>19. HearsIt'
  <2>1. ~(alive /\ calm > sinceSearch + SearchAfter)
    BY <1>1, <1>6 DEF HearsIt
  <2>. QED BY <1>5, <2>1 DEF HearsIt
<1>20. InSync' /\ Remembered'
  BY <1>5, <1>6 DEF InSync, Remembered, Certain
<1>. QED BY <1>7, <1>13, <1>14, <1>15, <1>18, <1>19, <1>20 DEF ViewInv

\* The proxy knows what it is told.
LEMMA ToldLess ==
  ASSUME ViewTypeOK, NEW t, Told(t), down # <<>>, down' = Tail(down), followed' = followed,
         copy' = IF Head(down).domain = followed THEN Head(down).value ELSE copy
  PROVE  Told(t)'
<1>1. down \in Seq(DownMessages)
  BY DEF ViewTypeOK
<1>2. /\ Ends(followed, down, t) =>
           \/ Ends(followed, down', t)
           \/ Mute(followed, down') /\ Head(down).domain = followed
              /\ Fits(followed, Head(down).value, t)
      /\ Mute(followed, down) => Mute(followed, down') /\ Head(down).domain # followed
  BY <1>1, EndsLess
<1>3. CASE Ends(followed, down, t)
  BY <1>2, <1>3 DEF Told
<1>4. CASE Mute(followed, down) /\ Fits(followed, copy, t)
  BY <1>2, <1>4 DEF Told
<1>. QED BY <1>3, <1>4 DEF Told

\* A message for a proxy.
LEMMA ProxyView ==
  ASSUME ViewInv, ClientReceives, address # 0
  PROVE  ViewInv'
<1>1. /\ ViewTypeOK /\ FirstRun /\ FromIt /\ Dead /\ FindsIt /\ HearsIt /\ GreenRight
      /\ InSync /\ Remembered
  BY DEF ViewInv
<1>2. PICK m : m = Head(down)
  OBVIOUS
<1>3. /\ down # <<>> /\ down' = Tail(down)
      /\ copy' = IF m.domain = followed THEN m.value ELSE copy
      /\ sinceResponse' = 0
      /\ green' = (green \/ (selected /\ LedAfter(sinceResponse)))
  BY <1>2 DEF ClientReceives, Copied
<1>4. \/ /\ address # m.from /\ address' = m.from /\ sinceRefresh' = 0
         /\ up' = up \o Refresh(m.from, selected)
      \/ address = m.from /\ UNCHANGED <<address, up, sinceRefresh>>
  BY <1>2 DEF ClientReceives, SetYambAddr
<1>5. /\ UNCHANGED <<state, task, error, valve, G, comp, remaining, queue, building, finished,
                     successful, fails, nodes, proxy, pending>>
      /\ UNCHANGED <<alive, incarnation, subscription, followed, selected, sinceSearch, calm,
                     trouble>>
  BY DEF ClientReceives, controller, vars, interface
<1>6. /\ incarnation \in Nat \ {0} /\ up \in Seq(UpMessages) /\ followed \in Domains
      /\ calm \in Nat /\ sinceSearch \in Nat /\ sinceResponse \in Nat
      /\ selected \in BOOLEAN /\ green \in BOOLEAN /\ copy \in Values
  BY <1>1, Times DEF ViewTypeOK
<1>7. /\ m \in DownMessages /\ m.from \in 1 .. incarnation
      /\ trouble = 0 \/ calm >= 1 => m.from = incarnation
      /\ down' \in Seq(DownMessages) /\ FromIt'
      /\ \A i \in 1 .. Len(down') : down'[i].from \in 1 .. incarnation'
  BY <1>1, <1>2, <1>3, <1>5, DownLess
<1>8. m.from \in Nat /\ m.from \in 0 .. incarnation /\ m.from # 0 /\ m.from <= incarnation
      /\ address' = m.from
  BY <1>4, <1>6, <1>7
<1>9. PICK r : r = IF address = m.from THEN <<>> ELSE Refresh(m.from, selected)
  OBVIOUS
<1>10. up' = up \o r
  <2>1. up \o <<>> = up
    BY <1>6
  <2>. QED BY <1>4, <1>9, <2>1
<1>11. address # m.from /\ selected => r = RefreshAll(m.from)
  BY <1>6, <1>9 DEF RefreshAll
<1>12. r \in Seq(UpMessages) /\ \A i \in 1 .. Len(r) : r[i].to <= incarnation
  <2>1. CASE address = m.from
    <3>1. r = <<>>
      BY <1>9, <2>1
    <3>2. r \in Seq(UpMessages) /\ Len(r) = 0
      BY <3>1
    <3>. QED BY <3>2
  <2>2. CASE address # m.from /\ selected
    <3>1. r \in Seq(UpMessages) /\ Len(r) = 6 /\ \A i \in 1 .. 6 : r[i].to = m.from
      BY <1>8, <1>11, <2>2, RefreshAllIs
    <3>. QED BY <1>8, <3>1
  <2>3. CASE address # m.from /\ ~selected
    <3>1. r = RefreshOne(m.from)
      BY <1>6, <1>9, <2>3 DEF RefreshOne
    <3>2. r \in Seq(UpMessages) /\ Len(r) = 1 /\ r[1].to = m.from
      BY <1>8, <3>1, RefreshOneIs
    <3>. QED BY <1>8, <3>2
  <2>. QED BY <2>1, <2>2, <2>3
<1>13. up' \in Seq(UpMessages) /\ \A i \in 1 .. Len(up') : up'[i].to <= incarnation'
  BY <1>1, <1>5, <1>10, <1>12, UpType
<1>14. TypeOK'
  BY <1>1, <1>5 DEF ViewTypeOK, TypeOK
<1>15. copy' \in Values /\ green' \in BOOLEAN
  BY <1>3, <1>6, <1>7 DEF DownMessages
<1>16. ViewTypeOK'
  <2>1. sinceRefresh' \in 0 .. RefreshAfter /\ sinceResponse' \in 0 .. Responds
    <3>1. sinceRefresh' = 0 \/ sinceRefresh' = sinceRefresh
      BY <1>4
    <3>2. sinceRefresh \in 0 .. RefreshAfter
      BY <1>1 DEF ViewTypeOK
    <3>. QED BY <1>3, <3>1, <3>2, Times
  <2>. QED BY <1>1, <1>5, <1>7, <1>8, <1>13, <1>14, <1>15, <2>1
              DEF ViewTypeOK, NotSubscribed, Settled
<1>17. FirstRun'
  BY <1>1, <1>5 DEF FirstRun
<1>18. Dead'
  BY <1>1, <1>3, <1>5 DEF Dead
<1>19. FindsIt'
  BY <1>3, <1>5, <1>6, <1>7, <1>8 DEF FindsIt, Heard
<1>20. green' => selected
  BY <1>1, <1>3 DEF GreenRight
<1>21. GreenRight'
  BY <1>3, <1>5, <1>20, Times DEF GreenRight, IsResponding
<1>22. HearsIt'
  <2>1. SUFFICES ASSUME alive, calm > sinceSearch + SearchAfter PROVE HearsIt'
    BY <1>5 DEF HearsIt
  <2>2. m.from = incarnation
    BY <1>6, <1>7, <2>1, Times
  <2>3. sinceResponse < Responds
    BY <1>1, <2>1 DEF HearsIt
  <2>4. selected => green'
    BY <1>3, <2>3 DEF LedAfter, IsResponding
  <2>. QED BY <1>3, <1>5, <1>8, <2>2, <2>4, Times DEF HearsIt
<1>23. CASE address # m.from
  <2>1. SUFFICES ASSUME Certain' PROVE InSync' /\ Remembered'
    BY <1>7, <1>16, <1>17, <1>18, <1>19, <1>21, <1>22 DEF ViewInv, InSync, Remembered
  <2>2. selected /\ m.from = incarnation'
    BY <1>5, <1>8, <2>1 DEF Certain
  <2>3. WillAnswer' /\ AskedIt("subscribe")' # {}
    BY <1>5, <1>6, <1>8, <1>10, <1>11, <1>23, <2>2, RefreshAnswers
  <2>. QED BY <2>3 DEF InSync, Remembered
<1>24. CASE address = m.from
  <2>1. UNCHANGED <<address, up, sinceRefresh>>
    BY <1>4, <1>24
  <2>2. \A c : AskedIt(c)' = AskedIt(c)
    BY <1>5, <2>1, AsksStay
  <2>3. Remembered'
    BY <1>1, <1>5, <2>1, <2>2 DEF Remembered, Certain
  <2>4. InSync'
    <3>1. SUFFICES ASSUME Certain' PROVE InSync'
      BY DEF InSync
    <3>2. Certain
      BY <1>5, <2>1, <3>1 DEF Certain
    <3>3. CASE WillAnswer
      <4>1. WillAnswer'
        BY <1>5, <2>2, <3>3 DEF WillAnswer, NotSubscribed
      <4>. QED BY <4>1 DEF InSync
    <3>4. CASE subscription # NotSubscribed /\ (Leftover \/ Told(Truth[followed]))
      <4>1. PICK t : t = Truth[followed]
        OBVIOUS
      <4>2. Truth'[followed'] = t /\ (Leftover' <=> Leftover)
        BY <1>5, <4>1, TruthStays
      <4>3. Told(t) => Told(t)'
        BY <1>1, <1>2, <1>3, <1>5, ToldLess
      <4>4. subscription' # NotSubscribed'
        BY <1>5, <3>4 DEF NotSubscribed
      <4>. QED BY <3>4, <4>1, <4>2, <4>3, <4>4 DEF InSync, Told
    <3>. QED BY <1>1, <3>2, <3>3, <3>4 DEF InSync
  <2>. QED BY <1>7, <1>16, <1>17, <1>18, <1>19, <1>21, <1>22, <2>3, <2>4 DEF ViewInv
<1>. QED BY <1>23, <1>24

\* A second passes: what a timer shows of the seconds.
LEMMA TickCounts ==
  ASSUME ViewTypeOK, FirstRun, Tick
  PROVE  /\ calm' \in 0 .. Settled /\ calm <= calm' /\ calm' <= calm + 1
         /\ ~alive /\ calm < Settled => calm' = calm + 1
         /\ sinceResponse' \in 0 .. Responds
         /\ sinceResponse < Responds => sinceResponse' = sinceResponse + 1
         /\ sinceResponse = Responds => sinceResponse' = Responds
         /\ subscription' \in 0 .. NotSubscribed
         /\ alive /\ subscription < Expires => subscription' = subscription + 1
         /\ ~alive => subscription' = subscription
<1>1. /\ calm' = IF trouble > 0 /\ calm < Settled THEN calm + 1 ELSE calm
      /\ sinceResponse' = IF sinceResponse < Responds THEN sinceResponse + 1 ELSE sinceResponse
      /\ subscription' = IF alive THEN Aged ELSE subscription
  BY DEF Tick
<1>2. /\ calm \in 0 .. Settled /\ sinceResponse \in 0 .. Responds /\ trouble \in Nat
      /\ subscription \in 0 .. NotSubscribed /\ alive \in BOOLEAN
  BY DEF ViewTypeOK
<1>3. calm' \in 0 .. Settled /\ calm <= calm' /\ calm' <= calm + 1
  BY <1>1, <1>2, Times
<1>4. ~alive => trouble > 0
  BY <1>2 DEF FirstRun
<1>5. ~alive /\ calm < Settled => calm' = calm + 1
  BY <1>1, <1>4
<1>6. /\ sinceResponse' \in 0 .. Responds
      /\ sinceResponse < Responds => sinceResponse' = sinceResponse + 1
      /\ sinceResponse = Responds => sinceResponse' = Responds
  BY <1>1, <1>2, Times
<1>7. Aged \in 0 .. NotSubscribed /\ (subscription < Expires => Aged = subscription + 1)
  BY <1>2, Times DEF Aged
<1>. QED BY <1>1, <1>2, <1>3, <1>5, <1>6, <1>7

\* What the client asks after a second.
LEMMA TickAsks ==
  ASSUME ViewTypeOK, Tick
  PROVE  /\ up' \in Seq(UpMessages) /\ \A i \in 1 .. Len(up') : up'[i].to <= incarnation'
         /\ sinceSearch' \in 0 .. SearchAfter - 1 /\ sinceRefresh' \in 0 .. RefreshAfter
         /\ \/ sinceSearch' = 0 /\ sinceSearch = SearchAfter - 1 /\ Pending'
            \/ sinceSearch' = sinceSearch + 1
         /\ selected => \/ sinceRefresh' = sinceRefresh + 1
                        \/ address = incarnation => WillAnswer' /\ AskedIt("subscribe")' # {}
<1> DEFINE searches == sinceSearch + 1 >= SearchAfter
           refreshes == address # 0 /\ sinceRefresh + 1 > RefreshAfter
<1>1. /\ up = <<>> /\ down = <<>>
      /\ sinceSearch' = IF searches THEN 0 ELSE sinceSearch + 1
      /\ up' = (IF searches THEN To(0, <<"identify">>) ELSE <<>>)
                 \o (IF refreshes THEN Refresh(address, selected) ELSE <<>>)
      /\ sinceRefresh' = IF refreshes \/ address = 0 THEN 0 ELSE sinceRefresh + 1
      /\ UNCHANGED <<incarnation, followed, selected, address>>
  BY DEF Tick
<1>2. /\ incarnation \in Nat \ {0} /\ address \in 0 .. incarnation /\ followed \in Domains
      /\ sinceSearch \in 0 .. SearchAfter - 1 /\ sinceRefresh \in 0 .. RefreshAfter
      /\ selected \in BOOLEAN /\ (selected => address # 0)
  BY DEF ViewTypeOK
<1>3. address \in Nat /\ address <= incarnation
  BY <1>2
<1>4. PICK s : s = IF searches THEN To(0, <<"identify">>) ELSE <<>>
  OBVIOUS
<1>5. PICK r : r = IF refreshes THEN Refresh(address, selected) ELSE <<>>
  OBVIOUS
<1>6. up' = s \o r
  BY <1>1, <1>4, <1>5
<1>7. /\ s \in Seq(UpMessages) /\ Len(s) \in {0, 1}
      /\ \A i \in 1 .. Len(s) : s[i].to = 0 /\ s[i].cmd = "identify"
      /\ searches => Len(s) = 1
  <2>1. CASE searches
    <3>1. s = To(0, <<"identify">>)
      BY <1>4, <2>1
    <3>2. s \in Seq(UpMessages) /\ Len(s) = 1 /\ s[1].to = 0 /\ s[1].cmd = "identify"
      BY <3>1, SearchIs
    <3>. QED BY <3>2
  <2>2. CASE ~searches
    <3>1. s = <<>>
      BY <1>4, <2>2
    <3>2. s \in Seq(UpMessages) /\ Len(s) = 0
      BY <3>1
    <3>. QED BY <2>2, <3>2
  <2>. QED BY <2>1, <2>2
<1>8. refreshes /\ selected => r = RefreshAll(address)
  BY <1>2, <1>5 DEF RefreshAll
<1>9. r \in Seq(UpMessages) /\ \A i \in 1 .. Len(r) : r[i].to = address
  <2>1. CASE refreshes /\ selected
    <3>1. r \in Seq(UpMessages) /\ Len(r) = 6 /\ \A i \in 1 .. 6 : r[i].to = address
      BY <1>3, <1>8, <2>1, RefreshAllIs
    <3>. QED BY <3>1
  <2>2. CASE refreshes /\ ~selected
    <3>1. r = RefreshOne(address)
      BY <1>2, <1>5, <2>2 DEF RefreshOne
    <3>2. r \in Seq(UpMessages) /\ Len(r) = 1 /\ r[1].to = address
      BY <1>3, <3>1, RefreshOneIs
    <3>. QED BY <3>2
  <2>3. CASE ~refreshes
    <3>1. r = <<>>
      BY <1>5, <2>3
    <3>2. r \in Seq(UpMessages) /\ Len(r) = 0
      BY <3>1
    <3>. QED BY <3>2
  <2>. QED BY <2>1, <2>2, <2>3
<1>10. /\ up' \in Seq(UpMessages) /\ Len(s) \in Nat /\ Len(up') = Len(s) + Len(r)
       /\ \A i \in 1 .. Len(s) : up'[i] = s[i]
       /\ \A i \in 1 .. Len(up') : \/ i \in 1 .. Len(s) /\ up'[i] = s[i]
                                   \/ \E j \in 1 .. Len(r) : up'[i] = r[j]
  <2>1. s \in Seq(UpMessages) /\ r \in Seq(UpMessages)
    BY <1>7, <1>9
  <2>2. /\ up' \in Seq(UpMessages) /\ Len(s) \in Nat /\ Len(up') = Len(s) + Len(r)
        /\ \A i \in 1 .. Len(s) : up'[i] = s[i]
    BY <1>6, <2>1, More
  <2>3. \A i \in 1 .. Len(up') : \/ i \in 1 .. Len(s) /\ up'[i] = s[i]
                                 \/ \E j \in 1 .. Len(r) : up'[i] = r[j]
    BY <1>6, <2>1, MoreOf
  <2>. QED BY <2>2, <2>3
<1>11. \A i \in 1 .. Len(up') : up'[i].to <= incarnation'
  <2>1. TAKE i \in 1 .. Len(up')
  <2>2. CASE i \in 1 .. Len(s) /\ up'[i] = s[i]
    BY <1>1, <1>2, <1>7, <2>2
  <2>3. CASE \E j \in 1 .. Len(r) : up'[i] = r[j]
    BY <1>1, <1>3, <1>9, <2>3
  <2>. QED BY <1>10, <2>2, <2>3
<1>12. searches => Pending'
  <2>1. SUFFICES ASSUME searches PROVE Pending'
    OBVIOUS
  <2>2. Len(r) \in Nat
    BY <1>9
  <2>3. 1 \in 1 .. Len(up') /\ up'[1].to = 0 /\ up'[1].cmd = "identify"
    <3>1. Len(s) = 1 /\ s[1].to = 0 /\ s[1].cmd = "identify"
      BY <1>7, <2>1
    <3>2. up'[1] = s[1]
      BY <1>10, <3>1
    <3>3. Len(up') = 1 + Len(r)
      BY <1>10, <3>1
    <3>4. 1 \in 1 .. Len(up')
      BY <2>2, <3>3
    <3>. QED BY <3>1, <3>2, <3>4
  <2>4. 1 \in AskedIt("identify")'
    BY <2>3 DEF AskedIt
  <2>. QED BY <2>4 DEF Pending
<1>13. /\ sinceSearch' \in 0 .. SearchAfter - 1
       /\ \/ searches /\ sinceSearch' = 0 /\ sinceSearch = SearchAfter - 1
          \/ sinceSearch' = sinceSearch + 1
  BY <1>1, <1>2, Times
<1>14. sinceRefresh' \in 0 .. RefreshAfter
  BY <1>1, <1>2, Times
<1>15. selected => \/ sinceRefresh' = sinceRefresh + 1
                   \/ address = incarnation => WillAnswer' /\ AskedIt("subscribe")' # {}
  <2>1. SUFFICES ASSUME selected, address = incarnation, refreshes
                 PROVE  WillAnswer' /\ AskedIt("subscribe")' # {}
    BY <1>1, <1>2
  <2>2. r = RefreshAll(address) /\ address = incarnation' /\ followed' \in Domains
    BY <1>1, <1>2, <1>8, <2>1
  <2>. QED BY <1>3, <1>6, <1>7, <2>2, RefreshAnswers
<1>. QED BY <1>10, <1>11, <1>12, <1>13, <1>14, <1>15

\* A second passes.
LEMMA TickView ==
  ASSUME ViewInv, Tick
  PROVE  ViewInv'
<1>1. /\ ViewTypeOK /\ FirstRun /\ FromIt /\ Dead /\ FindsIt /\ HearsIt /\ GreenRight
      /\ InSync /\ Remembered
  BY DEF ViewInv
<1>2. /\ up = <<>> /\ down = <<>>
      /\ green' = LedAfterSecond(sinceResponse, sinceResponse')
      /\ UNCHANGED <<state, task, error, valve, G, comp, remaining, queue, building, finished,
                     successful, fails, nodes, proxy, pending>>
      /\ UNCHANGED <<alive, incarnation, followed, down, selected, address, copy, trouble>>
  BY DEF Tick, controller, vars
<1>3. /\ incarnation \in Nat \ {0} /\ calm \in 0 .. Settled
      /\ sinceSearch \in 0 .. SearchAfter - 1 /\ sinceRefresh \in 0 .. RefreshAfter
      /\ sinceResponse \in 0 .. Responds /\ subscription \in 0 .. NotSubscribed
      /\ selected \in BOOLEAN /\ green \in BOOLEAN /\ alive \in BOOLEAN
  BY <1>1 DEF ViewTypeOK
<1>4. /\ calm' \in 0 .. Settled /\ calm <= calm' /\ calm' <= calm + 1
      /\ ~alive /\ calm < Settled => calm' = calm + 1
      /\ sinceResponse' \in 0 .. Responds
      /\ sinceResponse < Responds => sinceResponse' = sinceResponse + 1
      /\ sinceResponse = Responds => sinceResponse' = Responds
      /\ subscription' \in 0 .. NotSubscribed
      /\ alive /\ subscription < Expires => subscription' = subscription + 1
  BY <1>1, TickCounts
<1>5. /\ up' \in Seq(UpMessages) /\ \A i \in 1 .. Len(up') : up'[i].to <= incarnation'
      /\ sinceSearch' \in 0 .. SearchAfter - 1 /\ sinceRefresh' \in 0 .. RefreshAfter
      /\ \/ sinceSearch' = 0 /\ sinceSearch = SearchAfter - 1 /\ Pending'
         \/ sinceSearch' = sinceSearch + 1
      /\ selected => \/ sinceRefresh' = sinceRefresh + 1
                     \/ address = incarnation => WillAnswer' /\ AskedIt("subscribe")' # {}
  BY <1>1, TickAsks
<1>6. \A c : AskedIt(c) = {}
  BY <1>2 DEF AskedIt
<1>7. ~Pending /\ ~WillAnswer
  BY <1>2, <1>6 DEF Pending, WillAnswer
<1>8. TypeOK'
  BY <1>1, <1>2 DEF ViewTypeOK, TypeOK
<1>9. green' \in BOOLEAN /\ (green' => green)
  BY <1>2, <1>3 DEF LedAfterSecond
<1>10. ViewTypeOK'
  BY <1>1, <1>2, <1>4, <1>5, <1>8, <1>9 DEF ViewTypeOK, NotSubscribed, Settled
<1>11. FirstRun' /\ FromIt'
  <2>1. Len(down) = 0
    BY <1>2
  <2>2. \A i \in 1 .. Len(down') : down'[i].from = incarnation'
    BY <1>2, <2>1
  <2>. QED BY <1>1, <1>2, <2>2 DEF FirstRun, FromIt
<1>12. Dead'
  <2>1. SUFFICES ASSUME ~alive, calm' >= 1
                 PROVE  sinceResponse' >= calm' \/ sinceResponse' = Responds
    BY <1>2 DEF Dead
  <2>2. CASE calm = 0
    BY <1>3, <1>4, <2>1, <2>2, Times
  <2>3. CASE calm >= 1
    <3>1. sinceResponse >= calm \/ sinceResponse = Responds
      BY <1>1, <2>1, <2>3 DEF Dead
    <3>. QED BY <1>3, <1>4, <2>1, <3>1, Times
  <2>. QED BY <1>3, <2>2, <2>3, Times
<1>13. alive /\ calm > sinceSearch => address = incarnation /\ sinceResponse <= sinceSearch
  BY <1>1, <1>7 DEF FindsIt, Heard
<1>14. FindsIt'
  <2>1. SUFFICES ASSUME alive, calm' > sinceSearch' PROVE FindsIt'
    BY <1>2 DEF FindsIt
  <2>2. CASE sinceSearch' = 0 /\ Pending'
    BY <2>2 DEF FindsIt
  <2>3. CASE sinceSearch' = sinceSearch + 1
    <3>1. calm > sinceSearch
      BY <1>3, <1>4, <2>1, <2>3, Times
    <3>2. address = incarnation /\ sinceResponse' <= sinceSearch'
      BY <1>3, <1>4, <1>13, <2>1, <2>3, <3>1, Times
    <3>. QED BY <1>2, <3>2 DEF FindsIt, Heard
  <2>. QED BY <1>5, <2>2, <2>3
<1>15. IsResponding(sinceResponse) /\ IsResponding(sinceResponse') => green' = green
  BY <1>2 DEF LedAfterSecond
<1>16. HearsIt'
  <2>1. SUFFICES ASSUME alive, calm' > sinceSearch' + SearchAfter PROVE HearsIt'
    BY <1>2 DEF HearsIt
  <2>2. calm > sinceSearch
    <3>1. sinceSearch' = 0 \/ sinceSearch' = sinceSearch + 1
      BY <1>5
    <3>2. calm \in Nat /\ sinceSearch \in Nat /\ sinceSearch < SearchAfter /\ calm' \in Nat
      BY <1>3, <1>4, Times
    <3>. QED BY <1>4, <2>1, <3>1, <3>2, Times
  <2>3. address = incarnation /\ sinceResponse <= sinceSearch
    BY <1>13, <2>1, <2>2
  <2>4. sinceResponse < Responds /\ sinceResponse' < Responds
    BY <1>3, <1>4, <2>3, Times
  <2>5. CASE sinceSearch' = 0 /\ Pending'
    BY <1>2, <2>3, <2>4, <2>5, Times DEF HearsIt
  <2>6. CASE sinceSearch' = sinceSearch + 1
    <3>1. calm > sinceSearch + SearchAfter
      BY <1>3, <1>4, <2>1, <2>6, Times
    <3>2. selected => green
      BY <1>1, <1>7, <2>1, <3>1 DEF HearsIt
    <3>3. green' = green
      BY <1>15, <2>4 DEF IsResponding
    <3>. QED BY <1>2, <2>3, <2>4, <3>2, <3>3, Times DEF HearsIt
  <2>. QED BY <1>5, <2>5, <2>6
<1>17. GreenRight'
  <2>1. SUFFICES ASSUME green' PROVE GreenRight'
    BY DEF GreenRight
  <2>2. selected /\ IsResponding(sinceResponse)
    BY <1>1, <1>9, <2>1 DEF GreenRight
  <2>3. IsResponding(sinceResponse')
    BY <1>2, <2>1, <2>2 DEF LedAfterSecond
  <2>. QED BY <1>2, <2>2, <2>3 DEF GreenRight, IsResponding
<1>18. ASSUME Certain'
       PROVE  \/ WillAnswer' /\ AskedIt("subscribe")' # {}
              \/ Certain /\ sinceRefresh' = sinceRefresh + 1
  <2>1. selected /\ alive /\ address = incarnation /\ (trouble = 0 \/ sinceRefresh' < calm')
    BY <1>2, <1>18 DEF Certain
  <2>2. CASE sinceRefresh' = sinceRefresh + 1
    <3>1. trouble = 0 \/ sinceRefresh < calm
      BY <1>3, <1>4, <2>1, <2>2, Times
    <3>. QED BY <2>1, <2>2, <3>1 DEF Certain
  <2>. QED BY <1>5, <2>1, <2>2
<1>19. Certain => subscription <= sinceRefresh /\ subscription < Expires
  BY <1>1, <1>3, <1>6, Times DEF Remembered
<1>20. Certain => subscription' = subscription + 1
  BY <1>4, <1>19 DEF Certain
<1>21. Remembered'
  <2>1. SUFFICES ASSUME Certain, sinceRefresh' = sinceRefresh + 1
                 PROVE  subscription' <= sinceRefresh'
    BY <1>18 DEF Remembered
  <2>. QED BY <1>3, <1>19, <1>20, <2>1, Times
<1>22. InSync'
  <2>1. SUFFICES ASSUME Certain PROVE InSync'
    BY <1>18 DEF InSync
  <2>2. Leftover \/ Told(Truth[followed])
    BY <1>1, <1>7, <2>1 DEF InSync
  <2>3. PICK t : t = Truth[followed]
    OBVIOUS
  <2>4. Truth'[followed'] = t /\ (Leftover' <=> Leftover)
    BY <1>2, <2>3, TruthStays
  <2>5. Told(t) => Told(t)'
    BY <1>2 DEF Told
  <2>6. subscription' # NotSubscribed'
    BY <1>3, <1>19, <1>20, <2>1, Times DEF NotSubscribed
  <2>. QED BY <2>2, <2>3, <2>4, <2>5, <2>6 DEF InSync, Told
<1>. QED BY <1>10, <1>11, <1>12, <1>14, <1>16, <1>17, <1>21, <1>22 DEF ViewInv

\* The window shows the master.
LEMMA SelectView ==
  ASSUME ViewInv, Select
  PROVE  ViewInv'
<1>1. /\ ViewTypeOK /\ FirstRun /\ FromIt /\ Dead /\ FindsIt /\ HearsIt /\ GreenRight
  BY DEF ViewInv
<1>2. PICK r : r = RefreshAll(address)
  OBVIOUS
<1>3. /\ address # 0 /\ selected' = TRUE /\ up' = up \o r /\ sinceRefresh' = 0
      /\ green' = IsResponding(sinceResponse)
  BY <1>2 DEF Select, RefreshAll
<1>4. /\ UNCHANGED <<state, task, error, valve, G, comp, remaining, queue, building, finished,
                     successful, fails, nodes, proxy, pending>>
      /\ UNCHANGED <<alive, incarnation, subscription, followed, down, address, sinceResponse,
                     sinceSearch, copy, calm, trouble>>
  BY DEF Select, controller, vars, interface
<1>5. /\ incarnation \in Nat \ {0} /\ address \in 0 .. incarnation /\ followed \in Domains
      /\ up \in Seq(UpMessages)
  BY <1>1 DEF ViewTypeOK
<1>6. address \in Nat /\ address <= incarnation
  BY <1>5
<1>7. r \in Seq(UpMessages) /\ \A i \in 1 .. Len(r) : r[i].to <= incarnation
  <2>1. r \in Seq(UpMessages) /\ Len(r) = 6 /\ \A i \in 1 .. 6 : r[i].to = address
    BY <1>2, <1>6, RefreshAllIs
  <2>. QED BY <1>6, <2>1
<1>8. up' \in Seq(UpMessages) /\ \A i \in 1 .. Len(up') : up'[i].to <= incarnation'
  BY <1>1, <1>3, <1>4, <1>7, UpType
<1>9. TypeOK'
  BY <1>1, <1>4 DEF ViewTypeOK, TypeOK
<1>10. ViewTypeOK'
  <2>1. sinceRefresh' \in 0 .. RefreshAfter /\ green' \in BOOLEAN
    BY <1>3, Times DEF IsResponding
  <2>. QED BY <1>1, <1>3, <1>4, <1>8, <1>9, <2>1 DEF ViewTypeOK, NotSubscribed, Settled
<1>11. FirstRun' /\ FromIt' /\ Dead'
  BY <1>1, <1>4 DEF FirstRun, FromIt, Dead
<1>12. GreenRight'
  BY <1>3, <1>4 DEF GreenRight, IsResponding
<1>13. Pending => Pending'
  <2>1. AskedIt("identify") \subseteq AskedIt("identify")'
    BY <1>3, <1>4, <1>5, <1>7, AsksMore
  <2>. QED BY <1>4, <2>1 DEF Pending
<1>14. FindsIt'
  BY <1>1, <1>4, <1>13 DEF FindsIt, Heard
<1>15. HearsIt'
  BY <1>1, <1>3, <1>4 DEF HearsIt, IsResponding
<1>16. Certain' => WillAnswer' /\ AskedIt("subscribe")' # {}
  <2>1. SUFFICES ASSUME Certain' PROVE WillAnswer' /\ AskedIt("subscribe")' # {}
    OBVIOUS
  <2>2. address = incarnation'
    BY <1>4, <2>1 DEF Certain
  <2>. QED BY <1>2, <1>3, <1>4, <1>5, <1>6, <2>2, RefreshAnswers
<1>17. InSync' /\ Remembered'
  BY <1>16 DEF InSync, Remembered
<1>. QED BY <1>10, <1>11, <1>12, <1>14, <1>15, <1>17 DEF ViewInv

\* The window shows something else.
LEMMA DeselectView ==
  ASSUME ViewInv, Deselect
  PROVE  ViewInv'
<1>1. /\ ViewTypeOK /\ FirstRun /\ FromIt /\ Dead /\ FindsIt /\ HearsIt
  BY DEF ViewInv
<1>2. /\ selected' = FALSE /\ green' = FALSE
      /\ UNCHANGED <<state, task, error, valve, G, comp, remaining, queue, building, finished,
                     successful, fails, nodes, proxy, pending>>
      /\ UNCHANGED <<alive, incarnation, subscription, followed, up, down, trouble, address,
                     sinceRefresh, sinceResponse, sinceSearch, copy, calm>>
  BY DEF Deselect, controller, vars, interface, network
<1>3. TypeOK'
  BY <1>1, <1>2 DEF ViewTypeOK, TypeOK
<1>4. ViewTypeOK'
  BY <1>1, <1>2, <1>3 DEF ViewTypeOK, NotSubscribed, Settled
<1>5. FirstRun' /\ FromIt' /\ Dead'
  BY <1>1, <1>2 DEF FirstRun, FromIt, Dead
<1>6. \A c : AskedIt(c)' = AskedIt(c)
  BY <1>2, AsksStay
<1>7. Pending => Pending'
  BY <1>2, <1>6 DEF Pending
<1>8. FindsIt' /\ HearsIt'
  BY <1>1, <1>2, <1>7 DEF FindsIt, HearsIt, Heard
<1>9. GreenRight' /\ InSync' /\ Remembered'
  BY <1>2 DEF GreenRight, InSync, Remembered, Certain
<1>. QED BY <1>4, <1>5, <1>8, <1>9 DEF ViewInv

\* How messages are put together makes no difference.
LEMMA Joins ==
  ASSUME NEW S, NEW p \in Seq(S), NEW q \in Seq(S), NEW r \in Seq(S)
  PROVE  (p \o q) \o r = p \o (q \o r)
  BY SMTT(60)

\* The operator presses refresh.
LEMMA RefreshClickedView ==
  ASSUME ViewInv, RefreshClicked
  PROVE  ViewInv'
<1>1. /\ ViewTypeOK /\ FirstRun /\ FromIt /\ Dead /\ FindsIt /\ HearsIt /\ GreenRight
  BY DEF ViewInv
<1>2. PICK r : r = RefreshAll(address)
  OBVIOUS
<1>3. PICK s : s = To(0, <<"identify">>)
  OBVIOUS
<1>4. PICK u : u = up \o s
  OBVIOUS
<1>5. selected /\ up' = u \o r /\ sinceSearch' = 0 /\ sinceRefresh' = 0
  BY <1>2, <1>3, <1>4 DEF RefreshClicked, RefreshAll
<1>6. /\ UNCHANGED <<state, task, error, valve, G, comp, remaining, queue, building, finished,
                     successful, fails, nodes, proxy, pending>>
      /\ UNCHANGED <<alive, incarnation, subscription, followed, selected, down, address,
                     sinceResponse, copy, green, calm, trouble>>
  BY DEF RefreshClicked, controller, vars, interface
<1>7. /\ incarnation \in Nat \ {0} /\ address \in 0 .. incarnation /\ followed \in Domains
      /\ up \in Seq(UpMessages) /\ selected \in BOOLEAN
      /\ calm \in Nat /\ sinceSearch \in 0 .. SearchAfter - 1 /\ sinceResponse \in Nat
  BY <1>1, Times DEF ViewTypeOK
<1>8. address \in Nat /\ address <= incarnation
  BY <1>7
<1>9. s \in Seq(UpMessages) /\ Len(s) = 1 /\ s[1].to = 0 /\ s[1].cmd = "identify"
  BY <1>3, SearchIs
<1>10. r \in Seq(UpMessages) /\ Len(r) = 6 /\ \A i \in 1 .. 6 : r[i].to = address
  BY <1>2, <1>8, RefreshAllIs
<1>11. u \in Seq(UpMessages)
  BY <1>4, <1>7, <1>9, More
<1>12. PICK w : w = s \o r
  OBVIOUS
<1>13. /\ w \in Seq(UpMessages) /\ Len(w) = 7 /\ w[1] = s[1]
       /\ \A i \in 1 .. 7 : w[i].to \in {0, address}
  <2>1. /\ w \in Seq(UpMessages) /\ Len(w) = Len(s) + Len(r)
        /\ \A i \in 1 .. Len(s) : w[i] = s[i]
        /\ \A i \in 1 .. Len(w) : \/ i \in 1 .. Len(s) /\ w[i] = s[i]
                                  \/ \E j \in 1 .. Len(r) : i = Len(s) + j /\ w[i] = r[j]
    <3>1. s \in Seq(UpMessages) /\ r \in Seq(UpMessages)
      BY <1>9, <1>10
    <3>2. /\ w \in Seq(UpMessages) /\ Len(w) = Len(s) + Len(r)
          /\ \A i \in 1 .. Len(s) : w[i] = s[i]
      BY <1>12, <3>1, More
    <3>3. \A i \in 1 .. Len(w) : \/ i \in 1 .. Len(s) /\ w[i] = s[i]
                                 \/ \E j \in 1 .. Len(r) : i = Len(s) + j /\ w[i] = r[j]
      BY <1>12, <3>1, MoreOf
    <3>. QED BY <3>2, <3>3
  <2>2. Len(w) = 7 /\ w[1] = s[1]
    BY <1>9, <1>10, <2>1
  <2>3. ASSUME NEW i \in 1 .. 7
        PROVE  w[i].to \in {0, address}
    BY <1>9, <1>10, <2>1, <2>2
  <2>. QED BY <2>1, <2>2, <2>3
<1>14. up' = up \o w
  <2>1. r \in Seq(UpMessages) /\ s \in Seq(UpMessages)
    BY <1>9, <1>10
  <2>2. (up \o s) \o r = up \o (s \o r)
    BY <1>7, <2>1, Joins
  <2>. QED BY <1>4, <1>5, <1>12, <2>2
<1>15. \A i \in 1 .. Len(w) : w[i].to <= incarnation
  <2>1. TAKE i \in 1 .. Len(w)
  <2>2. w[i].to = 0 \/ w[i].to = address
    BY <1>13
  <2>. QED BY <1>7, <1>8, <2>2
<1>16. up' \in Seq(UpMessages) /\ \A i \in 1 .. Len(up') : up'[i].to <= incarnation'
  BY <1>1, <1>6, <1>13, <1>14, <1>15, UpType
<1>17. TypeOK'
  BY <1>1, <1>6 DEF ViewTypeOK, TypeOK
<1>18. ViewTypeOK'
  <2>1. sinceRefresh' \in 0 .. RefreshAfter /\ sinceSearch' \in 0 .. SearchAfter - 1
    BY <1>5, Times
  <2>. QED BY <1>1, <1>6, <1>16, <1>17, <2>1 DEF ViewTypeOK, NotSubscribed, Settled
<1>19. FirstRun' /\ FromIt' /\ Dead' /\ GreenRight'
  BY <1>1, <1>6 DEF FirstRun, FromIt, Dead, GreenRight, IsResponding
<1>20. Pending'
  <2>1. 1 \in 1 .. Len(w) /\ w[1].to \in {0, incarnation} /\ w[1].cmd = "identify"
    BY <1>9, <1>13
  <2>2. Len(up) + 1 \in AskedIt(w[1].cmd)'
    BY <1>6, <1>7, <1>13, <1>14, <2>1, AsksMore
  <2>. QED BY <2>1, <2>2 DEF Pending
<1>21. FindsIt'
  BY <1>5, <1>20 DEF FindsIt
<1>22. HearsIt'
  <2>1. SUFFICES ASSUME alive, calm > SearchAfter
                 PROVE  address = incarnation /\ sinceResponse < Responds
    BY <1>5, <1>6, <1>20, Times DEF HearsIt
  <2>2. calm > sinceSearch
    BY <1>7, <2>1, Times
  <2>3. CASE sinceSearch = 0
    BY <1>1, <2>1, <2>3, Times DEF HearsIt
  <2>4. CASE sinceSearch # 0
    <3>1. address = incarnation /\ sinceResponse <= sinceSearch
      BY <1>1, <2>1, <2>2, <2>4 DEF FindsIt, Heard
    <3>. QED BY <1>7, <3>1, Times
  <2>. QED BY <2>3, <2>4
<1>23. Certain' => WillAnswer' /\ AskedIt("subscribe")' # {}
  <2>1. SUFFICES ASSUME Certain' PROVE WillAnswer' /\ AskedIt("subscribe")' # {}
    OBVIOUS
  <2>2. address = incarnation'
    BY <1>6, <2>1 DEF Certain
  <2>. QED BY <1>2, <1>5, <1>6, <1>7, <1>8, <1>11, <2>2, RefreshAnswers
<1>24. InSync' /\ Remembered'
  BY <1>23 DEF InSync, Remembered
<1>. QED BY <1>18, <1>19, <1>21, <1>22, <1>24 DEF ViewInv

\* Just after trouble little is known.
LEMMA AfterTrouble ==
  ASSUME ViewTypeOK', GreenRight', calm' = 0, trouble' # 0
  PROVE  ViewInv'
<1>1. /\ sinceSearch' \in Nat /\ sinceRefresh' \in Nat /\ SearchAfter \in Nat
  BY Times DEF ViewTypeOK
<1>2. FirstRun' /\ FromIt' /\ Dead'
  BY DEF FirstRun, FromIt, Dead
<1>3. FindsIt' /\ HearsIt'
  <2>1. PICK s : s = sinceSearch'
    OBVIOUS
  <2>2. s \in Nat /\ SearchAfter \in Nat
    BY <1>1, <2>1
  <2>3. ~(0 > s) /\ ~(0 > s + SearchAfter)
    BY <2>2
  <2>4. ~(calm' > sinceSearch') /\ ~(calm' > sinceSearch' + SearchAfter)
    BY <2>1, <2>3
  <2>. QED BY <2>4 DEF FindsIt, HearsIt
<1>4. ~Certain'
  BY <1>1 DEF Certain
<1>. QED BY <1>2, <1>3, <1>4 DEF ViewInv, InSync, Remembered

\* A message is lost.
LEMMA LoseView ==
  ASSUME ViewInv, Lose
  PROVE  ViewInv'
<1>1. ViewTypeOK /\ GreenRight
  BY DEF ViewInv
<1>2. /\ \/ up # <<>> /\ up' = Tail(up) /\ down' = down
         \/ down # <<>> /\ down' = Tail(down) /\ up' = up
      /\ trouble' = trouble + 1 /\ calm' = 0
      /\ UNCHANGED <<state, task, error, valve, G, comp, remaining, queue, building, finished,
                     successful, fails, nodes, proxy, pending>>
      /\ UNCHANGED <<alive, incarnation, subscription, followed, selected, address, sinceRefresh,
                     sinceResponse, sinceSearch, copy, green>>
  BY DEF Lose, GoesWrong, controller, vars, interface, client
<1>3. /\ up \in Seq(UpMessages) /\ down \in Seq(DownMessages) /\ trouble \in Nat
      /\ \A i \in 1 .. Len(up) : up[i].to <= incarnation
      /\ \A i \in 1 .. Len(down) : down[i].from \in 1 .. incarnation
  BY <1>1 DEF ViewTypeOK
<1>4. up' \in Seq(UpMessages) /\ \A i \in 1 .. Len(up') : up'[i].to <= incarnation
  <2>1. CASE up # <<>> /\ up' = Tail(up)
    <3>1. /\ up' \in Seq(UpMessages) /\ Len(up') = Len(up) - 1 /\ Len(up) \in Nat
          /\ \A i \in 1 .. Len(up) - 1 : up'[i] = up[i + 1]
      BY <1>3, <2>1, Rest
    <3>2. \A i \in 1 .. Len(up') : i + 1 \in 1 .. Len(up) /\ up'[i] = up[i + 1]
      BY <3>1
    <3>. QED BY <1>3, <3>1, <3>2
  <2>. QED BY <1>2, <1>3, <2>1
<1>5. down' \in Seq(DownMessages) /\ \A i \in 1 .. Len(down') : down'[i].from \in 1 .. incarnation
  <2>1. CASE down # <<>> /\ down' = Tail(down)
    <3>1. /\ down' \in Seq(DownMessages) /\ Len(down') = Len(down) - 1 /\ Len(down) \in Nat
          /\ \A i \in 1 .. Len(down) - 1 : down'[i] = down[i + 1]
      BY <1>3, <2>1, Rest
    <3>2. \A i \in 1 .. Len(down') : i + 1 \in 1 .. Len(down) /\ down'[i] = down[i + 1]
      BY <3>1
    <3>. QED BY <1>3, <3>1, <3>2
  <2>. QED BY <1>2, <1>3, <2>1
<1>6. TypeOK'
  BY <1>1, <1>2 DEF ViewTypeOK, TypeOK
<1>7. ViewTypeOK'
  <2>1. trouble' \in Nat /\ calm' \in 0 .. Settled
    BY <1>2, <1>3, Times
  <2>. QED BY <1>1, <1>2, <1>4, <1>5, <1>6, <2>1 DEF ViewTypeOK, NotSubscribed, Settled
<1>8. GreenRight'
  BY <1>1, <1>2 DEF GreenRight, IsResponding
<1>. QED BY <1>2, <1>3, <1>7, <1>8, AfterTrouble

\* The master's process ends.
LEMMA CrashView ==
  ASSUME ViewInv, Crash
  PROVE  ViewInv'
<1>1. ViewTypeOK /\ GreenRight
  BY DEF ViewInv
<1>2. /\ alive' = FALSE /\ trouble' = trouble + 1 /\ calm' = 0
      /\ UNCHANGED <<state, task, error, valve, G, comp, remaining, queue, building, finished,
                     successful, fails, nodes, proxy, pending>>
      /\ UNCHANGED <<incarnation, subscription, up, down, followed, selected, address,
                     sinceRefresh, sinceResponse, sinceSearch, copy, green>>
  BY DEF Crash, GoesWrong, controller, vars, client
<1>3. TypeOK'
  BY <1>1, <1>2 DEF ViewTypeOK, TypeOK
<1>4. trouble \in Nat /\ trouble' \in Nat /\ calm' \in 0 .. Settled
  BY <1>1, <1>2, Times DEF ViewTypeOK
<1>5. ViewTypeOK'
  BY <1>1, <1>2, <1>3, <1>4 DEF ViewTypeOK, NotSubscribed, Settled
<1>6. GreenRight'
  BY <1>1, <1>2 DEF GreenRight, IsResponding
<1>. QED BY <1>2, <1>4, <1>5, <1>6, AfterTrouble

\* A new process begins.
LEMMA RestartView ==
  ASSUME ViewInv, Restart
  PROVE  ViewInv'
<1>1. ViewTypeOK /\ GreenRight /\ FirstRun
  BY DEF ViewInv
<1>2. /\ ~alive /\ alive' = TRUE /\ calm' = 0
      /\ incarnation' = incarnation + 1 /\ subscription' = NotSubscribed
      /\ state' = "off" /\ task' = "none" /\ error' = FALSE /\ valve' = FALSE
      /\ G' = NoGraph /\ comp' = NoComponents
      /\ remaining' = {} /\ queue' = Zero /\ building' = {} /\ finished' = {}
      /\ successful' = Zero /\ fails' = Zero
      /\ nodes' = [n \in Nodes |-> NotKnown] /\ proxy' = [n \in Nodes |-> Gone]
      /\ UNCHANGED <<pending, up, down, trouble, followed, selected, address, sinceRefresh,
                     sinceResponse, sinceSearch, copy, green>>
  BY DEF Restart, network, client
<1>3. /\ incarnation \in Nat \ {0} /\ address \in 0 .. incarnation /\ pending \subseteq Packages
      /\ up \in Seq(UpMessages) /\ down \in Seq(DownMessages) /\ trouble \in Nat
      /\ \A i \in 1 .. Len(up) : up[i].to <= incarnation
      /\ \A i \in 1 .. Len(down) : down[i].from \in 1 .. incarnation
  BY <1>1 DEF ViewTypeOK, TypeOK
<1>4. TypeOK'
  <2>1. Gone \in ReportsType
    BY DEF Gone, Plain, Shows, ReportsType
  <2>2. NoGraph \in DependencyGraphs /\ NoComponents \in [Packages -> SUBSET Packages]
    BY DEF NoGraph, NoComponents, DependencyGraphs
  <2>3. Zero \in [Packages -> Nat]
    BY DEF Zero
  <2>4. /\ nodes' \in [Nodes -> Packages \cup {NotKnown, NoTask, ResetTask}]
        /\ proxy' \in [Nodes -> ReportsType]
    BY <1>2, <2>1
  <2>. QED BY <1>2, <1>3, <2>2, <2>3, <2>4 DEF TypeOK
<1>5. \A i \in 1 .. Len(up') : up'[i].to <= incarnation'
  <2>1. TAKE i \in 1 .. Len(up')
  <2>2. up[i] \in UpMessages /\ up[i].to <= incarnation
    BY <1>2, <1>3
  <2>3. up[i].to \in Nat
    BY <2>2 DEF UpMessages
  <2>. QED BY <1>2, <1>3, <2>2, <2>3
<1>6. \A i \in 1 .. Len(down') : down'[i].from \in 1 .. incarnation'
  BY <1>2, <1>3
<1>7. /\ incarnation' \in Nat \ {0} /\ address' \in 0 .. incarnation'
      /\ subscription' \in 0 .. NotSubscribed' /\ calm' \in 0 .. Settled'
  BY <1>2, <1>3, Times DEF NotSubscribed, Settled
<1>8. ViewTypeOK'
  BY <1>1, <1>2, <1>4, <1>5, <1>6, <1>7 DEF ViewTypeOK
<1>9. GreenRight'
  BY <1>1, <1>2 DEF GreenRight, IsResponding
<1>10. trouble' # 0
  BY <1>1, <1>2 DEF FirstRun
<1>. QED BY <1>2, <1>8, <1>9, <1>10, AfterTrouble

\* Nothing happens.
LEMMA StutterView ==
  ASSUME ViewInv, UNCHANGED all
  PROVE  ViewInv'
<1>1. /\ ViewTypeOK /\ FirstRun /\ FromIt /\ Dead /\ FindsIt /\ HearsIt /\ GreenRight
      /\ InSync /\ Remembered
  BY DEF ViewInv
<1>2. /\ UNCHANGED <<state, task, error, valve, G, comp, remaining, queue, building, finished,
                     successful, fails, nodes, proxy, pending>>
      /\ UNCHANGED <<alive, incarnation, subscription, followed, up, down, trouble, selected,
                     address, sinceRefresh, sinceResponse, sinceSearch, copy, green, calm>>
  BY DEF all, controller, vars, interface, network, client
<1>3. TypeOK'
  BY <1>1, <1>2 DEF ViewTypeOK, TypeOK
<1>4. ViewTypeOK'
  BY <1>1, <1>2, <1>3 DEF ViewTypeOK, NotSubscribed, Settled
<1>5. FirstRun' /\ FromIt' /\ Dead' /\ GreenRight'
  BY <1>1, <1>2 DEF FirstRun, FromIt, Dead, GreenRight, IsResponding
<1>6. \A c : AskedIt(c)' = AskedIt(c)
  BY <1>2, AsksStay
<1>7. FindsIt' /\ HearsIt'
  BY <1>1, <1>2, <1>6 DEF FindsIt, HearsIt, Heard, Pending
<1>8. Remembered'
  BY <1>1, <1>2, <1>6 DEF Remembered, Certain
<1>9. InSync'
  <2>1. PICK t : t = Truth[followed]
    OBVIOUS
  <2>2. Truth'[followed'] = t /\ (Leftover' <=> Leftover)
    BY <1>2, <2>1, TruthStays
  <2>3. WillAnswer' <=> WillAnswer
    BY <1>2, <1>6 DEF WillAnswer, NotSubscribed
  <2>4. Told(t)' <=> Told(t)
    BY <1>2 DEF Told
  <2>5. (Certain' <=> Certain) /\ subscription' = subscription /\ NotSubscribed' = NotSubscribed
    BY <1>2 DEF Certain, NotSubscribed
  <2>6. Certain => WillAnswer \/ (subscription # NotSubscribed /\ (Leftover \/ Told(t)))
    BY <1>1, <2>1 DEF InSync
  <2>7. SUFFICES ASSUME Certain'
                 PROVE  \/ WillAnswer'
                        \/ /\ subscription' # NotSubscribed'
                           /\ Leftover' \/ Told(t)'
    BY <2>2 DEF InSync, Told
  <2>. QED BY <2>2, <2>3, <2>4, <2>5, <2>6, <2>7
<1>. QED BY <1>4, <1>5, <1>7, <1>8, <1>9 DEF ViewInv

\* In the beginning nobody knows anybody.
LEMMA InitInView ==
  ASSUME InitView
  PROVE  ViewInv
<1>1. /\ Init /\ followed \in Domains
      /\ alive = TRUE /\ incarnation = 1 /\ subscription = NotSubscribed
      /\ up = <<>> /\ down = <<>> /\ trouble = 0
      /\ selected = FALSE /\ address = 0 /\ copy = Truth[followed] /\ green = FALSE
      /\ sinceRefresh = 0 /\ sinceResponse = Responds /\ sinceSearch = 0 /\ calm = 0
  BY DEF InitView
<1>2. TypeOK
  BY <1>1, InitType
<1>3. copy \in Values
  BY <1>1, <1>2, TruthType
<1>4. /\ up \in Seq(UpMessages) /\ down \in Seq(DownMessages) /\ Len(up) = 0 /\ Len(down) = 0
  BY <1>1
<1>5. /\ incarnation \in Nat \ {0} /\ subscription \in 0 .. NotSubscribed
      /\ address \in 0 .. incarnation /\ sinceRefresh \in 0 .. RefreshAfter
      /\ sinceSearch \in 0 .. SearchAfter - 1 /\ sinceResponse \in 0 .. Responds
      /\ calm \in 0 .. Settled /\ trouble \in Nat
  BY <1>1, Times
<1>6. ViewTypeOK
  <2>1. /\ \A i \in 1 .. Len(up) : up[i].to <= incarnation
        /\ \A i \in 1 .. Len(down) : down[i].from \in 1 .. incarnation
    BY <1>4
  <2>. QED BY <1>1, <1>2, <1>3, <1>4, <1>5, <2>1 DEF ViewTypeOK
<1>7. FirstRun /\ FromIt /\ Dead /\ GreenRight
  BY <1>1, <1>4 DEF FirstRun, FromIt, Dead, GreenRight
<1>8. FindsIt /\ HearsIt
  BY <1>1, Times DEF FindsIt, HearsIt
<1>9. InSync /\ Remembered
  BY <1>1 DEF InSync, Remembered, Certain
<1>. QED BY <1>6, <1>7, <1>8, <1>9 DEF ViewInv

\* Every step keeps the invariant.
LEMMA ViewStep ==
  ASSUME ViewInv, [NextView]_all
  PROVE  ViewInv'
<1>1. CASE ClientReceives
  BY <1>1, NewProxyView, ProxyView
<1>. QED BY <1>1, ControllerView, MasterView, TickView, SelectView, DeselectView,
            RefreshClickedView, LoseView, CrashView, RestartView, StutterView DEF NextView

-----------------------------------------------------------------------------
(* What the clients see: the theorems.                                     *)

\* ViewInv is an invariant of the master with its client, for any times that the
\* assumption allows and however much is lost.
THEOREM ViewInductive == SpecView => []ViewInv
<1>1. InitView => ViewInv
  BY InitInView
<1>2. ViewInv /\ [NextView]_all => ViewInv'
  BY ViewStep
<1>. QED BY <1>1, <1>2, PTL DEF SpecView

\* Messages, timers and copies always have their types, and nobody knows an address that
\* the master has never had.
THEOREM ViewTypeCorrect == SpecView => []ViewTypeOK
<1>1. ViewInv => ViewTypeOK
  BY DEF ViewInv
<1>. QED BY <1>1, ViewInductive, PTL

\* What a fresh view shows is the master's state, through whatever the controller does,
\* expired subscriptions, lost messages and restarts.
THEOREM ClientsAreUpToDate == SpecView => []UpToDate
<1>1. ViewInv => UpToDate
  <2>1. SUFFICES ASSUME ViewInv, Fresh, ~Leftover
                 PROVE  IF followed = "nodes"
                          THEN /\ Truth.nodes.idle \subseteq copy.idle
                               /\ Truth.nodes.busy \subseteq copy.busy
                          ELSE copy = Truth[followed]
    BY DEF UpToDate
  <2>2. /\ ViewTypeOK /\ FirstRun /\ FindsIt /\ InSync
    BY <2>1 DEF ViewInv
  <2>3. /\ selected /\ alive /\ up = <<>> /\ down = <<>>
        /\ trouble = 0 \/ calm > RefreshAfter
    BY <2>1 DEF Fresh, AllArrived
  <2>4. /\ incarnation \in Nat \ {0} /\ address \in 0 .. incarnation /\ address # 0
        /\ calm \in Nat /\ sinceSearch \in 0 .. SearchAfter - 1
        /\ sinceRefresh \in 0 .. RefreshAfter
    BY <2>2, <2>3, Times DEF ViewTypeOK
  <2>5. \A c : AskedIt(c) = {}
    BY <2>3 DEF AskedIt
  <2>6. ~Pending /\ ~WillAnswer
    BY <2>3, <2>5 DEF Pending, WillAnswer
  <2>7. address = incarnation
    <3>1. CASE trouble = 0
      BY <2>2, <2>4, <3>1 DEF FirstRun
    <3>2. CASE calm > RefreshAfter
      <4>1. calm > sinceSearch
        BY <2>4, <3>2, Times
      <4>. QED BY <2>2, <2>3, <2>6, <4>1 DEF FindsIt, Heard
    <3>. QED BY <2>3, <3>1, <3>2
  <2>8. Certain
    <3>1. calm > RefreshAfter => sinceRefresh < calm
      BY <2>4, Times
    <3>. QED BY <2>3, <2>7, <3>1 DEF Certain
  <2>9. Told(Truth[followed])
    BY <2>1, <2>2, <2>6, <2>8 DEF InSync
  <2>10. PICK t : t = Truth[followed]
    OBVIOUS
  <2>11. Fits(followed, copy, t)
    BY <2>3, <2>9, <2>10, Silence DEF Told
  <2>12. CASE followed = "nodes"
    BY <2>10, <2>11, <2>12 DEF Fits
  <2>13. CASE followed # "nodes"
    BY <2>10, <2>11, <2>13 DEF Fits
  <2>. QED BY <2>12, <2>13
<1>. QED BY <1>1, ViewInductive, PTL

\* Two searches after the last trouble the LED is green if the master runs, and red when it
\* has not been heard for as long as a proxy is responding.
THEOREM LedIsRight == SpecView => []LedRight
<1>1. ViewInv => LedRight
  <2>1. SUFFICES ASSUME ViewInv, selected, up = <<>>, down = <<>>
                 PROVE  /\ alive /\ calm >= 2 * SearchAfter => green
                        /\ ~alive /\ calm >= Responds => ~green
    BY DEF LedRight
  <2>2. /\ ViewTypeOK /\ HearsIt /\ Dead /\ GreenRight
    BY <2>1 DEF ViewInv
  <2>3. /\ calm \in 0 .. Settled /\ sinceSearch \in 0 .. SearchAfter - 1
        /\ sinceResponse \in 0 .. Responds
    BY <2>2 DEF ViewTypeOK
  <2>4. ~Pending
    <3>1. AskedIt("identify") = {}
      BY <2>1 DEF AskedIt
    <3>. QED BY <2>1, <3>1 DEF Pending
  <2>5. ASSUME alive, calm >= 2 * SearchAfter
        PROVE  green
    <3>1. calm > sinceSearch + SearchAfter
      BY <2>3, <2>5, Times
    <3>. QED BY <2>1, <2>2, <2>4, <2>5, <3>1 DEF HearsIt
  <2>6. ASSUME ~alive, calm >= Responds
        PROVE  ~green
    <3>1. calm >= 1
      BY <2>3, <2>6, Times
    <3>2. sinceResponse >= calm \/ sinceResponse = Responds
      BY <2>2, <2>6, <3>1 DEF Dead
    <3>3. ~(sinceResponse < Responds)
      BY <2>3, <2>6, <3>2, Times
    <3>. QED BY <2>2, <3>3 DEF GreenRight, IsResponding
  <2>. QED BY <2>5, <2>6
<1>. QED BY <1>1, ViewInductive, PTL
=============================================================================
