---------------------------- MODULE BuildMaster ----------------------------
(***************************************************************************)
(* The build master's controller (build_master/controller.py).             *)
(*                                                                         *)
(* The controller is single threaded: each of its entry points (the client *)
(* commands start, stop, open and close, the notifications of the cluster  *)
(* interface and of the build node proxies, and the end of the graph       *)
(* computation task) runs to completion, including the call of _schedule   *)
(* it ends with.  Each is one action here.                                 *)
(*                                                                         *)
(* The build cluster is seen through the controller's eyes: proxy[n] is    *)
(* what n.get_state() returns, and Reports(n) what a build node can make   *)
(* it return next.                                                         *)
(***************************************************************************)
EXTENDS PackageGraph, NodeStates

CONSTANTS
  Nodes,        \* the build node proxies that can ever appear
  Graphs,       \* the dependency graphs a start may compute
  Foreign,      \* the packages that other clients have the nodes build
  BindMayFail   \* whether outdating the children of a package may raise

\* What _nodes[n] holds besides the package assigned to n: nothing yet, None,
\* or 'reset'.
NotKnown == "not known"
NoTask == "none"
ResetTask == "reset"

ASSUME BuildMasterAssumption ==
  /\ Packages # {} /\ IsFiniteSet(Packages)
  /\ IsFiniteSet(Nodes)
  /\ Graphs \subseteq DependencyGraphs
  /\ BindMayFail \in BOOLEAN
  /\ Packages \cap {NotKnown, NoTask, ResetTask, "no package"} = {}

VARIABLES
  state,        \* _internal_state
  task,         \* _computing_task: "none", "running", or "done" when it returned or died
  error, valve, \* _error, _valve
  G,            \* _G, and with it _GT
  comp,         \* _pkg_to_scc and _SCC; with G, _H and _HT
  remaining,    \* _remaining_set
  queue,        \* _build_queue: how many entries each package has in it
  building,     \* _building_set
  finished,     \* _finished_set
  successful,   \* _pkg_successful
  fails,        \* _pkg_fails
  nodes,        \* _nodes
  proxy,        \* the state each node's proxy shows
  pending       \* packages for which get_next_stage names a stage: not built, or outdated since

graph == <<G, comp>>
progress == <<remaining, finished, successful, fails>>
vars == <<state, task, error, valve, G, comp, remaining, queue, building, finished,
          successful, fails, nodes, proxy, pending>>

-----------------------------------------------------------------------------
(* What a build node proxy can show next.                                  *)

\* Reports about builds that another client started.
ForeignReports == ReportsAbout(Foreign)

\* A node reports on the package that it was given until the controller has its
\* verdict.  BuildCluster shows why there are no other reports.
Reports(n) == NextReports({nodes[n]} \cap building, proxy[n], Foreign)

-----------------------------------------------------------------------------
(* Scheduling.                                                             *)

\* _node_is_available
Available(nds, prx) == {n \in Nodes : nds[n] = NoTask /\ prx[n] = Idle}

FanOut(p) == Cardinality(Children(G, p))

Taken(b, p) == Cardinality({n \in DOMAIN b : b[n] = p})

\* The loop of _schedule, part of the way: entries leave the queue, those with
\* the largest fan-out first, for available nodes.  Which of the nodes gets
\* which package is left open here (_find_best_node), and so is the order of
\* packages with the same fan-out (their names).
Prefixes(q, available) ==
  {b \in UNION {[S -> Packages] : S \in SUBSET available} :
     /\ \A p \in Packages : Taken(b, p) <= q[p]
     /\ \A p, r \in Packages :
          Taken(b, p) > 0 /\ Taken(b, r) < q[r] => FanOut(p) >= FanOut(r)}

\* The loop ends without a node left or without an entry left.
Complete(b, q, available) ==
  DOMAIN b = available \/ \A p \in Packages : Taken(b, p) = q[p]

\* Mutant: a child is outdated even after its second build.
OutdatedAlways(p) == Children(G, p)

\* _outdate_children, when p itself has something to build.  Packages bound
\* together never depend on each other, so their order does not matter.
Outdated(p) ==
  {c \in Children(G, p) : comp[c] = comp[p] => successful'[c] < 2}

\* _bind for each node and package of b.
Bind(b, bld, nds, prx) ==
  /\ building' = bld \cup {b[n] : n \in DOMAIN b}
  /\ nodes' = [n \in Nodes |-> IF n \in DOMAIN b THEN b[n] ELSE nds[n]]
  /\ proxy' = [n \in Nodes |-> IF n \in DOMAIN b THEN Busy ELSE prx[n]]

\* _schedule.  The arguments are the values that the calling handler has left;
\* valve and the counters have been updated before.  When outdating the
\* children of p raises, p has left the queue, and the state is never set back.
Schedule(q, bld, nds, prx, pend) ==
  LET available == IF valve' THEN Available(nds, prx) ELSE {}
      outdated(b) == UNION {Outdated(b[n]) : n \in {m \in DOMAIN b : b[m] \in pend}}
  IN \E b \in Prefixes(q, available) :
       /\ Bind(b, bld, nds, prx)
       /\ \/ /\ Complete(b, q, available)
             /\ state' = "idle"
             /\ queue' = [p \in Packages |-> q[p] - Taken(b, p)]
             /\ pending' = pend \cup outdated(b)
          \/ /\ BindMayFail /\ DOMAIN b # available
             /\ state' = "computing"
             /\ \E p \in Packages :
                  /\ Taken(b, p) < q[p]
                  /\ \A r \in Packages : Taken(b, r) < q[r] => FanOut(p) >= FanOut(r)
                  /\ queue' = [r \in Packages |->
                                 q[r] - Taken(b, r) - (IF r = p THEN 1 ELSE 0)]
                  /\ \E some \in SUBSET (IF p \in pend THEN Outdated(p) ELSE {}) :
                       pending' = pend \cup outdated(b) \cup some

Enqueue(q, K) == [p \in Packages |-> IF p \in K THEN q[p] + 1 ELSE q[p]]

-----------------------------------------------------------------------------
(* Strongly connected components are built in two rounds.                  *)

\* The packages that _scc_choose_package can return: untried ones of the lowest
\* level.  It takes the first in an order that depends on the graph's dicts.
Choosable(C, succ, fl) ==
  {v \in C : fl[v] = 0 /\ \A u \in C : succ[v] <= succ[u]}

\* _scc_failed
SCCFailed(C, succ, fl) ==
  \A v \in C : (\A u \in C : succ[v] <= succ[u]) => fl[v] > 0

\* Mutant: every package that could be chosen is.
ChoicesAll(Cs, succ, fl) == {UNION {Choosable(C, succ, fl) : C \in Cs}}

\* One choice of _scc_choose_package for each component of Cs.  It raises
\* SavedYourLife when there is none; that component gets nothing then.
Choices(Cs, succ, fl) ==
  {K \in SUBSET UNION Cs :
     \A C \in Cs : LET ok == Choosable(C, succ, fl)
                   IN IF ok = {} THEN K \cap C = {}
                                 ELSE \E v \in ok : K \cap C = {v}}

-----------------------------------------------------------------------------
Zero == [p \in Packages |-> 0]
NoGraph == [p \in Packages |-> {}]
NoComponents == [p \in Packages |-> {}]

Init ==
  /\ state = "off" /\ task = "none"
  /\ error = FALSE /\ valve = FALSE
  /\ G = NoGraph /\ comp = NoComponents
  /\ remaining = {} /\ queue = Zero /\ building = {} /\ finished = {}
  /\ successful = Zero /\ fails = Zero
  /\ nodes = [n \in Nodes |-> NotKnown]
  /\ proxy = [n \in Nodes |-> Gone]
  /\ pending \in SUBSET Packages

\* start: the graph is computed by an asynchronous task.
Start ==
  /\ state = "off"
  /\ state' = "computing" /\ task' = "running"
  /\ UNCHANGED <<error, valve, graph, progress, queue, building, nodes, proxy, pending>>

\* The rest of _start_build, once no await is left: no node is known yet.  What
\* there is to build is what the package database says at this moment.
ComputeDone ==
  /\ state = "computing" /\ task = "running"
  /\ task' = "done"
  /\ \E g \in Graphs, pend \in SUBSET Packages :
       LET cs == Components(g)
           first == {C \in {cs[p] : p \in Packages} : Parents(g, cs, C) = {}}
       IN \E K \in Choices(first, Zero, Zero) :
         /\ G' = g /\ comp' = cs
         /\ remaining' = Packages \ K
         /\ finished' = {} /\ successful' = Zero /\ fails' = Zero
         /\ UNCHANGED <<error, valve>>
         /\ Schedule(Enqueue(Zero, K), {}, nodes, proxy, pend)

\* _stop_build.  It means to clear the building set as well but assigns to
\* another attribute, `_bulding_set'.
StopBuild ==
  /\ state' = "off" /\ task' = "none"
  /\ error' = FALSE /\ valve' = FALSE
  /\ G' = NoGraph /\ comp' = NoComponents
  /\ remaining' = {} /\ queue' = Zero /\ finished' = {}
  /\ successful' = Zero /\ fails' = Zero
  /\ nodes' = [n \in Nodes |-> NotKnown]
  /\ proxy' = [n \in Nodes |-> Gone]
  /\ UNCHANGED <<building, pending>>

\* _build_dependency_graph raised GenericBMError or InvalidConfiguration.
ComputeInvalid ==
  /\ state = "computing" /\ task = "running"
  /\ StopBuild

\* It raised anything else: nobody catches that, and the task is over.
ComputeDies ==
  /\ state = "computing" /\ task = "running"
  /\ task' = "done"
  /\ UNCHANGED <<state, error, valve, graph, progress, queue, building, nodes, proxy, pending>>

Stop ==
  /\ state \in {"idle", "computing"}
  /\ StopBuild

\* Mutant: the open valve does not start anything by itself.
OpenOnly ==
  /\ state # "off" /\ ~error /\ ~valve
  /\ valve' = TRUE
  /\ UNCHANGED <<state, task, error, graph, progress, queue, building, nodes, proxy, pending>>

Open ==
  /\ state # "off" /\ ~error /\ ~valve
  /\ valve' = TRUE
  /\ UNCHANGED <<task, error, graph, progress>>
  /\ IF state = "idle"
       THEN Schedule(queue, building, nodes, proxy, pending)
       ELSE UNCHANGED <<state, queue, building, nodes, proxy, pending>>

Close ==
  /\ state # "off" /\ valve
  /\ valve' = FALSE
  /\ UNCHANGED <<state, task, error, graph, progress, queue, building, nodes, proxy, pending>>

-----------------------------------------------------------------------------
(* _cluster_notification: it retrieves the whole list of nodes and finds   *)
(* the differences to _nodes.                                              *)

\* Nodes that disappeared but had a task are kept in _nodes.
Retained == {n \in Nodes : nodes[n] # NotKnown /\ proxy[n] = Gone}

Fail == error' = TRUE /\ valve' = FALSE

\* A new proxy is idle until a message says otherwise.
NodeDiscovered(n) ==
  /\ state = "idle"
  /\ nodes[n] = NotKnown
  /\ UNCHANGED <<task, graph, progress>>
  /\ IF Retained # {} THEN Fail ELSE UNCHANGED <<error, valve>>
  /\ \E s \in {Idle, Maintenance} \cup ForeignReports :
       Schedule(queue, building, [nodes EXCEPT ![n] = NoTask], [proxy EXCEPT ![n] = s], pending)

NodeLost(n) ==
  /\ state = "idle"
  /\ nodes[n] # NotKnown /\ proxy[n] # Gone
  /\ IF nodes[n] # NoTask \/ Retained # {} THEN Fail ELSE UNCHANGED <<error, valve>>
  /\ nodes' = IF nodes[n] # NoTask THEN nodes ELSE [nodes EXCEPT ![n] = NotKnown]
  /\ proxy' = [proxy EXCEPT ![n] = Gone]
  /\ UNCHANGED <<state, task, graph, progress, queue, building, pending>>

-----------------------------------------------------------------------------
(* _build_node_notification, by the state the proxy shows.                 *)

Notified(n, r) ==
  /\ state = "idle"
  /\ nodes[n] # NotKnown /\ proxy[n] # Gone
  /\ r \in Reports(n)

\* The handler failed the build, or left a report that changes nothing.
JustSchedule(n, r) ==
  Schedule(queue, building, nodes, [proxy EXCEPT ![n] = r], pending)

\* The handler raised a KeyError before it changed anything.
Raised(n, r) ==
  /\ proxy' = [proxy EXCEPT ![n] = r]
  /\ UNCHANGED <<state, error, valve, queue, building, nodes, pending>>

\* "Put the package back on the build queue": the package that the node names,
\* not the one it was assigned.
Requeue(n, q, r) ==
  IF q \in Packages
    THEN /\ UNCHANGED <<error, valve>>
         /\ Schedule(Enqueue(queue, {q}), building \ {q},
                     [nodes EXCEPT ![n] = NoTask], [proxy EXCEPT ![n] = r], pending)
    ELSE Raised(n, r)

NodeIdle(n) ==
  /\ Notified(n, Idle)
  /\ UNCHANGED <<task, graph, progress>>
  /\ IF nodes[n] \in Packages
       THEN Fail /\ JustSchedule(n, Idle)
       ELSE /\ UNCHANGED <<error, valve>>
            /\ Schedule(queue, building, [nodes EXCEPT ![n] = NoTask],
                        [proxy EXCEPT ![n] = Idle], pending)

NodeMaintenance(n) ==
  /\ Notified(n, Maintenance)
  /\ UNCHANGED <<task, graph, progress>>
  /\ IF nodes[n] # NoTask THEN Fail ELSE UNCHANGED <<error, valve>>
  /\ JustSchedule(n, Maintenance)

NodeBuilding(n, q) ==
  /\ Notified(n, Building(q))
  /\ UNCHANGED <<task, graph, progress>>
  /\ \/ nodes[n] \in {NoTask, q} /\ UNCHANGED <<error, valve>> /\ JustSchedule(n, Building(q))
     \/ nodes[n] = ResetTask /\ Fail /\ JustSchedule(n, Building(q))
     \/ nodes[n] \notin {NoTask, ResetTask, q} /\ Requeue(n, q, Building(q))

\* Mutants: a component that is done does not wake the others, a finished one
\* goes on, and others begin before all that they depend on is finished.
TurnsSame(C, fin) == IF C \subseteq fin THEN {} ELSE {C}
TurnsEarly(C, fin) == IF C \subseteq fin THEN Dependants(G, comp, C) ELSE {C}

\* The components that _handle_successful_build chooses a package of, once a
\* package of C has been built: C itself, or if it is finished those that only
\* waited for it.
Turns(C, fin) ==
  IF C \subseteq fin
    THEN {U \in Dependants(G, comp, C) : \A W \in Parents(G, comp, U) : W \subseteq fin}
    ELSE {C}

\* _handle_successful_build of package p, then the reset of its node n.
Succeed(n, p) ==
  LET C == comp[p]
      succ == [successful EXCEPT ![p] = @ + 1]
      fl == [v \in Packages |-> IF v \in C THEN 0 ELSE fails[v]]
      fin == IF succ[p] = 2 \/ C = {p} THEN finished \cup {p} ELSE finished
  IN /\ successful' = succ /\ fails' = fl /\ finished' = fin
     /\ UNCHANGED <<error, valve>>
     /\ \E K \in Choices(Turns(C, fin), succ, fl) :
          /\ remaining' = remaining \ K
          /\ Schedule(Enqueue(queue, K), building \ {p}, [nodes EXCEPT ![n] = ResetTask],
                      [proxy EXCEPT ![n] = Busy], pending \ {p})

NodeFinished(n, q) ==
  /\ Notified(n, Finished(q))
  /\ UNCHANGED <<task, graph>>
  /\ \/ nodes[n] = q /\ q \in building /\ Succeed(n, q)
     \/ nodes[n] = q /\ q \notin building /\ UNCHANGED progress /\ Raised(n, Finished(q))
     \/ nodes[n] = NoTask /\ UNCHANGED <<error, valve, progress>> /\ JustSchedule(n, Finished(q))
     \/ nodes[n] \notin {NoTask, q} /\ UNCHANGED progress /\ Requeue(n, q, Finished(q))

\* _handle_failed_build of package p, then the reset of its node n.  Another
\* package of the component is tried, unless each of the lowest level has been.
FailPackage(n, p) ==
  LET C == comp[p]
      fl == [fails EXCEPT ![p] = @ + 1]
      failed == SCCFailed(C, successful, fl)
  IN /\ fails' = fl
     /\ IF failed THEN Fail ELSE UNCHANGED <<error, valve>>
     /\ UNCHANGED <<finished, successful>>
     /\ \E K \in IF failed THEN {{}} ELSE Choices({C}, successful, fl) :
          /\ remaining' = remaining \ K
          /\ Schedule(Enqueue(queue, K), building \ {p}, [nodes EXCEPT ![n] = ResetTask],
                      [proxy EXCEPT ![n] = Busy], pending)

\* Node n failed to build what it was assigned, package q.
FailedOwn(n, q, why) ==
  \/ /\ why = "node/try_again"
     /\ UNCHANGED progress /\ Requeue(n, q, Failed(q, why))
  \/ /\ why = "node/abort" /\ q \in building
     /\ Fail /\ UNCHANGED progress
     /\ Schedule(queue, building \ {q}, nodes, [proxy EXCEPT ![n] = Failed(q, why)], pending)
  \/ /\ why = "package" /\ q \in building
     /\ FailPackage(n, q)
  \/ /\ why # "node/try_again" /\ q \notin building
     /\ UNCHANGED progress /\ Raised(n, Failed(q, why))

\* The last branch puts _nodes[n] itself, a tuple or 'reset', on the queue, and
\* that raises.
NodeFailed(n, q, why) ==
  /\ Notified(n, Failed(q, why))
  /\ UNCHANGED <<task, graph>>
  /\ \/ nodes[n] = q /\ FailedOwn(n, q, why)
     \/ /\ nodes[n] = NoTask
        /\ UNCHANGED <<error, valve, progress>>
        /\ JustSchedule(n, Failed(q, why))
     \/ nodes[n] \notin {NoTask, q} /\ UNCHANGED progress /\ Raised(n, Failed(q, why))

-----------------------------------------------------------------------------
NodeReports(n) ==
  \/ NodeIdle(n) \/ NodeMaintenance(n)
  \/ \E q \in Packages \cup Foreign :
       \/ NodeBuilding(n, q) \/ NodeFinished(n, q)
       \/ \E why \in Reasons : NodeFailed(n, q, why)

Next ==
  \/ Start \/ ComputeDone \/ ComputeInvalid \/ ComputeDies
  \/ Stop \/ Open \/ Close
  \/ \E n \in Nodes : NodeDiscovered(n) \/ NodeLost(n) \/ NodeReports(n)

Spec == Init /\ [][Next]_vars

-----------------------------------------------------------------------------
(* What makes the controller correct.                                      *)

ReportsType ==
  [st : {"gone", "idle", "busy", "building", "finished", "failed", "maintenance"},
   pkg : Packages \cup Foreign \cup {"no package"},
   why : Reasons \cup {"no reason"}]

\* Type correctness of the controller's data structures.
TypeOK ==
  /\ state \in {"off", "idle", "computing"} /\ task \in {"none", "running", "done"}
  /\ error \in BOOLEAN /\ valve \in BOOLEAN
  /\ G \in DependencyGraphs /\ comp \in [Packages -> SUBSET Packages]
  /\ remaining \subseteq Packages /\ building \subseteq Packages
  /\ finished \subseteq Packages /\ pending \subseteq Packages
  /\ queue \in [Packages -> Nat]
  /\ successful \in [Packages -> Nat] /\ fails \in [Packages -> Nat]
  /\ nodes \in [Nodes -> Packages \cup {NotKnown, NoTask, ResetTask}]
  /\ proxy \in [Nodes -> ReportsType]

Queued == {p \in Packages : queue[p] > 0}
Active == Queued \cup building

\* A component has at most one package queued or building, in one place and
\* once: two packages that depend on each other are never built at a time.
SingleFlight ==
  state = "idle" =>
    /\ \A p \in Packages : queue[p] <= 1
    /\ Queued \cap building = {}
    /\ \A p, q \in Active : q \in comp[p] => p = q

\* A package is only queued, built or counted as built when every component
\* that its own depends on is finished, whatever the order of the verdicts.
DepsFirst ==
  state = "idle" =>
    \A p \in Packages :
      p \in Active \/ successful[p] > 0 \/ fails[p] > 0 =>
        \A W \in Parents(G, comp, comp[p]) : W \subseteq finished

\* Invariant 1 of _scc_choose_package: "the maximum distance between package
\* levels (number of successful build attempts) must not exceed 1".
LevelSpread ==
  \A p \in Packages : \A q \in comp[p] : successful[p] <= successful[q] + 1

\* Invariant 2 of _scc_choose_package: while no error stopped the build, each
\* component whose turn it is has a package queued or building, so that the
\* build cannot come to rest before everything is finished.
TurnTaken ==
  state = "idle" /\ ~error =>
    \A C \in {comp[p] : p \in Packages} :
      \/ C \subseteq finished
      \/ \E W \in Parents(G, comp, C) : ~(W \subseteq finished)
      \/ \E p \in C : p \in Active

\* The building set and the assignments agree: each package in it is assigned
\* to one node, and a node keeps a package that is not in it only after an abort.
BuildingAssigned ==
  state = "idle" =>
    /\ \A p \in building : \E n \in Nodes : nodes[n] = p
    /\ \A n, m \in Nodes : nodes[n] \in building /\ nodes[m] = nodes[n] => m = n
    /\ \A n \in Nodes : nodes[n] \in Packages \ building => error

\* With the valve open no node stays idle while a package waits in the queue:
\* every handler that frees a node or queues a package schedules.
WorkConserving ==
  state = "idle" /\ valve => Queued = {} \/ Available(nodes, proxy) = {}

\* A finished package has nothing left to build, although _bind outdates the
\* children of what it binds: nothing outdates a package after its last build.
FinishedUpToDate == finished \cap pending = {}

\* What the clients are shown as remaining, queued, building and finished never
\* overlaps, and no attempt has been made at what remains.
SetsDisjoint ==
  state = "idle" =>
    /\ finished \cap Active = {}
    /\ remaining \cap (Active \cup finished) = {}
    /\ \A p \in remaining : successful[p] = 0 /\ fails[p] = 0

\* No build begins in a step that leaves the valve closed or an error present;
\* the handlers that fail the build end with _schedule all the same.
StartsOnlyWhenOpen ==
  [][building' \ building # {} => valve' /\ ~error']_vars

\* Until the build is stopped an error stays, and so do results.
ResultsStay ==
  [][state = "idle" /\ state' # "off" =>
       /\ error => error'
       /\ finished \subseteq finished'
       /\ \A p \in Packages : successful[p] <= successful'[p]]_vars

-----------------------------------------------------------------------------
(* Progress.                                                               *)

\* A node finishes its build or says that the package cannot be built.
Verdict(n) ==
  \E p \in Packages : NodeFinished(n, p) \/ NodeFailed(n, p, "package")

\* A reset node becomes idle.
ResetDone(n) == nodes[n] = ResetTask /\ NodeIdle(n)

\* The event loop runs the computing task; a node that is given packages again
\* and again reports on one of them, and a node that was reset becomes idle.
Fairness ==
  /\ WF_vars(ComputeDone \/ ComputeInvalid \/ ComputeDies)
  /\ \A n \in Nodes : SF_vars(Verdict(n)) /\ SF_vars(ResetDone(n))

FairSpec == Spec /\ Fairness

Usable(n) == nodes[n] \in Packages \cup {ResetTask} \/ n \in Available(nodes, proxy)

\* If the operator leaves the valve open, nothing fails the build, and some node
\* is there to build, everything is built.
BuildCompletes ==
  <>[](state = "idle" /\ valve) /\ []<>(\E n \in Nodes : Usable(n))
    => <>[](finished = Packages)

-----------------------------------------------------------------------------
(* What comments in the source say and the code does not do.               *)

=============================================================================
