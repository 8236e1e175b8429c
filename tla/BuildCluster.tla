---------------------------- MODULE BuildCluster ----------------------------
(***************************************************************************)
(* One build node and its proxy at the build master (cluster_interface.py),*)
(* as long as the proxy lives, with the messages between them.  Messages   *)
(* of one direction arrive in the order in which they were sent, or are    *)
(* lost.                                                                   *)
(*                                                                         *)
(* Of the controller there is what concerns this node: the entry           *)
(* _nodes[node] and the calls of start_build and reset.                    *)
(***************************************************************************)
EXTENDS BuildNode, Naturals

CONSTANTS
  Packages,     \* what the controller has the node build
  Foreign,      \* what another client has it build
  MaxInFlight,  \* a bound: the requests in transit when another one is sent
  MaxOthers,    \* a bound: the requests of other clients
  MaxTrouble    \* a bound: lost messages, time-outs, workers that cannot be created
                \* or that end with a code of no meaning

ASSUME BuildClusterAssumption ==
  /\ Packages \cap Foreign = {} /\ Names = Packages \cup Foreign
  /\ Names \cap {"none", "reset", "identify", "get_status"} = {}
  /\ MaxInFlight \in Nat \ {0} /\ MaxOthers \in Nat /\ MaxTrouble \in Nat

NoTask == "none"
ResetTask == "reset"

VARIABLES
  known,        \* whether the cluster interface has a proxy of the node
  stored,       \* _state, _pkg_name and _fail_reason of the proxy
  busy,         \* _busy
  task,         \* _nodes[node]
  building,     \* whether _building_set has the package that the node was given
  toNode,       \* requests in transit to the node
  others,       \* how often another client asked the node for something
  trouble,      \* how often something went wrong
  lastExit      \* how the worker of the package now assigned has ended

proxyVars == <<known, stored, busy, task, building>>
counters == <<others, trouble>>
vars == <<nodeVars, proxyVars, toNode, counters, lastExit>>

Room(channel) == Len(channel) < MaxInFlight

\* An answer to `identify', which says nothing about the state.
Hello == Plain("no state")

Init ==
  /\ NodeInit
  /\ known = FALSE /\ stored = Idle /\ busy = FALSE
  /\ task = NoTask /\ building = FALSE
  /\ toNode = <<>> /\ others = 0 /\ trouble = 0 /\ lastExit = "none"

-----------------------------------------------------------------------------
(* The proxy.                                                              *)

View(s, b) ==
  IF b THEN Busy
  ELSE CASE s.st \in {"idle", "maintenance"} -> Plain(s.st)
         [] s.st \in {"building", "finished"} -> Shows(s.st, s.pkg, "no reason")
         [] OTHER -> s

\* get_state
Shown == IF known THEN View(stored, busy) ELSE Gone

\* Mutant: every message with a state is taken as an answer.
DiffersAlways(m) == m # Hello

\* Only a message that differs from what the proxy stores is looked at.
Differs(m) ==
  /\ m # Hello
  /\ \/ m.st # stored.st
     \/ m.pkg # "no package" /\ m.pkg # stored.pkg
     \/ m.why # "no reason" /\ m.why # stored.why

\* The package and the reason of an earlier state are kept.
Updated(m) ==
  [st |-> m.st,
   pkg |-> IF m.pkg # "no package" THEN m.pkg ELSE stored.pkg,
   why |-> IF m.st = "failed" THEN m.why ELSE stored.why]

\* What the controller calls in _build_node_notification when the proxy shows s.
ResetsAfter(s) ==
  task \in Packages /\ s \in {Finished(task), Failed(task, "package")}

\* A node that was reset has become idle.
Freed(s) == s = Idle /\ task = ResetTask

\* What it sets _nodes[node] to.
TaskAfter(s) ==
  CASE ResetsAfter(s) -> ResetTask
    [] Freed(s) -> NoTask
    [] task \in Packages /\ s = Failed(task, "node/try_again") -> NoTask
    [] task \in Packages /\ s.st = "building" /\ s.pkg \in Packages \ {task} -> NoTask
    [] task # NoTask /\ s.st = "finished" /\ s.pkg \in Packages \ {task} -> NoTask
    [] OTHER -> task

\* The state s is a verdict about the package that the node was given.
IsVerdict(s) ==
  task \in Packages /\ s \in {Finished(task)} \cup {Failed(task, why) : why \in Reasons}

\* _message_received at a proxy that exists, and the controller's reaction.
Received(m) ==
  IF Differs(m)
    THEN LET s == View(Updated(m), FALSE)
         IN /\ stored' = Updated(m)
            /\ busy' = ResetsAfter(s)
            /\ task' = TaskAfter(s)
            /\ building' = (building /\ ~IsVerdict(s))
            /\ toNode' = IF ResetsAfter(s) THEN Append(toNode, "reset") ELSE toNode
    ELSE UNCHANGED <<stored, busy, task, building, toNode>>

\* The first message of a node makes its proxy, which asks for the status.
Discovered(m) ==
  /\ known' = TRUE
  /\ stored' = IF Differs(m) THEN Updated(m) ELSE stored
  /\ toNode' = Append(toNode, "get_status")
  /\ UNCHANGED <<busy, task, building>>

MasterReceives ==
  /\ toMaster # <<>>
  /\ toMaster' = Tail(toMaster)
  /\ \/ ~known /\ Discovered(Head(toMaster))
     \/ known /\ Received(Head(toMaster)) /\ UNCHANGED known
  /\ UNCHANGED <<node, tasks, subscribed, counters, lastExit>>

\* start_build, when the controller binds a package to the node.
Assign(p) ==
  /\ Shown = Idle /\ task = NoTask /\ Room(toNode)
  /\ task' = p /\ busy' = TRUE /\ building' = TRUE
  /\ toNode' = Append(toNode, p)
  /\ lastExit' = "none"
  /\ UNCHANGED <<nodeVars, known, stored, counters>>

\* The timer asks for the status every eleven seconds.  A second request while
\* one is under way makes no difference.
Poll ==
  /\ known /\ Room(toNode)
  /\ \A k \in DOMAIN toNode : toNode[k] # "get_status"
  /\ toNode' = Append(toNode, "get_status")
  /\ UNCHANGED <<nodeVars, proxyVars, counters, lastExit>>

\* Every ten seconds the cluster interface looks for nodes.
Search ==
  /\ ~known /\ Room(toNode)
  /\ \A k \in DOMAIN toNode : toNode[k] # "identify"
  /\ toNode' = Append(toNode, "identify")
  /\ UNCHANGED <<nodeVars, proxyVars, counters, lastExit>>

-----------------------------------------------------------------------------
(* The node.                                                               *)

Handle(request) ==
  CASE request = "identify" ->
         toMaster' = Append(toMaster, Hello) /\ UNCHANGED <<node, tasks>>
    [] request = "get_status" -> SendStatus
    [] request = "reset" -> RequestReset
    [] OTHER -> RequestStart(request)

\* protocol_handler.  The master counts as a client from then on.
NodeReceives ==
  /\ toNode # <<>> /\ Room(toMaster)
  /\ toNode' = Tail(toNode)
  /\ subscribed' = TRUE
  /\ Handle(Head(toNode))
  /\ UNCHANGED <<proxyVars, counters, lastExit>>

\* Another client asks the node for something.
OtherClient ==
  /\ others < MaxOthers /\ others' = others + 1
  /\ UNCHANGED subscribed
  /\ RequestReset \/ EnableMaintenance \/ DisableMaintenance
       \/ \E f \in Foreign : RequestStart(f)
  /\ UNCHANGED <<proxyVars, toNode, trouble, lastExit>>

\* A step of one of the node's tasks.
NodeRuns(i) ==
  /\ NodeSteps(i)
  /\ UNCHANGED <<proxyVars, toNode, counters, lastExit>>

\* The worker process cannot be created, or the node has not heard of the master
\* for fifteen seconds, which takes the loss of more than one request.
GoesWrong ==
  /\ trouble < MaxTrouble /\ trouble' = trouble + 1
  /\ Forget \/ \E i \in Slots : StartFails(i)
  /\ UNCHANGED <<proxyVars, toNode, others, lastExit>>

WorkerEnds(i) ==
  \E code \in Exits :
    /\ WorkerExits(i, code)
    /\ lastExit' = IF slots[i].pkg = task THEN code ELSE lastExit
    /\ IF code = "other" THEN trouble < MaxTrouble /\ trouble' = trouble + 1
                         ELSE UNCHANGED trouble
    /\ UNCHANGED <<proxyVars, toNode, others>>

Lose ==
  /\ trouble < MaxTrouble /\ trouble' = trouble + 1
  /\ \/ toNode # <<>> /\ toNode' = Tail(toNode) /\ UNCHANGED toMaster
     \/ toMaster # <<>> /\ toMaster' = Tail(toMaster) /\ UNCHANGED toNode
  /\ UNCHANGED <<node, tasks, subscribed, proxyVars, others, lastExit>>

Next ==
  \/ MasterReceives \/ Poll \/ Search \/ \E p \in Packages : Assign(p)
  \/ NodeReceives \/ OtherClient \/ GoesWrong \/ Lose
  \/ \E i \in Slots : NodeRuns(i) \/ WorkerEnds(i)

\* Timers fire, messages arrive unless they are lost, and the event loop of the
\* node runs its tasks.  A worker may run as long as it likes.
Fairness ==
  /\ WF_vars(Poll) /\ WF_vars(Search)
  /\ WF_vars(MasterReceives) /\ WF_vars(NodeReceives)
  /\ \A i \in Slots : WF_vars(NodeRuns(i))

Spec == Init /\ [][Next]_vars
FairSpec == Spec /\ Fairness
-----------------------------------------------------------------------------
(* What the controller relies on.                                          *)

\* What the proxy shows next is one of the reports that the model of the
\* controller lets it react to: nothing about a package of its own that the node
\* was not given, and no `idle' before the node has taken up the build.
ReportsAsAssumed ==
  known /\ toMaster # <<>> /\ Differs(Head(toMaster)) =>
    View(Updated(Head(toMaster)), FALSE) \in
      NextReports(IF building THEN {task} ELSE {}, Shown, Foreign)

\* A verdict about the package that was assigned is that of the worker started
\* for this assignment: a late answer about an earlier build of the same package
\* is never taken for one.
VerdictIsFresh ==
  known /\ toMaster # <<>> /\ Differs(Head(toMaster)) /\ task \in Packages =>
    LET s == View(Updated(Head(toMaster)), FALSE)
    IN /\ s = Finished(task) => lastExit = "success"
       /\ \A why \in Reasons : s = Failed(task, why) => lastExit = why

\* The master never has two of its builds on a node at a time, although it counts
\* on nothing but what the node told it last.
OneOwnWorker ==
  /\ \A i, j \in Slots :
       slots[i].pkg \in Packages /\ slots[i].step \notin Exits
       /\ slots[j].pkg \in Packages /\ slots[j].step \notin Exits => i = j
  /\ \A i \in Slots, k \in DOMAIN toNode :
       slots[i].pkg \in Packages /\ slots[i].step \notin Exits => toNode[k] \notin Packages

\* Unless something goes wrong (see trouble), an order to build or to reset is
\* answered, whatever other clients ask of the node meanwhile: the
\* proxy does not stay busy.
BusyEnds == [](trouble = 0) => (busy ~> ~busy)

\* The proxy stores what the node is, or the node cannot say it.
Agreed ==
  \/ node.st = "failed" /\ node.why \notin Reasons
  \/ known /\ View(stored, FALSE) = node

\* Whatever is lost, the proxy catches up with a node whose state stays.
Converges == <>[][FALSE]_node => <>[]Agreed
=============================================================================
