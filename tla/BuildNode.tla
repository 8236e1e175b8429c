----------------------------- MODULE BuildNode -----------------------------
(***************************************************************************)
(* A build node (build_node/BuildNode.py): its state, the asynchronous     *)
(* tasks that start a worker process, and the tasks that monitor one.      *)
(*                                                                         *)
(* A task runs without interruption up to its next await.  start_build     *)
(* awaits the creation of the worker process, worker_monitor_function the  *)
(* end of one; everything else is a handler of a single step.              *)
(*                                                                         *)
(* What the node sends to the build master is the sequence toMaster.  Left *)
(* out are its messages to other clients, and error messages, which name   *)
(* no state and change nothing at the master.                              *)
(***************************************************************************)
EXTENDS NodeStates, Sequences, FiniteSets

CONSTANTS
  Names,        \* the packages it may be asked to build
  Slots         \* a bound: the starts and workers that exist at a time

\* How a worker ends: in success, with an exit code that stands for a reason, or
\* with a code that the node knows no reason for, such as Python's own.  A signal
\* counts as `node/abort'.
Exits == Reasons \cup {"success", "other"}

ASSUME BuildNodeAssumption ==
  /\ IsFiniteSet(Slots) /\ Slots \cap {"no worker", "no monitor", "created"} = {}
  /\ "no package" \notin Names

VARIABLES
  node,             \* state
  slots,            \* a start_build task, then the process that it created
  worker_process,   \* the process that the attribute refers to
  monitors,         \* what the monitor created by each start is waiting for
  subscribed,       \* whether the master is among the clients to notify
  toMaster          \* messages in transit to the master

tasks == <<slots, worker_process, monitors>>
nodeVars == <<node, tasks, subscribed, toMaster>>

Unused == [step |-> "unused", pkg |-> "no package"]
NoWorker == "no worker"
NoMonitor == "no monitor"
Created == "created"          \* the monitor task has not run yet

NodeInit ==
  /\ node = Idle
  /\ slots = [i \in Slots |-> Unused]
  /\ worker_process = NoWorker
  /\ monitors = [i \in Slots |-> NoMonitor]
  /\ subscribed = FALSE
  /\ toMaster = <<>>

\* _notify_clients.  A client that just sent a request is among those notified.
Notify(m) == toMaster' = IF subscribed' THEN Append(toMaster, m) ELSE toMaster

Becomes(s) == node' = s /\ Notify(s)

-----------------------------------------------------------------------------
(* Requests of a client.                                                   *)

\* start_build, as far as the protocol handler goes: it creates the task.
RequestStart(p) ==
  \E i \in Slots :
    /\ slots[i] = Unused
    /\ slots' = [slots EXCEPT ![i] = [step |-> "asked", pkg |-> p]]
    /\ UNCHANGED <<node, worker_process, monitors, toMaster>>

\* Mutant: a node that failed is not reset.
RequestResetFinished ==
  /\ IF node.st \in {"finished", "idle"} THEN Becomes(Idle) ELSE UNCHANGED <<node, toMaster>>
  /\ UNCHANGED tasks

RequestReset ==
  /\ IF node.st \in {"finished", "failed", "idle"} THEN Becomes(Idle) ELSE UNCHANGED <<node, toMaster>>
  /\ UNCHANGED tasks

EnableMaintenance ==
  /\ IF node = Idle THEN Becomes(Maintenance) ELSE UNCHANGED <<node, toMaster>>
  /\ UNCHANGED tasks

DisableMaintenance ==
  /\ IF node = Maintenance THEN Becomes(Idle) ELSE UNCHANGED <<node, toMaster>>
  /\ UNCHANGED tasks

\* Mutant: get_status has no branch for maintenance.
SendStatusOfWork ==
  /\ toMaster' = IF node = Maintenance \/ (node.st = "failed" /\ node.why \notin Reasons)
                   THEN toMaster ELSE Append(toMaster, node)
  /\ UNCHANGED <<node, tasks>>

\* get_status.  After an exit code without a reason it raises a KeyError.
SendStatus ==
  /\ toMaster' = IF node.st = "failed" /\ node.why \notin Reasons
                   THEN toMaster ELSE Append(toMaster, node)
  /\ UNCHANGED <<node, tasks>>

\* A client that is silent for too long is forgotten at the next notification.
Forget ==
  /\ subscribed /\ subscribed' = FALSE
  /\ UNCHANGED <<node, tasks, toMaster>>

-----------------------------------------------------------------------------
(* The tasks.                                                              *)

\* Processes that ended and that nothing refers to any more.
Collected(ss, w, ms) ==
  [i \in Slots |->
     IF ss[i].step \in Exits /\ w # i /\ ms[i] = NoMonitor /\ \A k \in Slots : ms[k] # i
       THEN Unused ELSE ss[i]]

\* The first step of start_build.
StartBegins(i) ==
  /\ slots[i].step = "asked"
  /\ slots' = [slots EXCEPT ![i] =
                 IF node = Idle THEN [@ EXCEPT !.step = "creating"] ELSE Unused]
  /\ UNCHANGED <<node, worker_process, monitors, subscribed, toMaster>>

\* The rest of it.  The state is not looked at again.
StartEnds(i) ==
  /\ slots[i].step = "creating"
  /\ UNCHANGED subscribed
  /\ worker_process' = i
  /\ monitors' = [monitors EXCEPT ![i] = Created]
  /\ slots' = Collected([slots EXCEPT ![i].step = "running"], i, monitors')
  /\ Becomes(Building(slots[i].pkg))

\* The worker process could not be created.  Only the client that asked for it
\* is told, with a message that names no state.
StartFails(i) ==
  /\ slots[i].step = "creating"
  /\ slots' = [slots EXCEPT ![i] = Unused]
  /\ UNCHANGED <<node, worker_process, monitors, subscribed, toMaster>>

WorkerExits(i, code) ==
  /\ slots[i].step = "running"
  /\ slots' = Collected([slots EXCEPT ![i].step = code], worker_process, monitors)
  /\ UNCHANGED <<node, worker_process, monitors, subscribed, toMaster>>

\* The monitor waits for the process that worker_process refers to by then.
MonitorBegins(i) ==
  /\ monitors[i] = Created
  /\ monitors' = [monitors EXCEPT ![i] = IF worker_process = NoWorker THEN NoMonitor
                                                                     ELSE worker_process]
  /\ slots' = Collected(slots, worker_process, monitors')
  /\ UNCHANGED <<node, worker_process, subscribed, toMaster>>

\* Mutant: an exit code of zero is a success.
OutcomeOfShell(p, code) == IF code = "node/try_again" THEN Finished(p) ELSE Failed(p, code)

\* What the state becomes when a worker ended that way.
Outcome(p, code) == IF code = "success" THEN Finished(p) ELSE Failed(p, code)

\* The monitor can make a state of the return code: there is a process, it has
\* ended, and the old state names a package.
Understood(code) == code \in Exits /\ node.st \in {"building", "finished", "failed"}

\* Mutant: the monitor takes the code of the process that it waited for, while the
\* state is that of the latest one.
MonitorEndsOwn(i) ==
  /\ monitors[i] \in Slots /\ slots[monitors[i]].step \in Exits \ {"other"}
  /\ UNCHANGED subscribed
  /\ monitors' = [monitors EXCEPT ![i] = NoMonitor]
  /\ node.st # "idle"
  /\ Becomes(Outcome(node.pkg, slots[monitors[i]].step))
  /\ worker_process' = NoWorker
  /\ slots' = Collected(slots, worker_process', monitors')

\* The process that monitor i waited for has ended.  It looks at worker_process
\* again, and an exception ends it when it does not understand what it finds, or
\* when there is no reason for the code.
MonitorEnds(i) ==
  /\ monitors[i] \in Slots /\ slots[monitors[i]].step \in Exits
  /\ UNCHANGED subscribed
  /\ monitors' = [monitors EXCEPT ![i] = NoMonitor]
  /\ LET code == IF worker_process = NoWorker THEN "none" ELSE slots[worker_process].step
     IN IF Understood(code)
          THEN IF code = "other"
                 THEN /\ node' = Outcome(node.pkg, code)
                      /\ UNCHANGED <<worker_process, toMaster>>
                 ELSE /\ Becomes(Outcome(node.pkg, code))
                      /\ worker_process' = NoWorker
          ELSE UNCHANGED <<node, worker_process, toMaster>>
  /\ slots' = Collected(slots, worker_process', monitors')

NodeSteps(i) ==
  \/ StartBegins(i) \/ StartEnds(i)
  \/ MonitorBegins(i) \/ MonitorEnds(i)
=============================================================================
