# TSLB: models, checks and proofs

TSLB builds a Linux distribution out of source packages. A build master computes the
dependency graph of all enabled packages and hands packages to build nodes, each of
which runs one worker process at a time; a worker takes a package through a pipeline
of stages and records what it did in a database that master and nodes share. File
systems for the builds (rootfs images and scratch spaces) live in Ceph, guarded by the
locks of an external cluster lock manager, and all processes exchange messages through
an external broker, yamb.

This directory holds TLA+ modules for the parts of TSLB whose correctness depends on
the order of events, configurations that check them with TLC, and proofs that TLAPS
checks. Paths below are relative to `src/python/tslb/`, those of `.cpp` files to
`src/src/tslb_client/`.

## 1. The system

| Component | Source | State | Operations | Talks to |
|---|---|---|---|---|
| Build master controller | `build_master/controller.py` | `_internal_state`, `_error`, `_valve`, graph and components, remaining / queue / building / finished, success and failure counters, `_nodes` | start, stop, open, close; notifications of cluster and nodes; the graph computation task; `_schedule` | package interface (calls), node proxies (calls, callbacks), client interface (callbacks) |
| Graph and component numbering | `tarjan.py`, `stack.py` | marks, numbers, two stacks | `find_scc` | called by the controller |
| Package interface, build state | `build_master/package_interface.py`, `build_state.py` | event history in the database | next stage, outdate child, success events | database, read again at each call |
| Cluster interface, node proxies | `build_master/cluster_interface.py` | the proxies: stored state, busy flag, last contact, address | discovery, status requests, start_build, reset | messages to and from nodes; callbacks to the controller |
| Build node | `build_node/BuildNode.py`, `worker.py` | `state`, `worker_process`, `worker_monitor`, client addresses | start_build, reset, maintenance, get_status; starting and monitoring tasks | messages of several clients; worker process |
| Package builder, pipeline | `package_builder.py`, `build_pipeline/` | events, snapshots, rootfs clone, locks | build_package, the stages | database, rootfs, scratch space, collecting repository |
| Scratch spaces | `scratch_space.py` | list lock, lock and image of each space | get / create / delete / mount | lock manager, Ceph |
| Rootfs images, forest balancer | `rootfs.py`, `rootfs_balancer.py` | image list, published flags, locks, clone forest | create, publish, clone, delete, find_image | lock manager, Ceph, database |
| Console streaming | `console_streaming.py`, `BuildNodeProxy.cpp` | chunk ring, mark ring, subscribers; at the client the consoles and their last marks | append, request, acknowledge, clock tick; open, close, reconnect | messages to and from clients |
| Client interface | `build_master/client_interface.py` | subscribers with a last contact | subscribe, answer, forward commands, notify of domains | controller, clients |
| C++ client | `BuildMasterProxy.cpp`, `BuildClusterWindow.cpp` | a copy of the master's state, timers, the buttons and the LED | refresh, search, commands, what a message changes | client interface |
| Versions, constraints | `VersionNumber.py`, `Constraint.py` | none (pure values) | order, text, compatibility, DependencyList | packages, editor, StageAddRdeps |
| Package database | `SourcePackage.py`, `BinaryPackage.py`, `database/` | rows, locks | create, delete, attributes, holds, versions, binary packages | database, lock manager, scratch spaces |
| Management shell | `management_shell/` | the user's position, the text in the editor | commands on packages, spaces, images; editing of properties in three small languages | database, locks, an editor program |
| Updating script | `tslb_source_package_retrieval/update_versions.py` | what it has read, its locks | copy the newest enabled version, disable the old one | user, database |
| Runtime dependencies | `build_pipeline/StageAddRdeps.py` | demands, a DependencyList for each binary package | one step for each source of demands; removal, additions, publication | database of files, attributes |

`PROJECT.json` lists the other parts too (program analysis, file system access, the rest of
the above) with the reason why each is left out.

### What is hard about it

* **Order of verdicts.** Nodes finish in any order, while operators open, close and stop.
  Packages with circular dependencies are tried in two rounds, with failure counters that
  a success resets. Whether a component starts exactly when the last one it needs is
  finished, and is never forgotten, is decided in three different handlers.
* **Every handler schedules.** All of them end with `_schedule`, also those that failed
  the build. An exception inside leaves the controller between two states.
* **Nodes are shared.** Other clients (the GTK client, for instance) can start builds, reset nodes and put
  them into maintenance while the master uses them.
* **Awaits in the node.** `start_build` looks at the state, awaits the creation of the
  worker, and sets the state without looking again. The monitor awaits one process and
  then reads `worker_process`, which may refer to another.
* **Messages.** The proxy believes only what differs from what it stores. Answers to
  status requests cross notifications; messages can be lost.
* **Locks held while waiting** for other locks (scratch spaces, rootfs images), upgraded,
  downgraded and let go of in between, and released by destructors that may fail.
* **Four places for one thing.** A rootfs image is a row, an rbd image, an entry of a list
  and a lock; a binary package a row, a directory, a file in the repository and a row in
  the current list. No step changes two of them at once, and every step can be the last.
* **Resuming.** A build starts where the history of events says, in a scratch space that
  whoever was last may have left anyhow, while operators outdate stages, delete snapshots
  and delete binary packages.

* **Views of views.** A window shows a proxy's copy of what the client interface read from
  the controller; consoles show what a proxy was sent of a ring buffer that forgets. Each of
  them subscribes, times out and asks again on its own.
* **Conversations under locks.** The updating script asks its user while it holds locks, and
  upgrades them; the shell's editor holds none between reading a value and writing it.
* **Order in data.** A list of constraints is built one by one, and each is compared with
  what is there. Values pass through texts with comments, escapes and continued lines.

### What makes each component correct

* *Controller*: dependencies are built first; one package of a component at a time; two
  complete rounds for circular dependencies; every build is assigned to one node; no idle
  node beside a queued package; nothing begins in a failed or closed build; nobody is
  forgotten; with the valve open everything is built in the end.
* *Component numbering*: the numbers are the strongly connected components.
* *Node and proxy*: the proxy catches up with the node; an order is answered; a verdict
  is that of the build it was asked for; a node that says `building` has a worker and a
  monitor; the master has one build on a node.
* *Build state*: what was outdated is built again; master and builder agree on the next
  stage.
* *Package builder*: every stage builds upon exactly what the database says its
  predecessors produced; what a build may have to restore is kept; builds end.
* *Scratch spaces*: whoever writes is alone; nothing that is inspected goes away; nobody
  waits for ever.
* *Rootfs images*: an image that is used exists; a build runs in an image that has
  what it needs and that nobody writes; what is listed is usable; comments protect.
* *Binary packages*: what a dependant finds in the database can be installed from the
  repository.
* *Source packages*: what the master and the script have read stays so while they rely on
  it; held values do not change; every scratch space belongs to a version; nobody waits in
  a circle.
* *Console streaming*: a console shows the output in order and comes to its end; after a loss, from the repair on.
* *Client*: a fresh window shows the master's state, and its LED whether it is there.
* *Dependencies*: a text that is not touched stands for the value it was made of, if the value has a text; a list
  means all of its lines; what is published is what was demanded.

## 2. Modules

```
NodeStates <-- BuildNode <-- BuildCluster <-- MCBuildCluster, BuildCluster_proofs
     ^
     |
PackageGraph, NodeStates <-- BuildMaster <-- BuildMasterOrder <-- MCBuildMaster
     ^                            ^                  :  implements
     |                            |              BuildOrder
     +-- BuildOrder    BuildMaster_proofs (EXTENDS BuildMasterOrder, ClientView)
     +-- Tarjan <-- MCTarjan

BuildState <-- PackageBuild <-- MCPackageBuild, PackageBuild_proofs
ClusterLocks <.. Rootfs <-- MCRootfs, Rootfs_proofs            (<.. is an INSTANCE)
ClusterLocks <.. ScratchSpaces <-- MCScratchSpaces, ScratchSpaces_proofs
BinaryPackages <-- MCBinaryPackages, BinaryPackages_proofs
ClusterLocks <.. SourcePackages <-- MCSourcePackages, SourcePackages_proofs

BuildMaster <-- ClientView <-- MCClientView, BuildMaster_proofs
ConsoleStreaming <-- MCConsole, ConsoleStreaming_proofs

VersionNumbers <-- DependencyLists <-- ConfigFiles <-- ObjectEditor <-- RuntimeDependencies
                                                  RuntimeDependencies <-- MCRuntimeDependencies
```

The first part is what happens at the master and between it and the nodes, the second
what a worker does with a package, the third what an operator sees of it, and the last how
dependencies are written, read and computed. They meet in a few places. `pending` of
BuildMaster says that a package has a next stage; BuildState is where that comes from. A
worker's verdict in BuildNode is the end of a build in PackageBuild. PackageBuild holds a
scratch space (ScratchSpaces) and an image (Rootfs), and installs what BinaryPackages offers.
The graphs of BuildMaster are what a master process of SourcePackages reads, and ClientView is
BuildMaster itself with clients around it.

**PackageGraph** has the dependency graph (`_G`, `_GT`), components as sets of packages,
and the contracted graph (`_H`, `_HT`) as operators of the graph. Reachability is "in
every closed set that has p", which needs no recursion, so that it can be reasoned about.

**NodeStates** has the states a node can be in and a proxy can show, and `NextReports`:
what a proxy can show next, given the package the node was told to build. The controller's
model takes its environment from it, and BuildCluster is checked to keep to it.

**BuildMaster** is the controller. It is single threaded: a handler runs to its end,
including the call of `_schedule`, so one handler is one action. Its variables are the
attributes, under their names without the underscore. `queue[p]` counts the entries of p
in the priority queue. `pending` stands for the database: the packages that have a next
stage. `task` is the computing task. Three things are left open on purpose: which
available node `_find_best_node` takes, which entry comes first among those with the same
fan-out, and which of several equally good packages `_scc_choose_package` returns (it
depends on the order of a dict). Exceptions that the code meets are actions too: the
computing task dies (`ComputeDies`), `_bind` raises in the middle of `_schedule` (the
second disjunct of `Schedule`), a handler raises a KeyError (`Raised`).

**BuildOrder** is the abstract specification: what a build promises, with four variables
and no nodes, valve, queue or counters of failures. **BuildMasterOrder** holds the
refinement mapping: a build runs while the controller is idle, and the packages under way
are those queued or building.

**Tarjan** is `find_scc`, one action per arc looked at; the order of the nodes and of
the arcs, which follows dict order in the code, is arbitrary.

**BuildNode** is the node: its state, the tasks of `start_build` and
`worker_monitor_function` with a step for each stretch between two awaits, worker
processes, and the master's address in `_client_addrs`. A *slot* is one start: the task,
then the process it made; `monitors[i]` is the monitor that start i made, and what it
waits for.

**BuildCluster** composes a node with its proxy and with what the controller does about
this one node, over two FIFO channels that lose messages. Other clients reset the node,
put it into maintenance and have it build a package of their own.

**BuildState** has the events of a package version as a sequence and, as operators of it, what
`get_build_state`, `get_next_stage` and the beginning of `build_source_package_version`
work out: the next stage, whether a snapshot must be restored, and which. The sequence is in the order of the time
stamps; a stage is its position in `all_stages`, and 0 one that the list once had.

**PackageBuild** is the builder's loop over the stages, one action for each database
transaction and each change of the scratch space, together with operators who outdate stages and
delete old snapshots. The scratch space *holds* a sequence of stage runs, one upon the
other; it is *dirty* while a stage or a rollback changes it. `StageFails` and `Dies` can come
at any point.

**ClusterLocks** is what `tclm.py` gives its users: S, S+ and X locks which a process may
hold side by side. The lock manager is external; its locks are hierarchical: an X lock waits
for the locks above and below it, which PackageBuild and SourcePackages use (`WaitsFor`)
and the other modules do not need.

**Rootfs** is the life of images: `find_image`, `cow_clone_image`, `publish`,
the downgrade of the lock and the build in `build_package`; publish, unpublish,
comment, `remove_ro_base` and delete of the shell; and the two tools that delete many. A tool keeps the lock of an
image that it does not mean to delete until it looks at the next one, and that of the last to its end. One action is one
database transaction, one command on the cluster, or one lock that is waited for. Packages in an
image are pairs of name and version, `content` what is in it and `list` what its row says; `Avoided` are the names that an image for a demand
must not have (`avoid_compiletime_pkgs`).
Several things are taken as one step: flattening a child, waiting for both locks of
`remove_ro_base`, and the reads of `find_image` under the lock of the list. Operators publish only images
that they did not leave half made (`Refrains`).

**ScratchSpaces** is one space and its users: builders, `inspect_scratch_space`,
the commands of the shell on spaces and their snapshots, deletion with the space or with the package version.
`__del__` unmounts and releases, as an action of its own, since it can fail; `clean_mnt.py` is run by operators
on a host where nothing else runs. What TCLM does if a lock is created that exists is left open.
`left` are the locks that a shell has kept from commands before, when unmounting failed. They do not stand in its own way:
a shell runs all of its commands with one lock process, and TCLM lets a process have a lock twice, and counts. That is external code; the
evidence is `CdepGraph.py:32`, whose `build` takes the lock on the list of packages and then calls `list_source_packages`, which
takes it again and gives it back.

**BinaryPackages** is one package version in its last three stages: rows, current list,
rdeps, directories, the `.new` files and the forms in place in the collecting repository, with the packing threads;
operators who outdate stages and remove old binary packages; a builder of another package, who chooses the `-all`
package to install, and another package's `StageAddRdeps`, which looks up a shared object. That the build
starts at the first stage ahead on what its predecessors left is taken from PackageBuild.

**SourcePackages** is the database of packages and versions with its locks, and four kinds of
users: a builder that mounts the space of a version and outdates others, shells that list, read, create,
copy, hold and delete, the script that updates versions, and the master that reads the graph. A
transaction is one step, since it runs under an X lock; waiting for a lock, reading, the
dialogue with the user, and every write that is a transaction of its own are steps. `spaceLocks` are the scratch spaces
of which TCLM knows the lock: a builder that dies in `create_scratch_space` leaves one without (`MountDies`).

**ConsoleStreaming** is the output of one build on its way to the consoles of one client:
`append_chunk` with its two rings, index by index; the streamer with its subscriber; the node's
proxy in the client, and two channels that lose messages. A byte is its chunk and its place, so
that the order of what is shown can be compared with what was written. The client skips what a console has already by adding up
the places at which chunks start (`Skipped`), as the code does; `Known` is what it should skip. Where the two differ
the console is *disturbed*, and `disturbed` remembers the mark up to which. Beyond the data a console is given something that is no output
(`Beyond`), or the client dies (`ClientDies`).

**ClientView** EXTENDS BuildMaster: every step of the controller also tells the client
interface what changed, which sends it to its subscriber, asks, answers and forgets; the client's
proxy keeps a copy, and the window derives its buttons and its LED. Messages keep their order, and each
is handled by itself (`MasterReceives`, `ClientReceives`) or lost (`Lose`). A behaviour
follows one of the domains (`followed`); of the others only that messages are sent is seen.

**VersionNumbers** has versions as texts and as values with the conversions between them;
**DependencyLists** constraints and lists of them, with all the cases of `add_constraint`;
**ConfigFiles** the preprocessor and, for each of the three languages of
the editor, the tokenizer as a step over the symbols of a text, and the parser as the form
of its lines. **ObjectEditor** is the session: a value is shown as a text, the user types, erases, pastes,
and what comes back is read or edited again. **RuntimeDependencies** is `StageAddRdeps`,
one action for each of its parts, which takes in the property that was edited.
Everything that the stage finds in files and databases is a *world*, a record. Folds over symbols are
recursive functions (`Scan`).

The names of definitions follow the code; the table `map` in `PROJECT.json` gives the
lines of each. Operators under a comment `Mutant:` are plausible bugs. Nothing uses them;
put in the place of the definition they follow, they show that the properties notice.

## 3. Runs

| Run | Instance | What it shows |
|---|---|---|
| `build_master` | 3 packages, 2 nodes, two graphs, `_bind` may raise, fairness | the controller's data structures agree in every order of commands and reports; with the valve open everything gets built; the controller implements BuildOrder |
| `tarjan` | every graph on 4 packages up to renaming | the search ends with exactly the components, each in one number |
| `build_cluster` | one node, 2 slots, a foreign request, an incident, fairness | the reports that BuildMaster assumes are the only ones; verdicts are fresh; the master's builds do not double; `busy` ends unless something goes wrong; the proxy catches up with its node whatever goes wrong |
| `package_build` | 3 stages, 4 histories, 2 outdated stages, 1 incident, fairness | stages build on what the database says; what is outdated is rebuilt; the restore point is kept; master and builder agree; builds end |
| `rootfs_images` | 2 processes, 3 images, 3 operations, 1 fault, fairness | builds run in images that are there and have what they need, listed ones are usable; three deadlocks and no other |
| `scratch_spaces` | a builder and two shells on two hosts, 4 operations, 1 fault, fairness | writers are alone but for a shell that could not unmount, what is inspected stays, everything ends but behind such a shell |
| `binary_packages` | `-all` and one part, 4 versions, an outdated stage, 2 incidents, fairness | `-all` is never published without its parts; what was chosen can be installed; what was looked up appears |
| `source_packages` | 2 packages of up to 2 versions, builder, two shells, script, master, 3 operations, 1 fault | what the master and the script read still holds; held values stay; spaces have versions but in three cases; two deadlocks and no other |
| `console` | 2 consoles, a buffer of 9, three outputs, 1 incident, fairness | the buffer holds the end of the output; a console shows it in order, and again in order behind a wrong repair of a loss; it catches up after a loss, but for what such a repair leaves out |
| `client_view` | 1 package, 1 node, 1 incident | a fresh window shows what the master holds; the LED tells whether it is there |
| `client_start` | the same | violates a statement of a comment: see section 6 |
| `dependencies` | ten values, ten symbols to type, eight lines to paste, six worlds, an effort of 3 | a text that is left alone keeps its value but for four kinds of values; lists mean their lines but in two cases; what is published was demanded |

**Bounds.** Three packages are enough for a join (two dependencies finish in either
order) and a circular pair with a dependant (two rounds, then another component). Two nodes are enough for two verdicts to race, for two
components at a time, and for one node to be lost while the other goes on. The proofs
remove both bounds, and they let other clients build packages of their own (`Foreign`), of which
there are none in this run. The success and failure counters need none. In BuildCluster,
`Slots` bounds the starts and workers that exist at a time: two, the fewest that overlap,
and one for each start that the bounds on other clients and on the master allow. `MaxInFlight` bounds requests in transit only where a new one is
sent; what is received is always handled, so the bound blocks nobody. `MaxTrouble`
counts lost messages, workers that cannot be created or that exit with an unknown
code, and time-outs of the master's address: one of them. `MaxOthers` counts what other
clients ask for: one, which can be a start that overlaps with the master's, or a reset during its build.
For the invariants, `MaxOthers = 2` (such a start and a reset after it), and with one foreign request
`Packages = {p, q}` and `MaxInFlight = 2`, have been checked as well and show nothing else.

In PackageBuild three stages give a first, a middle and a last one, so that a stage can be
outdated before, at and after the one that failed; the histories start with no event, a complete build, a
stage that the pipeline lost, and a stage that was inserted later. Two outdated stages let one
hide behind the success of the other. In Rootfs the second old image is a clone of the first,
a third can be made; the demand for nothing avoids the package that the clone has. Three operations on two processes let one come between two steps of
another after a third has prepared its ground. In ScratchSpaces two shells share a host,
as two inspectors do, and the builder is on another. In BinaryPackages two incidents are what
it takes to move half a file into place; with a part more and one incident the run shows
nothing else. `MaxOps`, `MaxFaults`, `MaxOutdates` and `MaxTrouble` only stop things from being
*started* or from failing, never a step of what goes on.

In SourcePackages three operations let two processes come in between the steps of a third; both
packages can have two versions, so that there is an old and a new one to copy, and a package to
be locked next. In ConsoleStreaming chunks are shorter than half the buffer, as the code sees to
(`ConsoleStreamingAssumption`). The lengths of chunks in the three outputs are 4, 4, 1, 2; 4, 1, 1, 4, 1; and 4, 1, 1, 1, 1. They fill and wrap
both rings, and after a loss they give every outcome of the wrong skip: in the first the answer repeats chunks that are known, in the second it
leaves out chunks that stay missing, and in the third it is read past its end. In
ClientView the timers are shortened to one second for refreshing and searching and to three
for time-outs, which keeps their order; a package, a node and one incident (a lost
message, or a restart) suffice for every handler to run between any two messages. In
RuntimeDependencies `Effort` bounds the user: a typed or erased symbol and an assignment cost
two, a pasted or erased line, setting None and a build one. So two lines and a
build, or one symbol and a line, or three lines, come together. The worlds are an ordinary one, one
with `skip_rdeps`, two in which a file is in too many packages or in another one of the build, and one without
extras, and one where another binary package sets the attribute to None; the packages are one of each category. The values are one or more of
each kind that comes back from the editor, and one of each that does not, but for the letter z, which is typed.

**Symmetry** is used in `source_packages`, for the two shells, which are interchangeable in the
specification and in the properties; nowhere else, since TLC does not support it for liveness.

**Deadlock** is checked in all runs but these: `tarjan` and `console`, which stop when all is done, and
`rootfs_images`, `scratch_spaces` and `source_packages`, where all stops when `MaxOps` operations are over, or
in one of the deadlocks that `OnlyKnownDeadlocks` and `OnlyTheseDeadlock` describe.

**Fairness.** In BuildMaster: the event loop runs the computing task (weak); a node
that is given packages again and again comes to a verdict, and a node that was reset
becomes idle (strong, since the reports stop being possible whenever the proxy shows
something else in between). A verdict is success or failure of the package: try-again
and aborts are reports a node may give, but not for ever. `BuildCompletes` assumes further that
in the end the operator leaves the valve open and no error closes it, and that a node can be used again and again.
In BuildCluster: timers fire, messages are handled, and the node's
event loop runs its tasks (weak). Nothing says that a worker ever ends, and
nothing that a message arrives: a loss is an action like any other, only their number
is bounded. In PackageBuild and BinaryPackages a build goes on, and is started again as long as there is
something to do (weak): the master and operators do that; stages end, since a hanging stage is killed by hand, which
is an incident. In Rootfs and ScratchSpaces every process goes on where it can (weak); a lock is
granted if it stays free, and the number of operations is bounded, so that nobody is overtaken for ever.
In ConsoleStreaming the node and the client handle what arrives (weak); nothing says that
messages arrive, or that a process writes.

## 4. Proofs

Eight modules hold theorems. Each `X_proofs` EXTENDS the module `X` that a run checks, so the theorems
are about the very definitions that TLC evaluates, for every value of the constants that the named ASSUMEs
admit. In each, `TypeCorrect` is `Spec => []TypeOK`, and `Inductive` is `Spec => []IInv`, where `IInv` is the
strengthening that the other theorems follow from. Every `IInv` was checked with TLC before it was proved. The bounds
(`MaxOps`, `MaxTrouble` and the like) are constants too: the theorems hold for all their values.

| Module | Theorem | States | Of the run's properties |
|---|---|---|---|
| `BuildMaster_proofs` | NoTwoAtATime, DependenciesFirst, NobodyForgotten, NoIdleNodes, FinishedStaysFinished | the controller's data structures agree, in every order of reports and commands | SingleFlight, DepsFirst, TurnTaken, WorkConserving, FinishedUpToDate |
| | RoundsStayTogether, OneNodePerBuild, DisjointSets | two rounds of a component never mix; one node for each build; three disjoint sets | |
| | StartsWhenOpen, ResultsAreKept | what a step may never do: start a build with the valve closed, or lose results | |
| | BuildsInOrder | the controller implements BuildOrder | ImplementsOrder |
| | ClientsAreUpToDate | a fresh view is the master's state, through expired subscriptions, losses and restarts | UpToDate |
| | LedIsRight | the LED tells whether the master is there, two searches after the last trouble | LedRight |
| `BuildCluster_proofs` | ControllerIsToldTheRightThings | the proxy shows the controller what NextReports admits, and nothing else | ReportsAsAssumed |
| | VerdictsAreFresh | a verdict is that of the worker started for this assignment | VerdictIsFresh |
| | OneBuildAtATime | the master's builds never double on a node | OneOwnWorker |
| `PackageBuild_proofs` | OutdatedComesAgain | what was outdated is built again | OutdatedIsRebuilt |
| | RestorePointsStay | old snapshots go, the one to restore stays | RestorePointKept |
| | SameNextStage | master and pipeline find the same next stage | MasterAgrees |
| | StagesBuildOnTheirPredecessors | a stage begins upon the last successful results of all stages before it | |
| `ScratchSpaces_proofs` | WritesAlone, InspectionIsSafe | writers are alone, except a shell that removes what it has mounted itself; what is inspected stays | WriterIsAlone, InspectedStays |
| `Rootfs_proofs` | ListedIsUsable | what is listed is usable | AvailableUsable |
| | BuildsRunInSuitableImages | a build has what it needs, in an image that nobody writes | BuildEnvironment |
| | NoOtherDeadlocks | the locks on images come to a standstill in three ways only | OnlyKnownDeadlocks |
| `BinaryPackages_proofs` | PublishedInOrder, ChosenStaysInstallable | what is published has its parts there; what is chosen can be installed | PublishedWithParts, ChosenInstallable |
| | LatestIsOfThisBuild | the stages after the split work on what this build made | |
| | DependenciesAreFixed | what a published All depends on does not change | |
| `SourcePackages_proofs` | GraphOfOneState | what master and script read is one state of the database | ReadStillHolds |
| | NoSpaceIsLost | a space belongs to a version, unless its package was destroyed in one of three ways | SpacesHaveVersions |
| | WhatIsHeldIsKept | no step changes what is held | HeldStays |
| | OrderPreventsDeadlock | processes that keep to the order of locks never wait in a circle | OnlyTheseDeadlock |
| `ConsoleStreaming_proofs` | BufferKeepsTheEnd | the buffer hands out the end of the output, wherever its rings wrap and grow | BufferHoldsTail |
| | ConsolesShowInOrder | a console shows the output without gap or repetition, from the last wrong repair of a loss on; without a loss there is none | ShownInOrder |

### The controller

None of its safety properties is inductive. DepsFirst, for instance,
needs that a package joins the queue only if its component's turn has come, hence that
`finished` and the counters agree, hence that counters of circular packages never spread by
more than one. `IInv` therefore has

* `Core`, about the packages under way (queued or building): components are a partition;
  `finished` is exactly what the counters say; a package under way belongs to the lowest level of its
  component and has not been tried there, and it is the only one of it; its parents are finished;
  and unless there is an error, an unfinished component whose parents are finished has one;
* `Assigned`, about queue, building set and nodes: one entry per package, queue and
  building set disjoint, one node per build; a node keeps a package outside the building
  set only after an abort, and then there is an error;
* `WorkConserving`; `FinishedUpToDate`; an error closes the valve; no node is known while
  the controller is off or computes its graph.

`Core` speaks of packages under way as one set. `_schedule` moves packages from the queue to the
building set and so leaves that set alone (lemma ScheduleActive); what
a verdict does to it is settled by CoreSucceeds and CoreFails, without nodes or queues. For
the refinement, OneAttempt and TurnsAreBatch turn the same facts into steps of BuildOrder.

### Clients

The proofs for ClientView stand in the same module, since they rest on the controller's types; they are named ViewInductive,
of `ViewInv`, and ViewTypeCorrect. What a client will know once all messages have arrived is what the last message
under way says of the domain, or its copy if none does (`Told`). StepInforms shows, handler by handler, that every step of the controller
either tells last what the domain became, or tells nothing of it and leaves it as it was shown. Of `nodes` that is an inclusion only,
since `NodeLost` tells nobody; that is why UpToDate promises no more of this domain. What was left
of a stopped build (`Leftover`) is the one case in which a step may tell less. `InSync` says that a client which
has asked for everything since the last trouble (`Certain`) will be told the truth, or has a request under way
to which the master will answer, a subscription being before it in the queue or there already (`WillAnswer`). `Remembered` compares two
clocks: the subscription is never older than the last refresh, so it cannot expire under a client that refreshes in time.

After trouble the client must first find the master again. `FindsIt` says that a search later it knows the address, and has
heard the master since, or the search is just being answered; `HearsIt`, that another search later the LED is green or an answer is under way, since
the first answer after a silence leaves the LED as it was; `Dead`, that a master which does not run is not heard. These relate four timers of two
processes, and they need what the code has in its constants: a proxy is refreshed earlier than it stops responding, a
subscription lasts longer than that, and searches are not rarer than refreshes. Without the last of these
UpToDate is false: after a restart a proxy could refresh at the old address and pass for fresh.

### The node and its proxy

Messages from the node are handled one after the other, and the last thing that the proxy can learn is the state that
the node is in. The invariant speaks of the *trail*: the messages in transit, followed by the node's state. Losing a
message shortens the trail, a change of state that is notified makes it longer by one, and a change that nobody is
told of replaces its end; each action does one of these. Of the trail the invariant says which messages of
the master's own packages it may have, by what the master waits for:

* `OneOrder`: one order to build exists at a time, in transit or at a task of the node, and only while the master waits;
* `Quiet`: until the worker runs, the trail says nothing of the master's packages, and then only `building`;
* `Waiting`: while the master waits, all that the trail says of its packages is `building` this one, or the verdict that the
  worker's exit code means; these messages are next to each other (`Together`), and verdicts come last;
* `Settled`: otherwise, it says only what the proxy shows already, and first;
* `Started`: `worker_process` refers to the worker that the node's state is about.

`Together` is why an `idle` never comes between `building` and the verdict, `Settled` why the repetition of an old verdict
is never taken for that of a new build. The theorem ControllerIsToldTheRightThings is the link between two models: BuildMaster
takes the reports of its nodes from `NextReports`, and BuildCluster shows that the node's code and the
proxy's, with lost messages and other clients between them, give no others.

### Pipeline

The log of events and the snapshots are related run by run: the builder is where the log says (`AtItsStage`), only successes name
runs, later ones later runs (`RunsInOrder`), and snapshots are of runs that have begun, a logged one of the stage that the log
says (`SnapshotsOfRuns`).
OutdatedIsRebuilt and RestorePointKept are inductive beside these. StagesBuildOnTheirPredecessors adds what the space
holds at each place of the builder (`BuilderHolds`). It has a hypothesis, `Unbroken`: an earlier build ran the stages one by
one, up to the last or to where it stopped, and stages that came or went since are only met in packages that were built to the end.
All histories of the run satisfy it. It is needed: `build_source_package_version` goes on behind the last success, and
a stage that has been inserted *before* that success is skipped, so what follows is not built upon it.

In BinaryPackages every stage takes the greatest version number of a name that is in the database, and nobody tells it that this
is the one its own build has made. It is, because all versions are at most `newest`, `set_current_binary_packages` lists what
the split has just added, and `remove_old_binary_packages` never takes the newest of a current name (`TheSplit`,
LatestIsNewest). Of this version nothing is in the repository until the split has succeeded (`Unpacked`), and once All is there, what it
depends on is what AddRdeps would compute again (`Placed`), which is why outdating that stage does not break PublishedWithParts. A dependant chooses the
greatest version not newer than the last success, which is the complete one itself: old versions are deleted from the oldest on, so if any of these
has a row, that one has (CompleteStays). That it is whole holds until the second incident (`Torn`): one must interrupt a copy, and
another one keep the next attempt from copying again. `Counted` shows that the bound of `Versions` never keeps a split from starting.

### Locks

In ScratchSpaces, Rootfs and SourcePackages, and for any number of processes, the proofs go from the exclusion of locks
(`Exclusive`: two locks that exclude each other are not held by two processes) to what each process relies upon at each
place of its operation. In ScratchSpaces that is: what is mounted is locked by somebody on that host, unless a process has died there
(`MountedIsLocked`), and whoever is past a certain place has the lock (`Owned`). In SourcePackages, `Local(q)` lists for each
operation and place what q holds and what it has read; a step of another process leaves it alone, because it
would need a lock that excludes q's. OrderPreventsDeadlock takes a set of processes that wait for each other, without the script that
upgrades a lock and the destruction of a package: nobody who waits has an X lock, so those who want to read do not wait;
whoever has a lock has the S+ lock above the one it wants, and so waits for readers only; then nobody in the
set has a lock, and there is nothing to wait for.

In Rootfs, `Local(p)` has three parts: what an operation is at which place (`OnCourse`), what it has locked there (`Locked`), and what it
knows of its image (`Sees`): that it is listed, that nobody lists it, that its row is there, that it holds what a build wants.
The central lemma is that every step is *careful* (StepsAreCareful): it changes an image only if nobody else has that image
locked, changes the list only if nobody else has the list locked, and leaves a changed image on the list only
if it is usable. From the first two follows that what the others see stays so (OthersSee), from the third AvailableUsable. The order matters:
`publish` protects the snapshot before it lists the image, and the row of an image goes only if it is not listed. An image that
is being made is protected before anybody has a lock on it, because its number is new (`Unmade`). `find_image` relies upon the error
function: images are finite sets of packages, so the function has a minimum (BestIsListed), and where it is 0 the image has what was asked for
(WhatFits), which needs one version of each name in a demand. For NoOtherDeadlocks, suppose that the processes of a set wait for each other in none of the
three ways. Whoever wants to read is kept by one who has an image exclusively and wants the list, which only a
`find_image` that waits for this image could have. So nobody waits for the list or in order to read; what remains are commands, which have no
locks, and tools that delete an image, each of which waits for one that has this image locked and, being neither in the way of
BothDelete nor of LastStaysLocked, still means to delete it, and so deletes an image of a greater number.

### Consoles

BufferHoldsTail is about reading; the invariant (`Holds`) is about where things are. It measures from the end: the chunk
that is kth from the oldest starts `Size(b, k)` bytes before `dend`, the sizes fall strictly within the capacity, and the
last `Size(b, 0)` bytes before `dend`, around the ring, are the last ones of the output. `append_chunk` is taken apart in the
order of the code (Evicts, Copies, Grows, Notes, then Appends): the new bytes come to lie behind the old ones, every size grows by the
length of the chunk (Farther), and what is overwritten lies before the oldest chunk that is kept (BeforeEnd). There is a case
that one would not expect: the array of metadata may be full after it has wrapped, and then the chunk is noted alone, and
all others are forgotten although their bytes are there. The end of the output stays the end of the output, so the theorem
holds; a client that lags gets less than it could. `get_chunks` reads forwards from a start, and FromStart turns
that into the distance from the end.

ShownInOrder has two parts. `Shown` holds through losses: whatever a console takes in, its last mark is that of the message, and
what it was given since it was last disturbed goes from there to this mark, since either what is known was skipped, or this message
disturbs it anew. The other part says that without trouble no console is ever disturbed: the messages to the client form a chain (`InTurn`): each starts with the mark that the one before ends with,
and the last ends with what is written. Every console that has begun is where the first of them starts (`NothingMissed`). An
update therefore helps each of these, and a repetition none (Gets); so nothing is ever requested again but
from the start (`AsksAfter`), and the subscriber's acknowledgement is never overdue (`Subscribed`, ClkIsTrouble): a subscription
expires only by a loss or by a client that is slower than the timer. From then on the first part is all that is left; that a console
comes to the last chunk is left to CatchesUp.

### Assumptions

Packages, nodes and stages are what the named ASSUMEs say: packages and nodes of the controller are finite sets; names of packages are
not the markers that `_nodes` and the messages use beside them; earlier builds succeeded with the snapshots of their own runs; a process of
ScratchSpaces has a host; outputs come in chunks shorter than half the buffer, and fewer than marks (2^32 in the code); the times of
clients and master are in the order that their constants have in the code (5 and 10, 13 and 15 seconds), and behaviours of ClientView begin
with `Foreign = {}` and without `BindMayFail`; old rootfs images are numbered from 1, and hold finitely many packages, as builds demand finitely many, in one version each; of source packages there is a last one, and some versions have a newest. The theorems about the controller except
`TypeCorrect` and `ResultsAreKept` assume `Foreign \cap Packages = {}`, and so does BuildCluster: other clients do not build packages the
master builds. Without it they are false, and the code is to blame: see the second disagreement in section 6.
The same happens after a restart of the master while nodes still build for it, which is listed as a hazard.

### Only model-checked

Liveness (`BuildCompletes`, `BusyEnds`, `Converges`, `BuildEnds`,
`OperationsEnd`, `NeededAppears`, `CatchesUp`, `FindsComponents`) is out of the reach of the prover, as is
what recursive functions compute (VersionNumbers, ConfigFiles, and hence ObjectEditor and RuntimeDependencies, whose
properties are about texts). Tarjan's algorithm is only checked.

## 5. What a reader should know

### The node and its proxy

The models hold these facts, which no document states:

* A lost `start_build` or `reset` leaves a proxy busy until the node changes state by
  itself: the repeated answer `idle` does not differ from what is stored. `BusyEnds` is stated
  for histories in which nothing goes wrong.
* A worker that exits with a code outside 0, 1, 2 and 255 sets the node's state and then
  raises in `reason_to_str`; nobody is notified and each status request raises too, until
  somebody resets the node. `Agreed` makes an exception of that state.
* Two overlapping starts leave one worker without a monitor that reports it. The node's state
  is then about the other one, and consistent; the master learns of it by the
  foreign build or, in the end, by an idle node that still has a task, which fails the build.

### A package on its way through the pipeline

* `get_next_stage` raises a NameError if the last successful stage is no longer in the pipeline
  (`Raises`), while the builder goes on with the first outdated stage, or nothing.
* A stage that was inserted before the last success of a package is skipped until an operator outdates it or an
  earlier one (`Unbroken` in PackageBuild_proofs excludes this).
* A stage that was inserted behind the last success of a package, or whose predecessor never ran, leaves the builder
  nothing to restore: it fails each time (`Stuck`) until an operator outdates an earlier stage.
* A builder that dies between making a snapshot and logging it leaves one that counts as the newest; then
  `delete_old_snapshots` deletes the one that the next build wants (`Unlogged`, `Stuck`).
* When a result cannot be logged, the handler calls `spv.delete_snapshot`, which does not exist
  (`build_pipeline/__init__.py:363`).

### Images and spaces

* `find_image` keeps the lock on the list while it waits for its image: with an operator who has
  that image exclusively and wants the list, it waits for ever (`FindsWhatIsListed`). Two deletion tools that found
  the same image do as well (`BothDelete`). A tool frees only the images that it means to delete (`rootfs.py:1116` and `1139`), so the last of the
  others stays locked while it deletes, and another tool that deletes this one may wait for it, and it for that one (`LastStaysLocked`).
* The tools that delete wait for all children to be flattened before an exception of one of them ends them (`rootfs.py:1088`).
* A shell that could not unmount a space keeps the lock on it; whoever asks for the space then holds the lock on
  the list, so that all spaces are blocked until the shell ends (`Kept`). The shell itself is not kept out: it can delete the space that it
  has mounted, which takes its snapshots and then fails.
* Deleting a space removes its snapshots first and can then fail since the image is mapped somewhere (`ImageBusy`).
* The first of two who inspect a snapshot on one host cannot unmount it; the second does.

### Binary packages

* The packing threads' success is looked at after the renaming only. If a copy was interrupted and the next
  attempt cannot pack that package, the half copied `.new` file is moved into place by a stage that then
  fails (`ChosenInstallable` makes that exception, `trouble < 2`).
* `remove_old_binary_packages` keeps the newest version, which a failed build may have made: then
  `max([])` raises in the builder of every dependant until the package is built again (`Choose` is disabled).
* `delete_binary_package` removes a path on the host (`SourcePackage.py:1137`), not the files in the scratch space.
* The first package of an architecture cannot be copied into the repository: the code that makes the
  directory names it `archdir` (`StageCreatePMPackages.py:122`).

### Source packages

* The script that updates versions upgrades its lock on a package while it holds a lock for reading, and
  whoever destroys a package locks the list while it holds the package: both wait for ever if another
  process comes in between (`OnlyTheseDeadlock`).
* `destroy_source_package` deletes the rows of a package and not its scratch spaces in three cases: TCLM knows no lock of the package;
  the package was made only after it had looked for it (`SourcePackage.py:106`); or TCLM knows no lock of one of the spaces, since its builder died when it
  created it. `SourcePackage.py:110-112` swallows every `No such lock.`, also the one about a scratch space (`scratch_space.py:187`), and takes it for the
  package's. A version that is made anew adopts its old space. SpacesHaveVersions sets these spaces apart (`adrift`, `LeftBehind`), and only these.
* `shallow_version_copy` copies `enabled` as well. Between this and the end of the dialogue two versions are enabled, or
  none, and a master that starts then refuses the configuration.
* `edit` of the shell reads a value, lets the user edit it without a lock, and writes it. A hold is honoured, by an exception
  that ends the shell; what another shell has set meanwhile is overwritten.

### Consoles and clients

* The answer that repairs a loss is shown wrongly: to skip what a console has, `BuildNodeProxy.cpp:328-333` adds the places at which the chunks start, and not
  their lengths. If it skips too little, chunks are repeated; if too much, chunks are left out, also the last ones, and nothing asks for them again, since
  the console has their marks. With a pointer past the end of the data, the size wraps below zero and the client reads what is not its own, and may die.
  Without a loss there is nothing to skip but whole messages, and this code does not run. CatchesUp therefore speaks of the last mark,
  and of the last chunk in full unless such an answer brought it.
* A node drops a client whose acknowledgement is lost and does not tell it. `CatchesUp` excludes this.
* A console whose next chunk has left the ring asks for it with every update and is not answered (`TooLate`). Reconnecting
  sends all the old output again, also to the other consoles of the node.
* Once the ring of marks has wrapped, `append_chunk` computes the number of its entries without the wrap (`console_streaming.py:165`) and
  drops chunks for which there was room: what is left is still the end of the output.
* No message says that the set of nodes changed when one is lost: a window lists it until it asks again.
* The LED is computed before the proxy has seen the message: one answer after a silence leaves it red, the second one puts
  it right.

### Dependencies

* `<= v` is refused behind `= v`, and behind `>= v` with `<= v`, although both orders mean the same (`Constraint.py:170`,
  `AtMostBehindEqual`). A border at a version that is excluded already is forgotten, against the comment at line 233
  (`BorderBehindHole`). Among the lists that the run can write these are the only two exceptions. A list that no version satisfies may be refused or
  not; `> 1` with `< 1.0` is not.
* Four kinds of values do not come back from the editor although nobody touches them, and UntouchedKeeps sets them apart (`ValueSurvives`, `Fetched`): versions
  with the letter z; items of a list of strings that are empty, or have a `#`, a newline or blanks at an end (`object_editor.py:109`); pairs whose DependencyList has not
  exactly one object (lines 263 to 309); and a text that ends in its only newline (line 77).
* A version with the letter z is written with a backquote and cannot be read again (`VersionNumber.py:109`, `Survives`).
* `current` and `built` are versions of letters, greater than all numbers, until the stage substitutes them: in one list
  `>= built` replaces `>= 2`.
* The comment that the editor shows says that the lines of a pair are collated; those of a list of pairs are not.
* A list item is cut at its first `#`, also if the user only looks at it. `=<1` is read as `= 1`, and a lone `!` is dropped.
* What cannot be read comes back to the editor for ever; a text of one line loses its newline on the way
  (`object_editor.py:77`), so that it never can.
* The examples that the editor shows for dependencies are not read as they are meant: `package2==3.3` is one name, and a comment
  behind a backslash makes the preprocessor reject the next line.
* A contradiction in `StageAddRdeps` raises, and `worker.py:55` reports it as an abort of the node: a
  wrong attribute of a package takes nodes out of service (so does `StageAddRdeps.py:484`, whose error message is formatted with too few arguments), though `package_builder.py:61` says that only failures
  specific to the system are reported that way.
* With `skip_rdeps` the pre-dependencies are those of an earlier run. Setting `additional_rdeps` to None in the shell makes
  the stage fail.

## 6. Where comments and code disagree

The run `client_start` shows the first of these; the others were met while modelling, and the models contain them.

* `CanStart`. `_stop_build` clears its data structures except the building set: it
  assigns to `_bulding_set` (`controller.py:315`). A controller that is off then
  calls itself `building`, and no window lets its operator start a build.
* "Put the package back on the build queue" (`controller.py:699`): if a node builds another package than it
  was assigned, the handler puts the *reported* package back and forgets the assigned one, which
  stays in the building set. The same happens after a restart of the master while nodes still build for it.
* `get_cdeps` promises InvalidConfiguration but raises an undefined name (`package_interface.py:192`); the
  computing task dies (`ComputeDies`) and the state stays `computing`.
* "Child images are flattened" (`rootfs.py:1128`), but a build that has found the image clones it while the tool waits; the
  image's row is then deleted, and removing the image fails.
* "Initially all available (old) data is transfered to the subscriber" (`BuildNodeProxy.h:65`), but an update that arrives before the
  answer with the old data makes the new console take the old data for known (`BuildNodeProxy.cpp:315`).

## 7. Not modelled, and the plan

Left out of the modelled components: the wording of messages, logging, and the choice of
the best node; the removal of a silent proxy is an event of BuildMaster (`NodeLost`) but not of
BuildCluster, which follows one life of a proxy; a lost node that comes back with a task
(the controller then fails at every cluster notification, which `Retained` covers) reports
nothing more in BuildMaster; a change of a node's address; the shutdown of node and
master.

Left out of the second part: what the stages but `StageAddRdeps` do to the files of a package, by running external programs;
shared libraries; events with equal time stamps; the forest
balancer, which only proposes what to flatten; new locks after a restart of TCLM;
a mount that fails silently (`rootfs.py:293`).

Left out of the third: several clients at a time (they share nothing but the subscriber list, which is a map by address), the
Python client proxy and the Python GTK client, which repeat the C++ one, the drawing of windows, and the wrap of marks after 2^32 chunks.
Left out of the fourth: navigation and completion in the shell, and where in a text a syntax error is reported.

Left out as a whole, with the reason in `PROJECT.json`: the parsers of program analysis and the
wrappers of file system operations. These, the shell's dialogues and the SQLAlchemy queries are most of the lines of the
repository; the models cover the code whose correctness depends on the order of events or on conversions between forms.

Modules to come: the other stages that compute (splitting into
binary packages, maintainer scripts), if their data can be kept small.
