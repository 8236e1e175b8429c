--------------------------- MODULE SourcePackages ---------------------------
(***************************************************************************)
(* The database of source packages and their versions (SourcePackage.py),  *)
(* and who works with it at a time: builders, the management shell, the    *)
(* script that updates versions, and the build master when it computes the *)
(* dependency graph.                                                       *)
(*                                                                         *)
(* A package is the path <<p>>, a version <<p, v>>.  Locks have the same   *)
(* paths, and <<>> is the list of packages: a lock covers what is below    *)
(* it.  Each has one attribute: for a version it is `enabled'.             *)
(*                                                                         *)
(* A write is a transaction under an X lock, which nobody sees half done,  *)
(* and is one step here.  The deletion of a version is two: its scratch    *)
(* space is not in the database.  How a scratch space is made, mounted and *)
(* removed is what ScratchSpaces is about.                                 *)
(***************************************************************************)
EXTENDS Naturals, FiniteSets, FiniteSetsExt, SequencesExt

CONSTANTS
  Packages,                            \* names, numbers for their order
  Vers,                                \* <<p, v>>: the versions that there may be
  Builders, Shells, Scripts, Masters,  \* the processes
  MaxOps,                              \* a bound: operations that are started
  MaxFaults                            \* a bound: processes that die, spaces that cannot be deleted

\* There is a last package, and a newest one among some versions.
ASSUME SourcePackagesAssumption ==
  /\ Packages \subseteq Nat /\ Vers \subseteq Packages \X Nat
  /\ MaxOps \in Nat /\ MaxFaults \in Nat
  /\ \E p \in Packages : \A o \in Packages : o <= p
  /\ \A S \in SUBSET Vers : S # {} => \E e \in S : \A f \in S : f[2] <= e[2]

List == <<>>
Pkgs == {<<p>> : p \in Packages}
Entities == Pkgs \cup Vers
Paths == {List} \cup Entities

Procs == Builders \cup Shells \cup Scripts \cup Masters

First == {e \in Vers : \A f \in Vers : f[1] = e[1] => e[2] <= f[2]}

VARIABLES
  there,       \* the packages and versions that the database has
  on,          \* those whose attribute says yes
  fixed,       \* those whose attribute is manually held
  frozen,      \* the packages whose versions are manually held
  spaces,      \* the versions that have a scratch space
  spaceLocks,  \* those of whose space TCLM has a lock
  adrift,      \* those whose package went without them, as a lock was missing
  lockMade,    \* the packages for which TCLM has locks
  op, pc,      \* each process: what it does, and where it is
  at,          \* what it does it to
  from,        \* the version that it copies
  todo,        \* the packages that it has not come to
  seen,        \* what it has read: versions that are enabled
  held,        \* the locks
  ops, faults

L == INSTANCE ClusterLocks WITH Locks <- Paths

database == <<there, on, fixed, frozen>>
outside == <<spaces, spaceLocks, adrift, lockMade>>
plan == <<from, todo, seen>>
counters == <<ops, faults>>
vars == <<database, outside, op, pc, at, plan, held, counters>>

\* The first version of each package is enabled and has been built.  Perhaps a package has
\* no lock, as TCLM was set up anew: its name is on record, but the lock is not.
Init ==
  /\ there = Pkgs \cup First
  /\ on = First
  /\ fixed \in {{}, on} /\ frozen \in {{}, {Max(Packages)}}
  /\ spaces = on /\ spaceLocks = on /\ adrift = {}
  /\ lockMade \in {Packages, Packages \ {Max(Packages)}}
  /\ pc = [q \in Procs |-> "idle"] /\ op = pc
  /\ at = [q \in Procs |-> List] /\ from = at
  /\ todo = [q \in Procs |-> {}] /\ seen = todo
  /\ held = L!NoLocks /\ ops = 0 /\ faults = 0

Pkg(e) == <<e[1]>>
VersionsIn(p) == {e \in there \cap Vers : Pkg(e) = p}
Enabled(p) == VersionsIn(p) \cap on
Newest(S) == CHOOSE e \in S : \A f \in S : f[2] <= e[2]

Fault == faults < MaxFaults /\ faults' = faults + 1 /\ UNCHANGED ops

Goes(q, there_) == pc' = [pc EXCEPT ![q] = there_]

\* The process, or the command, is over and frees what it had.
Over(q) ==
  /\ Goes(q, "idle") /\ op' = [op EXCEPT ![q] = "idle"]
  /\ at' = [at EXCEPT ![q] = List] /\ from' = [from EXCEPT ![q] = List]
  /\ todo' = [todo EXCEPT ![q] = {}] /\ seen' = [seen EXCEPT ![q] = {}]
  /\ held' = [held EXCEPT ![q] = {}]

-----------------------------------------------------------------------------
(* Locks.                                                                  *)

\* The lock that a process waits for, if it waits for one.
Wants(q) ==
  CASE pc[q] = "names" -> <<List, "S">>
    [] pc[q] = "all" -> <<List, "S+">>
    [] pc[q] = "list" -> <<List, "X">>
    [] pc[q] = "look" -> <<Pkg(at[q]), "S">>
    [] pc[q] = "open" -> <<Pkg(at[q]), "S+">>
    [] pc[q] = "versions" -> <<Pkg(at[q]), "X">>
    [] pc[q] \in {"write", "copy", "off", "on"} -> <<at[q], "X">>
    [] pc[q] = "old" -> <<Newest(seen[q]), "X">>

Waiting(q) ==
  pc[q] \in {"names", "all", "list", "look", "open", "versions", "write", "copy", "off", "on",
             "old"}

\* A lock conflicts with those on what is below it and on what it is part of.
WaitsFor(q) ==
  IF ~Waiting(q) THEN {}
  ELSE LET want == Wants(q)
       IN  {p \in Procs \ {q} : \E h \in held[p] : /\ IsPrefix(h[1], want[1]) \/ IsPrefix(want[1], h[1])
                                                /\ <<want[2], h[2]>> \notin L!Compatible}

\* It gets the lock, and is here.
Gets(q, here) == pc[q] = here /\ WaitsFor(q) = {}

\* A package cannot be locked if it has no lock, nor read if it has no row: SourcePackage raises.
Opens(q) == at[q][1] \in lockMade /\ Pkg(at[q]) \in there

-----------------------------------------------------------------------------
(* Operations.                                                             *)

ShellOps == {"create", "destroy", "add", "delete", "copy", "hold", "unhold",
             "fix", "unfix", "enable", "disable", "edit", "outdate"}

Does(q) ==
  CASE q \in Builders -> {"build"} [] q \in Scripts -> {"update"} [] q \in Masters -> {"graph"}
    [] q \in Shells -> ShellOps

\* What the operation is done to.
Subjects(o) ==
  CASE o \in {"graph", "update", "outdate"} -> {List}
    [] o \in {"create", "destroy", "hold", "unhold"} -> Pkgs
    [] o \in {"add", "delete", "copy", "build"} -> Vers
    [] OTHER -> Entities

FirstStep(o) ==
  CASE o \in {"graph", "update"} -> "names" [] o = "outdate" -> "all" [] o = "create" -> "list"
    [] o = "edit" -> "look" [] OTHER -> "open"

Begin(q) ==
  /\ pc[q] = "idle" /\ ops < MaxOps
  /\ ops' = ops + 1
  /\ \E o \in Does(q) :
       /\ op' = [op EXCEPT ![q] = o]
       /\ Goes(q, FirstStep(o))
       /\ \E e \in Subjects(o) :
            /\ at' = [at EXCEPT ![q] = e]
            /\ from' = [from EXCEPT ![q] =
                 IF o = "copy" THEN CHOOSE f \in First : f[1] = e[1] ELSE List]
  /\ UNCHANGED <<database, outside, todo, seen, held, faults>>

-----------------------------------------------------------------------------
(* Going through the packages: the build master and the script.            *)

\* The packages are taken in the order of their names.
Continue(q, rest) ==
  /\ todo' = [todo EXCEPT ![q] = rest]
  /\ at' = [at EXCEPT ![q] = IF rest = {} THEN List ELSE <<Min(rest)>>]
  /\ Goes(q, IF rest = {} THEN "done" ELSE "look")

\* The build master keeps the lock on the list while it computes the graph.
ListNames(q) ==
  /\ Gets(q, "names")
  /\ Continue(q, {p \in Packages : <<p>> \in there})
  /\ held' = IF op[q] = "graph" THEN L!Trades(q, {}, {<<List, "S">>}) ELSE held
  /\ UNCHANGED <<database, outside, op, from, seen, counters>>

\* get_packages: two enabled versions are an invalid configuration.
LookForGraph(q) ==
  IF Cardinality(Enabled(at[q])) > 1 THEN Over(q)
  ELSE /\ seen' = [seen EXCEPT ![q] = @ \cup Enabled(at[q])]
       /\ Continue(q, todo[q] \ {at[q][1]})
       /\ UNCHANGED <<op, from, held>>

\* The script has two variables, and the old value of one is freed once the new one is
\* assigned: sp is the package at hand, and sp2 the last one that it upgraded.
SpLocks(q) == {h \in held[q] : h[2] = "S"}
Sp2Locks(q) == {h \in held[q] : h[2] = "S+"}

LookForUpdate(q) ==
  /\ seen' = [seen EXCEPT ![q] = Enabled(at[q])]
  /\ held' = L!Trades(q, SpLocks(q), {<<at[q], "S">>})
  /\ IF Enabled(at[q]) = {} THEN Continue(q, todo[q] \ {at[q][1]})
     ELSE Goes(q, "ask") /\ UNCHANGED <<at, todo>>
  /\ UNCHANGED <<op, from>>

\* Mutant: the lock is held until the user has left the editor.
LookForEditHolds(q) ==
  IF at[q] \notin there \/ at[q] \in fixed THEN Over(q)
  ELSE /\ seen' = [seen EXCEPT ![q] = {at[q]} \cap on]
       /\ held' = L!Trades(q, {}, {<<Pkg(at[q]), "S">>})
       /\ Goes(q, "editor")
       /\ UNCHANGED <<op, at, from, todo>>

\* The value is read, and nothing is locked while the user edits it.  A property that is
\* held is only shown.
LookForEdit(q) ==
  IF at[q] \notin there \/ at[q] \in fixed THEN Over(q)
  ELSE /\ seen' = [seen EXCEPT ![q] = {at[q]} \cap on]
       /\ Goes(q, "editor")
       /\ UNCHANGED <<op, at, from, todo, held>>

Look(q) ==
  /\ Gets(q, "look")
  /\ IF ~Opens(q) THEN Over(q)
     ELSE CASE op[q] = "graph" -> LookForGraph(q)
            [] op[q] = "update" -> LookForUpdate(q)
            [] op[q] = "edit" -> LookForEdit(q)
  /\ UNCHANGED <<database, outside, counters>>

\* The user changes the value, or does not.
Edited(q) ==
  /\ pc[q] = "editor"
  /\ \/ Over(q)
     \/ Goes(q, "open") /\ UNCHANGED <<op, at, plan, held>>
  /\ UNCHANGED <<database, outside, counters>>

\* Mutant: the lock is given up before it is upgraded.
KeptForUpgradeNothing(q) == held[q] \ SpLocks(q)

KeptForUpgrade(q) == held[q]

\* There is a newer version upstream, and the user wants to have it, or not, or to stop.  It
\* is copied from the newest version that is enabled or from the newest of all.
Ask(q) ==
  /\ pc[q] = "ask"
  /\ \/ Over(q)
     \/ /\ Continue(q, todo[q] \ {at[q][1]})
        /\ UNCHANGED <<op, from, seen, held>>
     \/ /\ \E v \in Vers : \E s \in {Newest(seen[q]), Newest(VersionsIn(at[q]))} :
             /\ Pkg(v) = at[q] /\ \A e \in VersionsIn(at[q]) : e[2] < v[2]
             /\ at' = [at EXCEPT ![q] = v]
             /\ from' = [from EXCEPT ![q] = s]
        /\ held' = [held EXCEPT ![q] = KeptForUpgrade(q)]
        /\ Goes(q, "open")
        /\ UNCHANGED <<op, todo, seen>>
  /\ UNCHANGED <<database, outside, counters>>

\* The graph is computed, or all packages are dealt with.
Done(q) ==
  /\ pc[q] = "done"
  /\ Over(q)
  /\ UNCHANGED <<database, outside, counters>>

-----------------------------------------------------------------------------
(* Opening a package with write intent.                                    *)

\* What is checked before anything is locked exclusively.  None of it changes before the
\* write, as only the owner of the S+ lock can write.
Refused(q) ==
  \/ op[q] \in {"add", "delete", "copy", "update"} /\ at[q][1] \in frozen
  \/ op[q] = "destroy" /\ at[q][1] \in frozen /\ VersionsIn(Pkg(at[q])) # {}
  \/ op[q] = "copy" /\ (from[q] \notin there \/ at[q] \in there)
  \/ op[q] \in {"build", "enable", "disable", "edit", "fix", "unfix"} /\ at[q] \notin there

AfterOpen(o) ==
  CASE o \in {"add", "delete", "copy", "update", "hold", "unhold"} -> "versions"
    [] o = "build" -> "mount"
    [] OTHER -> "write"

\* destroy_source_package deletes the versions one by one, and then the package.
NextVictim(q, left) ==
  IF left = {} THEN Goes(q, "list") /\ UNCHANGED at
  ELSE \E e \in left : at' = [at EXCEPT ![q] = e] /\ Goes(q, "versions")

\* The script holds sp and its old sp2 meanwhile, and frees both then.
Open(q) ==
  /\ Gets(q, "open")
  /\ IF Opens(q)
     THEN IF Refused(q) THEN Over(q)
          ELSE /\ held' = L!Trades(q, SpLocks(q) \cup Sp2Locks(q), {<<Pkg(at[q]), "S+">>})
               /\ IF op[q] = "destroy" THEN NextVictim(q, VersionsIn(Pkg(at[q])))
                  ELSE Goes(q, AfterOpen(op[q])) /\ UNCHANGED at
               /\ UNCHANGED <<op, plan>>
     ELSE IF op[q] = "destroy" THEN Goes(q, "list") /\ UNCHANGED <<op, at, plan, held>>
          ELSE Over(q)
  /\ UNCHANGED <<database, outside, counters>>

\* A build mounts the scratch space, which is created if need be, and its lock with it.  It
\* fails if a space has no lock; and perhaps if a lock that an earlier space has left is to
\* be created once more, which is up to TCLM.
Mount(q) ==
  /\ pc[q] = "mount"
  /\ \/ /\ at[q] \in spaces => at[q] \in spaceLocks
        /\ spaces' = spaces \cup {at[q]} /\ spaceLocks' = spaceLocks \cup {at[q]}
        /\ Goes(q, "write") /\ UNCHANGED <<op, at, plan, held>>
     \/ /\ at[q] \in spaces <=> at[q] \notin spaceLocks
        /\ Over(q) /\ UNCHANGED <<spaces, spaceLocks>>
  /\ UNCHANGED <<database, adrift, lockMade, counters>>

\* The builder dies when it has created the space and not yet the lock.
MountDies(q) ==
  /\ pc[q] = "mount" /\ at[q] \notin spaces /\ Fault
  /\ spaces' = spaces \cup {at[q]}
  /\ Over(q)
  /\ UNCHANGED <<database, spaceLocks, adrift, lockMade>>

-----------------------------------------------------------------------------
(* Attributes.                                                             *)

\* Mutant: a held attribute can be unset.
MaySetAll(q) == op[q] # "enable" \/ at[q] \notin fixed

\* set_attribute and unset_attribute look whether it is held.
MaySet(q) == op[q] \in {"enable", "disable", "edit"} => at[q] \notin fixed

\* The value that an operation comes to: no value is a value that is not yes.
ValueOf(q) ==
  CASE op[q] = "enable" -> on \cup {at[q]}
    [] op[q] = "disable" -> on \ {at[q]}
    [] op[q] = "edit" -> IF at[q] \in seen[q] THEN on \ {at[q]} ELSE on \cup {at[q]}
    [] OTHER -> on

\* Builds set other attributes, the installed files and the shared libraries, and whatever
\* outdates a version adds a row for it.
Write(q) ==
  /\ Gets(q, "write")
  /\ IF MaySet(q)
     THEN /\ on' = ValueOf(q)
          /\ fixed' = CASE op[q] = "fix" -> fixed \cup {at[q]}
                           [] op[q] = "unfix" -> fixed \ {at[q]}
                        [] OTHER -> fixed
     ELSE UNCHANGED <<on, fixed>>
  /\ IF op[q] = "outdate" /\ seen[q] # {at[q]}
     THEN /\ seen' = [seen EXCEPT ![q] = @ \ {at[q]}]
          /\ at' = [at EXCEPT ![q] = CHOOSE e \in seen'[q] : TRUE]
          /\ UNCHANGED <<op, pc, from, todo, held>>
     ELSE Over(q)
  /\ UNCHANGED <<there, frozen, outside, counters>>

\* outdate_enabled_versions_in_arch keeps out all who mean to write.
OutdateAll(q) ==
  LET enabled == on \cap Vers IN
  /\ Gets(q, "all")
  /\ IF enabled = {} THEN Over(q)
     ELSE /\ held' = L!Trades(q, {}, {<<List, "S+">>})
          /\ seen' = [seen EXCEPT ![q] = enabled]
          /\ at' = [at EXCEPT ![q] = CHOOSE e \in enabled : TRUE]
          /\ Goes(q, "write")
          /\ UNCHANGED <<op, from, todo>>
  /\ UNCHANGED <<database, outside, counters>>

-----------------------------------------------------------------------------
(* Packages and versions.                                                  *)

\* The locks of a package stay when it is destroyed.  Whether they can be created once
\* more is up to TCLM; if they cannot, nothing is created.
CreatePackage(q) ==
  /\ Gets(q, "list") /\ op[q] = "create"
  /\ IF at[q] \in there THEN UNCHANGED <<there, lockMade>>
     ELSE \/ there' = there \cup {at[q]} /\ lockMade' = lockMade \cup {at[q][1]}
          \/ at[q][1] \in lockMade /\ UNCHANGED <<there, lockMade>>
  /\ Over(q)
  /\ UNCHANGED <<on, fixed, frozen, spaces, spaceLocks, adrift, counters>>

AddVersion(q) ==
  /\ Gets(q, "versions") /\ op[q] \in {"add", "copy", "update"}
  /\ there' = there \cup {at[q]}
  /\ IF op[q] = "add" THEN Over(q)
     ELSE Goes(q, "copy") /\ UNCHANGED <<op, at, plan, held>>
  /\ UNCHANGED <<on, fixed, frozen, outside, counters>>

HoldVersions(q) ==
  /\ Gets(q, "versions") /\ op[q] \in {"hold", "unhold"}
  /\ frozen' = IF op[q] = "hold" THEN frozen \cup {at[q][1]} ELSE frozen \ {at[q][1]}
  /\ Over(q)
  /\ UNCHANGED <<there, on, fixed, outside, counters>>

\* The versions whose space cannot be deleted.
Lockless == spaces \ spaceLocks

\* delete_version removes the scratch space ...
DeleteSpace(q) ==
  /\ Gets(q, "versions") /\ op[q] \in {"delete", "destroy"} /\ at[q] \notin Lockless
  /\ spaces' = spaces \ {at[q]}
  /\ held' = L!Trades(q, {}, {<<Pkg(at[q]), "X">>})
  /\ Goes(q, "row")
  /\ UNCHANGED <<database, spaceLocks, adrift, lockMade, op, at, plan, counters>>

\* Mutant: the row is removed even so.
SpaceStaysAlone(q) ==
  /\ Gets(q, "versions") /\ op[q] \in {"delete", "destroy"} /\ Fault
  /\ held' = L!Trades(q, {}, {<<Pkg(at[q]), "X">>})
  /\ Goes(q, "row")
  /\ UNCHANGED <<database, outside, op, at, plan>>

\* ... unless that fails, for instance since it is mounted somewhere ...
SpaceStays(q) ==
  /\ Gets(q, "versions") /\ op[q] \in {"delete", "destroy"} /\ Fault
  /\ Over(q)
  /\ UNCHANGED <<database, outside>>

\* ... or it has no lock: destroy_source_package takes this for the lock of the package that
\* is missing, and goes on with the list, while it still has the package ...
SpaceHasNoLock(q) ==
  /\ Gets(q, "versions") /\ op[q] \in {"delete", "destroy"} /\ at[q] \in Lockless
  /\ IF op[q] = "delete" THEN Over(q)
     ELSE Goes(q, "list") /\ UNCHANGED <<op, at, plan, held>>
  /\ UNCHANGED <<database, outside, counters>>

\* A row takes along what depends on it.
Delete(gone) ==
  there' = there \ gone /\ on' = on \ gone /\ fixed' = fixed \ gone

\* ... and then the row.
DeleteRow(q) ==
  /\ pc[q] = "row"
  /\ Delete({at[q]})
  /\ IF op[q] = "delete" THEN Over(q)
     ELSE /\ NextVictim(q, VersionsIn(Pkg(at[q])) \ {at[q]})
          /\ held' = L!Trades(q, {<<Pkg(at[q]), "X">>}, {})
          /\ UNCHANGED <<op, plan>>
  /\ UNCHANGED <<frozen, outside, counters>>

\* The spaces that are left behind.  Whoever has the package has deleted its versions one
\* by one, unless the space of one of them had no lock; else they are all still there.
LeftBehind(q) ==
  LET left == VersionsIn(Pkg(at[q]))
  IN  IF <<Pkg(at[q]), "S+">> \in held[q] /\ left \cap Lockless = {} THEN {} ELSE spaces \cap left

DeletePackage(q) ==
  LET p == Pkg(at[q]) IN
  /\ Gets(q, "list") /\ op[q] = "destroy"
  /\ Delete({p} \cup VersionsIn(p))
  /\ frozen' = frozen \ {p[1]}
  /\ adrift' = adrift \cup LeftBehind(q)
  /\ Over(q)
  /\ UNCHANGED <<spaces, spaceLocks, lockMade, counters>>

-----------------------------------------------------------------------------
(* Copying a version, and what the script does then.                       *)

\* shallow_version_copy: the attribute is copied, so that both may be enabled.
CopyAttributes(q) ==
  /\ Gets(q, "copy")
  /\ on' = IF from[q] \in on THEN on \cup {at[q]} ELSE on
  /\ IF op[q] = "copy" THEN Over(q)
     ELSE Goes(q, "off") /\ UNCHANGED <<op, at, plan, held>>
  /\ UNCHANGED <<there, fixed, frozen, outside, counters>>

DisableNew(q) ==
  /\ Gets(q, "off")
  /\ on' = on \ {at[q]}
  /\ Goes(q, "answer")
  /\ UNCHANGED <<there, fixed, frozen, outside, op, at, plan, held, counters>>

\* The user wants the new version enabled in place of the old one, or not.
Answer(q) ==
  /\ pc[q] = "answer"
  /\ \/ Goes(q, "old") /\ UNCHANGED <<at, todo>>
     \/ Continue(q, todo[q] \ {at[q][1]})
  /\ UNCHANGED <<database, outside, op, from, seen, held, counters>>

\* The script ends if the attribute is held.
DisableOld(q) ==
  /\ Gets(q, "old")
  /\ IF Newest(seen[q]) \in fixed THEN Over(q) /\ UNCHANGED on
     ELSE /\ on' = on \ {Newest(seen[q])}
          /\ Goes(q, "on")
          /\ UNCHANGED <<op, at, plan, held>>
  /\ UNCHANGED <<there, fixed, frozen, outside, counters>>

EnableNew(q) ==
  /\ Gets(q, "on")
  /\ on' = on \cup {at[q]}
  /\ Continue(q, todo[q] \ {at[q][1]})
  /\ UNCHANGED <<there, fixed, frozen, outside, op, from, seen, held, counters>>

-----------------------------------------------------------------------------

\* A process dies, and its locks and its transaction with it.
Dies(q) ==
  /\ pc[q] # "idle" /\ Fault
  /\ Over(q)
  /\ UNCHANGED <<database, outside>>

Next ==
  \E q \in Procs :
    \/ Begin(q) \/ ListNames(q) \/ Look(q) \/ Edited(q) \/ Ask(q) \/ Done(q)
    \/ Open(q) \/ Mount(q) \/ MountDies(q) \/ Write(q) \/ OutdateAll(q)
    \/ CreatePackage(q) \/ AddVersion(q) \/ HoldVersions(q)
    \/ DeleteSpace(q) \/ SpaceStays(q) \/ SpaceHasNoLock(q) \/ DeleteRow(q) \/ DeletePackage(q)
    \/ CopyAttributes(q) \/ DisableNew(q) \/ Answer(q) \/ DisableOld(q) \/ EnableNew(q)
    \/ Dies(q)

Spec == Init /\ [][Next]_vars

-----------------------------------------------------------------------------
(* Properties.                                                             *)

\* The script, from the moment it looks at a package until it disables the old version.
Updating(q) == pc[q] \in {"ask", "open", "versions", "copy", "off", "answer", "old"}

\* What the build master and the script have read is still so: the dependency graph is
\* that of one state of the database, and the version that the script disables and copies
\* is the newest one that is enabled when it does so.  Both release locks in between: the
\* master those on the packages, the script the one that it upgrades.
ReadStillHolds ==
  \A q \in Procs :
    /\ op[q] = "graph" /\ pc[q] # "names" => seen[q] = {e \in on \cap Vers : e[1] \notin todo[q]}
    /\ op[q] = "update" /\ Updating(q) => seen[q] = Enabled(Pkg(at[q])) \ {at[q]}

\* While versions are manually held none is added or deleted, and while an attribute is
\* held its value does not change, except by the destruction of a package of which TCLM
\* knows no lock.
HeldStays ==
  [][/\ \A p \in frozen \cap frozen' :
          VersionsIn(<<p>>)' = VersionsIn(<<p>>)
     /\ \A e \in fixed \cap fixed' : e \in on <=> e \in on']_vars

\* Every scratch space belongs to a version in the database, which is the only way to find
\* and delete it, whatever fails in between.  There are three exceptions, all by the
\* destruction of a package: TCLM knew no lock of the package; it was not there yet when its
\* destroyer looked for it; or TCLM knew no lock of the scratch space of a version that was
\* left, as a builder died when it created it.  The last two come without TCLM having lost
\* anything, and in the last one the locks of the package and of the other spaces are known.
SpacesHaveVersions == spaces \subseteq there \cup adrift

\* Processes that wait for each other.
Deadlocked(D) == D # {} /\ \A q \in D : WaitsFor(q) \cap D # {}

\* All operations but two take the lock for writing first and others afterwards, "to avoid
\* deadlocks".  The script upgrades a lock for reading, and whoever destroys a package
\* locks the list while it holds the package.  There is no deadlock without one of these.
OnlyTheseDeadlock ==
  \A D \in SUBSET {q \in Procs : WaitsFor(q) # {}} :
    Deadlocked(D) => \E q \in D : \/ op[q] = "update" /\ pc[q] = "open"
                                  \/ op[q] = "destroy" /\ pc[q] = "list"
=============================================================================
