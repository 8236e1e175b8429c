--------------------------- MODULE BinaryPackages ---------------------------
(***************************************************************************)
(* The binary packages of one package version: the rows that describe them *)
(* in the database, their files in the scratch space, and their transport  *)
(* forms in the collecting repository.  The last stages of the pipeline    *)
(* make them, operators delete old ones, and meanwhile                     *)
(*   - the builder of another package chooses those that it installs into  *)
(*     its rootfs image, under a lock that keeps out commits only;         *)
(*   - another package's StageAddRdeps looks up, without any lock, which   *)
(*     one contains a shared object.                                       *)
(*                                                                         *)
(* Where a build starts and what the scratch space holds then is what      *)
(* PackageBuild is about; here it starts at the first stage ahead, on what *)
(* the stages before it left.  Three of the stages matter.                 *)
(***************************************************************************)
EXTENDS Naturals, FiniteSets, FiniteSetsExt

CONSTANTS
  All,           \* the empty package that depends on all the others
  Parts,         \* the other names that a split may come to
  Lib,           \* the one with the shared object that is looked up
  MaxOutdates,   \* a bound: how often operators outdate a stage
  MaxTrouble     \* a bound: builds that fail or are killed, packages that cannot be packed

ASSUME BinaryPackagesAssumption ==
  /\ All \notin Parts /\ Lib \in Parts
  /\ MaxOutdates \in Nat /\ MaxTrouble \in Nat

Names == Parts \cup {All}

SplitStage == 1          \* StageSplitIntoBinaryPackages and all before it
RdepsStage == 2          \* StageAddRdeps
PackStage == 3           \* StageCreatePMPackages, the last one
Complete == 4

\* Each run of the split makes a version; it takes an incident or an outdated stage
\* to have one more.
Versions == 1 .. 1 + MaxOutdates + MaxTrouble
Forms == Names \X Versions

Absent == "absent"
Part == "part"           \* its copying was interrupted
Whole == "whole"

VARIABLES
  rows,          \* the binary packages in the database
  current,       \* the current binary packages, by name
  files,         \* the binary packages whose files the database knows
  rdeps,         \* what the All package of each version depends on
  ahead,         \* the first stage ahead
  complete,      \* the newest version when the last stage succeeded last, or 0
  newest,        \* the version that the last run of the split generated, or 0
  space,         \* the binary packages whose files are in the scratch space
  saved,         \* those in the snapshot that the split made
  pc,            \* the builder
  todo,          \* the names that the stage has not come to
  copying,       \* those that its threads are copying
  packed,        \* whether all packages could be packed so far
  fresh,         \* the transport forms with suffix .new in the collecting repository
  repo,          \* those in place
  chosen,        \* the All package that the builder of a dependant chose, or 0
  needed,        \* the Lib that the rdeps of another package ask for, or 0
  outdates, trouble

database == <<rows, current, files, rdeps>>
progress == <<ahead, complete, newest>>
repository == <<fresh, repo>>
readers == <<chosen, needed>>
counters == <<outdates, trouble>>
threads == <<copying, packed>>
vars == <<database, progress, space, saved, pc, todo, threads, repository, readers, counters>>

Init ==
  /\ rows = {} /\ current = {} /\ files = {}
  /\ rdeps = [v \in Versions |-> {}]
  /\ ahead = SplitStage /\ complete = 0 /\ newest = 0
  /\ space = {} /\ saved = {}
  /\ pc = "idle" /\ todo = {} /\ copying = {} /\ packed = TRUE
  /\ fresh = [f \in Forms |-> Absent] /\ repo = [f \in Forms |-> Absent]
  /\ chosen = 0 /\ needed = 0
  /\ outdates = 0 /\ trouble = 0

\* list_binary_package_version_numbers
VersionsOf(n) == {v \in Versions : <<n, v>> \in rows}

\* What the stages after the split take as the result of the split.
Latest(n) == <<n, Max(VersionsOf(n))>>

-----------------------------------------------------------------------------
(* The builder.                                                            *)

\* The split comes to some parts, and the version number is generated.
StartSplit ==
  /\ ahead = SplitStage
  /\ \E S \in SUBSET Parts : todo' = S \cup {All}
  /\ newest' = newest + 1
  /\ space' = {}
  /\ pc' = "split"

StartLater ==
  /\ ahead \in {RdepsStage, PackStage}
  /\ todo' = current
  /\ space' = saved
  /\ pc' = IF ahead = RdepsStage THEN "rdeps" ELSE "pack"
  /\ UNCHANGED newest

Start ==
  /\ pc = "idle"
  /\ StartSplit \/ StartLater
  /\ UNCHANGED <<database, ahead, complete, saved, threads, repository, readers, counters>>

\* add_binary_package, and its files are copied.
AddPackage(n) ==
  /\ pc = "split" /\ n \in todo
  /\ rows' = rows \cup {<<n, newest>>}
  /\ space' = space \cup {<<n, newest>>}
  /\ todo' = todo \ {n}
  /\ UNCHANGED <<current, files, rdeps, progress, saved, pc, threads, repository, readers,
                 counters>>

\* set_current_binary_packages
SetCurrent ==
  /\ pc = "split" /\ todo = {}
  /\ current' = {n \in Names : <<n, newest>> \in rows}
  /\ pc' = "split done"
  /\ UNCHANGED <<rows, files, rdeps, progress, space, saved, todo, threads, repository, readers,
                 counters>>

SplitSucceeds ==
  /\ pc = "split done"
  /\ saved' = space
  /\ ahead' = RdepsStage /\ todo' = current /\ pc' = "rdeps"
  /\ UNCHANGED <<database, complete, newest, space, threads, repository, readers, counters>>

\* set_files, for the packages one after the other.
UpdateFiles(n) ==
  /\ pc = "rdeps" /\ n \in todo
  /\ files' = files \cup {Latest(n)}
  /\ todo' = todo \ {n}
  /\ UNCHANGED <<rows, current, rdeps, progress, space, saved, pc, threads, repository, readers,
                 counters>>

\* The attribute `rdeps' of All.  Those of the parts do not matter here.
AddRdeps ==
  /\ pc = "rdeps" /\ todo = {}
  /\ rdeps' = [rdeps EXCEPT ![Max(VersionsOf(All))] = {Latest(n) : n \in current \ {All}}]
  /\ ahead' = PackStage /\ todo' = current /\ pc' = "pack"
  /\ UNCHANGED <<rows, current, files, complete, newest, space, saved, threads, repository,
                 readers, counters>>

\* A thread packs a package, and begins to copy it into the repository ...
Pack(n) ==
  /\ pc = "pack" /\ n \in todo /\ Latest(n) \in space
  /\ todo' = todo \ {n} /\ copying' = copying \cup {n}
  /\ fresh' = [fresh EXCEPT ![Latest(n)] = Part]
  /\ UNCHANGED <<database, progress, space, saved, pc, packed, repo, readers, counters>>

\* ... or cannot pack it, which does not keep the other threads from going on.
PackFails(n) ==
  /\ pc = "pack" /\ n \in todo
  /\ trouble < MaxTrouble /\ trouble' = trouble + 1
  /\ todo' = todo \ {n} /\ packed' = FALSE
  /\ UNCHANGED <<database, progress, space, saved, pc, copying, repository, readers, outdates>>

Copied(n) ==
  /\ n \in copying
  /\ copying' = copying \ {n}
  /\ fresh' = [fresh EXCEPT ![Latest(n)] = Whole]
  /\ UNCHANGED <<database, progress, space, saved, pc, todo, packed, repo, readers, counters>>

\* All threads have ended.  Whether they succeeded is not looked at here.
AllPacked ==
  /\ pc = "pack" /\ todo = {} /\ copying = {}
  /\ pc' = "move" /\ todo' = current
  /\ UNCHANGED <<database, progress, space, saved, threads, repository, readers, counters>>

Moved(f) ==
  /\ fresh' = [fresh EXCEPT ![f] = Absent]
  /\ repo' = [repo EXCEPT ![f] = fresh[f]]

\* Mutant: in the order of the names.
MoveAnyOrder(n) ==
  /\ pc = "move" /\ n \in todo
  /\ fresh[Latest(n)] # Absent /\ Moved(Latest(n))
  /\ todo' = todo \ {n}
  /\ UNCHANGED <<database, progress, space, saved, pc, threads, readers, counters>>

\* move_into_place: All comes last.
Move(n) ==
  /\ pc = "move" /\ n \in todo /\ (n = All => todo = {All})
  /\ fresh[Latest(n)] # Absent /\ Moved(Latest(n))
  /\ todo' = todo \ {n}
  /\ UNCHANGED <<database, progress, space, saved, pc, threads, readers, counters>>

\* The stage ends, and its success or failure is logged.
PackEnds ==
  /\ pc = "move" /\ todo = {}
  /\ ahead' = IF packed THEN Complete ELSE ahead
  /\ complete' = IF packed THEN newest ELSE complete
  /\ pc' = "idle" /\ packed' = TRUE
  /\ UNCHANGED <<database, newest, space, saved, todo, copying, repository, readers, counters>>

\* The build ends where it is; the database and the repository keep what they have.
Stops ==
  /\ pc' = "idle" /\ todo' = {} /\ copying' = {} /\ packed' = TRUE
  /\ UNCHANGED <<database, progress, space, saved, repository, readers, outdates>>

\* Mutant: a package that is not there is passed over, and the stage succeeds.
MovePassesOver ==
  /\ pc = "move"
  /\ \E n \in todo : (n = All => todo = {All}) /\ fresh[Latest(n)] = Absent
  /\ ahead' = Complete /\ complete' = newest
  /\ pc' = "idle" /\ todo' = {} /\ packed' = TRUE
  /\ UNCHANGED <<database, newest, space, saved, copying, repository, readers, counters>>

\* There is no file to rename: the exception ends the build.
MoveRaises ==
  /\ pc = "move"
  /\ \E n \in todo : (n = All => todo = {All}) /\ fresh[Latest(n)] = Absent
  /\ Stops /\ UNCHANGED trouble

\* A stage fails, or the builder is killed.
BuildFails ==
  /\ pc # "idle"
  /\ trouble < MaxTrouble /\ trouble' = trouble + 1
  /\ Stops

Builder ==
  \/ Start \/ SetCurrent \/ SplitSucceeds \/ AddRdeps
  \/ AllPacked \/ MoveRaises \/ PackEnds
  \/ \E n \in Names : AddPackage(n) \/ UpdateFiles(n) \/ Pack(n) \/ Copied(n) \/ Move(n)

-----------------------------------------------------------------------------
(* Operators, for whom the package is write-locked.                        *)

Outdate(st) ==
  /\ pc = "idle" /\ outdates < MaxOutdates
  /\ st < ahead /\ ahead' = st
  /\ outdates' = outdates + 1
  /\ UNCHANGED <<database, complete, newest, space, saved, pc, todo, threads, repository,
                 readers, trouble>>

Unused(b) == b[1] \notin current

\* A step of remove_old_binary_packages, which first deletes what is not current and
\* then what is not the newest of its name, older versions first.  Files stay in the
\* scratch space: what is removed is a path on the host.
DeleteOld ==
  /\ pc = "idle"
  /\ \E b \in rows :
       /\ \/ Unused(b)
          \/ b # Latest(b[1]) /\ \A o \in rows : ~Unused(o)
       /\ b[2] = Min(VersionsOf(b[1]))
       /\ rows' = rows \ {b} /\ files' = files \ {b}
  /\ UNCHANGED <<current, rdeps, progress, space, saved, pc, todo, threads, repository,
                 readers, counters>>

-----------------------------------------------------------------------------
(* Other packages.                                                         *)

\* Mutant: the time of creation is not compared.
OfferedAll == VersionsOf(All)

\* The versions of All that have been completely built.
Offered == {v \in VersionsOf(All) : v <= complete}

\* The builder of a dependant chooses.  If nothing is offered, max() raises.
Choose ==
  /\ complete # 0 /\ All \in current /\ Offered # {}
  /\ chosen' = Max(Offered)
  /\ UNCHANGED <<database, progress, space, saved, pc, todo, threads, repository, needed, counters>>

Providers == {v \in Versions : <<Lib, v>> \in files}

\* find_binary_packages_with_file, for another package's StageAddRdeps.
LookUp ==
  /\ needed = 0 /\ Providers # {}
  /\ needed' = Max(Providers)
  /\ UNCHANGED <<database, progress, space, saved, pc, todo, threads, repository, chosen, counters>>

Next ==
  \/ Builder \/ BuildFails \/ \E n \in Names : PackFails(n)
  \/ \E st \in SplitStage .. PackStage : Outdate(st)
  \/ DeleteOld \/ Choose \/ LookUp

Spec == Init /\ [][Next]_vars

\* The package is built as long as there is something to do.
FairSpec == Spec /\ WF_vars(Builder)

-----------------------------------------------------------------------------
(* Properties.                                                             *)

InPlace(f) == repo[f] # Absent

\* If the All package of a version is in the repository, everything that it depends on
\* is as well, at any moment and whatever failed: StageCreatePMPackages renames it last.
PublishedWithParts ==
  \A v \in Versions : InPlace(<<All, v>>) => \A f \in rdeps[v] : InPlace(f)

\* What the builder of a dependant has chosen from the database can be installed from
\* the repository by then and later on, although rows of builds under way and of
\* failed ones are there as well and others are deleted.  It is whole, too; but if a
\* copy was interrupted and then the next attempt cannot pack that package, the part
\* of it is moved into place.
ChosenInstallable ==
  chosen # 0 =>
    \A f \in rdeps[chosen] \cup {<<All, chosen>>} :
      InPlace(f) /\ (trouble < 2 => repo[f] = Whole)

\* What StageAddRdeps found without a lock was `the right one': the version, which
\* might have been under way, or a later one gets published in the end, unless the
\* package is not built any more by then.
NeededAppears ==
  \A v \in Versions :
    needed = v ~> (Lib \notin current \/ \E w \in Versions : w >= v /\ InPlace(<<Lib, w>>))
=============================================================================
