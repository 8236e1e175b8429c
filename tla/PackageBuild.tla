---------------------------- MODULE PackageBuild ----------------------------
(***************************************************************************)
(* A package version on its way through the build pipeline: the builder    *)
(* (PackageBuilder.build_package, BuildPipeline), its scratch space with   *)
(* snapshots, the events in the database, and what operators do to them.   *)
(*                                                                         *)
(* The scratch space holds the results of stage runs, one upon the other.  *)
(* A run is named by the position of its begin event.  The space is dirty  *)
(* while it is being changed, and stays so if the builder dies then.       *)
(*                                                                         *)
(* The builder locks the package (S+) and then the scratch space (X).  The *)
(* lock manager is hierarchical: an X lock on a package version has to     *)
(* wait while somebody else has an S+ lock on the package.                 *)
(***************************************************************************)
EXTENDS BuildState

CONSTANTS
  Histories,     \* sequences of events of earlier builds, as successes only
  MaxOutdates,   \* a bound: how often operators outdate a stage
  MaxTrouble     \* a bound: stages that fail, and builders that die

ASSUME HistoriesAssumption ==
  \A h \in Histories :
    /\ h \in Seq([stage : Stages \cup {Gone}, status : {"success"}, snap : Nat])
    /\ \A i \in DOMAIN h : h[i].snap = i

VARIABLES
  events,
  snaps,         \* snapshots of the scratch space: [stage, run, holds]
  holds,         \* what is in the scratch space: a sequence of runs
  dirty,
  pc,            \* the builder
  stage,         \* the first of the stages ahead of it
  outdates, trouble

spaceVars == <<snaps, holds, dirty>>
vars == <<events, spaceVars, pc, stage, outdates, trouble>>

PackageLocked == pc # "idle"
SpaceLocked == pc \notin {"idle", "locked"}

\* The run of the stage that is under way.
ThisRun == Newest(With(events, "begin"))

Init ==
  /\ events \in Histories
  /\ holds = [i \in DOMAIN events |-> i]
  /\ snaps = {[stage |-> events[i].stage, run |-> i, holds |-> [j \in 1 .. i |-> j]] :
                i \in DOMAIN events}
  /\ dirty = FALSE
  /\ pc = "idle" /\ stage = None
  /\ outdates = 0 /\ trouble = 0

-----------------------------------------------------------------------------
(* The builder.                                                            *)

Lock ==
  /\ pc = "idle"
  /\ pc' = "locked"
  /\ UNCHANGED <<events, spaceVars, stage, outdates, trouble>>

\* mount_pseudo_filesystems, which mounts the scratch space.
MountSpace ==
  /\ pc = "locked"
  /\ pc' = "mounted"
  /\ UNCHANGED <<events, spaceVars, stage, outdates, trouble>>

Determine ==
  /\ pc = "mounted"
  /\ stage' = StartsAt(events)
  /\ pc' = IF MustRestore(events) THEN "restore"
           ELSE IF StageBefore(events) # Gone THEN "stages"
           ELSE "clean"
  /\ UNCHANGED <<events, spaceVars, outdates, trouble>>

\* clean_scratch_space
Clean ==
  /\ pc = "clean"
  /\ IF dirty THEN holds' = <<>> /\ dirty' = FALSE /\ pc' = "stages"
     ELSE dirty' = TRUE /\ UNCHANGED <<holds, pc>>
  /\ UNCHANGED <<events, snaps, stage, outdates, trouble>>

\* If the code restores at all, stage_before_first is the one before the first ahead.
SnapshotToRestore ==
  {s \in snaps : /\ EventsOf(events, stage - 1) # {}
                 /\ s.run = RestoreEvent(events, stage - 1).snap}

\* revert_snapshot: the rollback begins ...
Restore ==
  /\ pc = "restore" /\ SnapshotToRestore # {}
  /\ pc' = "rollback" /\ dirty' = TRUE
  /\ UNCHANGED <<events, snaps, holds, stage, outdates, trouble>>

\* ... and ends, and the space is mounted again.
Rollback ==
  /\ pc = "rollback"
  /\ \E s \in SnapshotToRestore : holds' = s.holds
  /\ dirty' = FALSE /\ pc' = "stages"
  /\ UNCHANGED <<events, snaps, stage, outdates, trouble>>

\* There is no event, or none with a snapshot, or the snapshot is gone.
RestoreFails ==
  /\ pc = "restore" /\ SnapshotToRestore = {}
  /\ pc' = "idle" /\ stage' = None
  /\ UNCHANGED <<events, spaceVars, outdates, trouble>>

StageBegins ==
  /\ pc = "stages" /\ stage # None
  /\ events' = Append(events, Event(stage, "begin", NoSnapshot))
  /\ dirty' = TRUE
  /\ pc' = "flow"
  /\ UNCHANGED <<snaps, holds, stage, outdates, trouble>>

\* flow_through returns: the stage has succeeded or failed.
StageSucceeds ==
  /\ pc = "flow"
  /\ holds' = Append(holds, ThisRun) /\ dirty' = FALSE
  /\ pc' = "snapshot"
  /\ UNCHANGED <<events, snaps, stage, outdates, trouble>>

StageFails ==
  /\ pc = "flow" /\ trouble < MaxTrouble
  /\ trouble' = trouble + 1
  /\ pc' = "failed"
  /\ UNCHANGED <<events, spaceVars, stage, outdates>>

CreateSnapshot ==
  /\ pc = "snapshot"
  /\ snaps' = snaps \cup {[stage |-> stage, run |-> ThisRun, holds |-> holds]}
  /\ pc' = "succeeded"
  /\ UNCHANGED <<events, holds, dirty, stage, outdates, trouble>>

LogSuccess ==
  /\ pc = "succeeded"
  /\ events' = Append(events, Event(stage, "success", ThisRun))
  /\ stage' = stage + 1
  /\ pc' = "stages"
  /\ UNCHANGED <<spaceVars, outdates, trouble>>

LogFailure ==
  /\ pc = "failed"
  /\ events' = Append(events, Event(stage, "failed", NoSnapshot))
  /\ stage' = None
  /\ pc' = "idle"
  /\ UNCHANGED <<spaceVars, outdates, trouble>>

\* Nothing to do, or everything done: the objects die and release the locks.
Finish ==
  /\ pc = "stages" /\ stage = None
  /\ pc' = "idle"
  /\ UNCHANGED <<events, spaceVars, stage, outdates, trouble>>

\* The worker is killed, or an exception ends the build.  Whatever raised, the code
\* undoes nothing: when the result cannot be logged, the handler that should delete
\* the snapshot calls a method that SourcePackageVersion does not have.
Dies ==
  /\ pc # "idle" /\ trouble < MaxTrouble
  /\ trouble' = trouble + 1
  /\ pc' = "idle" /\ stage' = None
  /\ UNCHANGED <<events, spaceVars, outdates>>

Builder ==
  \/ Lock \/ MountSpace \/ Determine \/ Clean
  \/ Restore \/ Rollback \/ RestoreFails
  \/ StageBegins \/ StageSucceeds \/ CreateSnapshot \/ LogSuccess \/ LogFailure
  \/ Finish

-----------------------------------------------------------------------------
(* Operators.                                                              *)

\* outdate_package_stage
Outdate(st) ==
  /\ ~PackageLocked /\ outdates < MaxOutdates
  /\ outdates' = outdates + 1
  /\ events' = Append(events, Event(st, "outdated", NoSnapshot))
  /\ UNCHANGED <<spaceVars, pc, stage, trouble>>

\* Mutant: every snapshot but the newest of all is old.
IsNotNewest(s) == \E t \in snaps : t.run > s.run

IsOld(s) ==
  \/ s.stage = Gone
  \/ \E t \in snaps : t.stage = s.stage /\ t.run > s.run

\* One snapshot that remove_old_snapshots_from_scratch_space finds.
DeleteOldSnapshot ==
  /\ ~SpaceLocked
  /\ \E s \in snaps : IsOld(s) /\ snaps' = snaps \ {s}
  /\ UNCHANGED <<events, holds, dirty, pc, stage, outdates, trouble>>

Operators == DeleteOldSnapshot \/ \E st \in Stages : Outdate(st)

Next == Builder \/ StageFails \/ Dies \/ Operators

Spec == Init /\ [][Next]_vars

\* Builds are started again as long as there is something to do.
FairSpec == Spec /\ WF_vars(Builder)

-----------------------------------------------------------------------------
(* Properties.                                                             *)

\* The results that the database says stage st is to build upon.
Predecessors(st) == [s \in 1 .. st - 1 |-> LastSuccessOf(events, s).snap]

\* A stage begins only in a scratch space that holds exactly the results of the last
\* successful runs of all stages before it: nothing left over from a stage that
\* failed or was killed, from a rollback that was interrupted, or from a later stage of
\* an earlier build.  build_source_package_version restores or cleans if need be.
BuildsOnPredecessors ==
  [][StageBegins => ~dirty /\ holds = Predecessors(stage)]_vars

\* Whatever was outdated is built again: no matter which successes of other stages
\* hide the outdated event from get_build_state, the stage lies ahead until it has
\* succeeded anew.
OutdatedIsRebuilt ==
  \A i \in With(events, "outdated") :
    \/ \E j \in Successes(events, events[i].stage) : j > i
    \/ StartsAt(events) <= events[i].stage

\* get_next_stage, which the build master asks, and the builder come to the same
\* result, unless the last successful stage is no longer part of the pipeline.
MasterAgrees ==
  NextStage(events) = IF LastSuccessful(events) = Gone THEN Raises ELSE StartsAt(events)

\* A snapshot that no event speaks of: the builder died between making it and logging.
Unlogged(s) == \A i \in DOMAIN events : events[i].snap # s.run

\* delete_old_snapshots keeps what a build may have to restore, except that a newer
\* snapshot of the same stage which was never logged pushes it out.
RestorePointKept ==
  \A st \in Stages :
    Successes(events, st) # {} =>
      LET run == LastSuccessOf(events, st).snap
      IN  \E s \in snaps : s.stage = st /\ (s.run = run \/ (s.run > run /\ Unlogged(s)))

\* The builder has to restore what is not there, each time it is started.
Stuck ==
  /\ MustRestore(events)
  /\ \/ EventsOf(events, StageBefore(events)) = {}
     \/ \E s \in snaps : s.stage = StageBefore(events) /\ Unlogged(s)

\* In the end the builder finds nothing ahead of the package, whatever failed or died in
\* between, unless its restore point is missing.
BuildEnds == <>[](stage = None \/ Stuck)
=============================================================================
