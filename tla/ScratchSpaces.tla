---------------------------- MODULE ScratchSpaces ----------------------------
(***************************************************************************)
(* Scratch spaces: scratch_space.py, and who uses it: builders (package    *)
(* versions with write intent) and the commands of the management shell.   *)
(*                                                                         *)
(* One space, which is an rbd image with snapshots, mounted on hosts, and  *)
(* a lock that is created with it and never removed.  All spaces share the *)
(* lock on the list of spaces: it stands for the users of other spaces.    *)
(*                                                                         *)
(* A builder is a process of its own, and its locks end with it.  A shell  *)
(* lives on after a command, and so do the locks that a command leaves:    *)
(* its next commands are not kept out by them, and do not give them back   *)
(* (a process may take a lock twice, as in CdepGraph.build, and has it     *)
(* until it has released it twice).                                        *)
(***************************************************************************)
EXTENDS Naturals, FiniteSets

CONSTANTS
  Builders, Shells,
  Hosts, HostOf,     \* where each process runs
  Snapshots,         \* the names of snapshots
  MaxOps,            \* a bound: operations that are started
  MaxFaults          \* a bound: commands that fail, processes that die

VARIABLES
  exists, lockMade,  \* the image and the lock
  snaps,             \* the snapshots of the image
  mounted,           \* [Hosts -> BOOLEAN]: the space is at its mountpoint
  looks,             \* [Hosts -> SUBSET Snapshots]: the snapshots that are mounted
  abandoned,         \* hosts where a process ended and left the image mapped
  op, pc, snap,      \* each process: what it does, where it is, with which snapshot (or 0)
  held,              \* the locks
  left,              \* those among them that earlier commands have left
  ops, faults

Procs == Builders \cup Shells

ASSUME ScratchSpacesAssumption == HostOf \in [Procs -> Hosts]

L == INSTANCE ClusterLocks WITH Locks <- {"package", "list", "space"}

image == <<exists, lockMade, snaps>>
mounts == <<mounted, looks, abandoned>>
procs == <<op, pc, snap>>
locks == <<held, left>>
counters == <<ops, faults>>
vars == <<image, mounts, procs, locks, counters>>

Init ==
  /\ exists \in BOOLEAN /\ lockMade = exists /\ snaps = {}
  /\ mounted = [h \in Hosts |-> FALSE] /\ looks = [h \in Hosts |-> {}] /\ abandoned = {}
  /\ pc = [p \in Procs |-> "idle"] /\ op = pc /\ snap = [p \in Procs |-> 0]
  /\ held = L!NoLocks /\ left = held /\ ops = 0 /\ faults = 0

Goes(p, here, there) == pc[p] = here /\ pc' = [pc EXCEPT ![p] = there] /\ UNCHANGED <<op, snap>>

Takes(p, old, new) == held' = L!Trades(p, old, new) /\ UNCHANGED left

\* The operation is over; kept are the locks that the process still has then.
Ends(p, kept) ==
  /\ pc' = [pc EXCEPT ![p] = "idle"] /\ op' = [op EXCEPT ![p] = "idle"] /\ snap' = [snap EXCEPT ![p] = 0]
  /\ held' = [held EXCEPT ![p] = kept] /\ left' = [left EXCEPT ![p] = kept]

Over(p) == Ends(p, left[p])

Fault == faults < MaxFaults /\ faults' = faults + 1 /\ UNCHANGED ops

-----------------------------------------------------------------------------
(* Operations and the locks they take: the package, the list, the space.   *)

\* Users of a SourcePackageVersion with write intent mount its space: builders, and
\* inspect_scratch_space.  delete_version deletes it.
Mounting == {"build", "enter"}
Deleting == {"delete", "delete_version"}
ShellOps == {"enter", "delete", "delete_version", "list", "revert", "prune", "inspect"}

FirstLock(o) ==
  CASE o \in Mounting \cup {"delete_version"} -> "package"
    [] o \in {"delete", "list"} -> "list"
    [] OTHER -> "space"

Begin(p) ==
  /\ pc[p] = "idle" /\ ops < MaxOps
  /\ ops' = ops + 1
  /\ \E o \in IF p \in Builders THEN {"build"} ELSE ShellOps :
       /\ op' = [op EXCEPT ![p] = o]
       /\ pc' = [pc EXCEPT ![p] = FirstLock(o)]
       /\ \E n \in IF o \in {"revert", "inspect"} THEN Snapshots ELSE {0} :
            snap' = [snap EXCEPT ![p] = n]
  /\ UNCHANGED <<image, mounts, locks, faults>>

LockPackage(p) ==
  /\ L!CanTake(p, "package", "S+")
  /\ Goes(p, "package", "list")
  /\ Takes(p, {}, {<<"package", "S+">>})
  /\ UNCHANGED <<image, mounts, counters>>

\* get_scratch_space, delete_scratch_space and list_scratch_spaces look at the list.
LockList(p) ==
  /\ pc[p] = "list" /\ L!CanTake(p, "list", "X")
  /\ IF op[p] = "list" \/ (op[p] \in Deleting /\ ~exists) THEN Over(p)
     ELSE /\ Goes(p, "list", IF exists THEN "space" ELSE "create")
          /\ Takes(p, {}, {<<"list", "X">>})
  /\ UNCHANGED <<image, mounts, counters>>

CreateImage(p) ==
  /\ Goes(p, "create", "format")
  /\ exists' = TRUE /\ snaps' = {}
  /\ UNCHANGED <<lockMade, mounts, locks, counters>>

Format(p) ==
  /\ Goes(p, "format", "new_lock")
  /\ UNCHANGED <<image, mounts, locks, counters>>

\* The image is removed again, unless unmapping it fails as well.
FormatFails(p) ==
  /\ pc[p] = "format" /\ Fault
  /\ \/ exists' = FALSE /\ UNCHANGED abandoned
     \/ abandoned' = abandoned \cup {HostOf[p]} /\ UNCHANGED exists
  /\ Over(p)
  /\ UNCHANGED <<lockMade, snaps, mounted, looks>>

\* There is a lock already if there was a space of the same name: what create does
\* then is up to TCLM.
NewLock(p) ==
  /\ pc[p] = "new_lock"
  /\ \/ /\ ~lockMade \/ L!CanTake(p, "space", "X")
        /\ lockMade' = TRUE
        /\ Goes(p, "new_lock", "mount")
        /\ Takes(p, {<<"list", "X">>}, {<<"space", "X">>})
        /\ UNCHANGED exists
     \/ /\ lockMade /\ exists' = FALSE
        /\ Over(p)
        /\ UNCHANGED lockMade
  /\ UNCHANGED <<snaps, mounts, counters>>

\* Mutant: snapshots are deleted without the intention to write.
ModeOfReaders(o) == IF o \in {"inspect", "prune"} THEN "S" ELSE "X"

\* S for looking at snapshots, X for everything else.
Mode(o) == IF o = "inspect" THEN "S" ELSE "X"

\* Mutant: whoever has locked the space looks it up in the list.
AfterLockLooksUp(o) ==
  CASE o \in Mounting -> "mount" [] o \in Deleting -> "remove" [] OTHER -> "list"

AfterLock(o) ==
  CASE o \in Mounting -> "mount" [] o \in Deleting -> "remove" [] OTHER -> o

\* ScratchSpace.__init__, or the inner lock of delete_scratch_space.  The lock on the
\* list is held meanwhile, and delete_scratch_space keeps it.
LockSpace(p) ==
  /\ pc[p] = "space"
  /\ IF lockMade
     THEN /\ L!CanTake(p, "space", Mode(op[p]))
          /\ Goes(p, "space", AfterLock(op[p]))
          /\ Takes(p, IF op[p] \in Deleting THEN {} ELSE {<<"list", "X">>},
                      {<<"space", Mode(op[p])>>})
     ELSE Over(p)
  /\ UNCHANGED <<image, mounts, counters>>

-----------------------------------------------------------------------------
(* Mounting, snapshots, and the end of a ScratchSpace.                     *)

\* mount does nothing if something is at the mountpoint already.
Mount(p) ==
  /\ Goes(p, "mount", IF op[p] \in Mounting THEN "work" ELSE "release")
  /\ mounted' = [mounted EXCEPT ![HostOf[p]] = TRUE]
  /\ UNCHANGED <<image, looks, abandoned, locks, counters>>

MountFails(p) ==
  /\ Goes(p, "mount", "release") /\ Fault
  /\ UNCHANGED <<image, mounts, locks>>

CreateSnapshot(p) ==
  /\ pc[p] = "work" /\ op[p] = "build"
  /\ \E n \in Snapshots \ snaps : snaps' = snaps \cup {n}
  /\ UNCHANGED <<exists, lockMade, mounts, procs, locks, counters>>

\* The build goes back to a snapshot, once.
Restore(p) ==
  /\ pc[p] = "work" /\ op[p] = "build" /\ snap[p] = 0
  /\ \E n \in snaps : snap' = [snap EXCEPT ![p] = n]
  /\ pc' = [pc EXCEPT ![p] = "revert"]
  /\ UNCHANGED <<image, mounts, op, locks, counters>>

\* revert_snapshot: unmount the space if it is mounted here ...
Revert(p) ==
  /\ Goes(p, "revert",
          IF ~exists \/ snap[p] \notin snaps THEN "release"
          ELSE IF mounted[HostOf[p]] THEN "rollback" ELSE "rollback_only")
  /\ mounted' = IF exists /\ snap[p] \in snaps THEN [mounted EXCEPT ![HostOf[p]] = FALSE] ELSE mounted
  /\ UNCHANGED <<image, looks, abandoned, locks, counters>>

RevertFails(p) ==
  /\ mounted[HostOf[p]] /\ Goes(p, "revert", "release") /\ Fault
  /\ UNCHANGED <<image, mounts, locks>>

\* ... roll it back, and mount it again.
Rollback(p) ==
  /\ Goes(p, "rollback", "mount") \/ Goes(p, "rollback_only", "release")
  /\ UNCHANGED <<image, mounts, locks, counters>>

Done(p) ==
  /\ Goes(p, "work", "release")
  /\ UNCHANGED <<image, mounts, locks, counters>>

\* remove_old_snapshots_from_scratch_space, if the space is not mounted here.
Prune(p) ==
  /\ pc[p] = "prune"
  /\ IF exists /\ ~mounted[HostOf[p]] /\ Cardinality(snaps) > 1
     THEN /\ \E n \in snaps : snaps' = snaps \ {n}
          /\ UNCHANGED procs
     ELSE Goes(p, "prune", "release") /\ UNCHANGED snaps
  /\ UNCHANGED <<exists, lockMade, mounts, locks, counters>>

\* __del__ unmounts the space, whoever mounted it, and then releases the lock.
Release(p) ==
  /\ pc[p] = "release"
  /\ mounted' = [mounted EXCEPT ![HostOf[p]] = FALSE]
  /\ Over(p)
  /\ UNCHANGED <<image, looks, abandoned, counters>>

\* Mutant: the lock is released even so.
UnmountFailsAndReleases(p) ==
  /\ pc[p] = "release" /\ mounted[HostOf[p]] /\ Fault
  /\ \E still \in BOOLEAN : mounted' = [mounted EXCEPT ![HostOf[p]] = still]
  /\ abandoned' = IF p \in Builders THEN abandoned \cup {HostOf[p]} ELSE abandoned
  /\ Over(p)
  /\ UNCHANGED <<image, looks>>

\* Unmounting or unmapping fails: the exception is ignored, and the lock stays until
\* the process ends.
UnmountFails(p) ==
  /\ pc[p] = "release" /\ mounted[HostOf[p]] /\ Fault
  /\ \E still \in BOOLEAN : mounted' = [mounted EXCEPT ![HostOf[p]] = still]
  /\ IF p \in Builders
     THEN abandoned' = abandoned \cup {HostOf[p]} /\ Ends(p, {})
     ELSE Ends(p, left[p] \cup {<<"space", Mode(op[p])>>}) /\ UNCHANGED abandoned
  /\ UNCHANGED <<image, looks>>

-----------------------------------------------------------------------------
(* delete_scratch_space                                                    *)

RemoveSnapshot(p) ==
  /\ pc[p] = "remove"
  /\ \E n \in snaps : snaps' = snaps \ {n}
  /\ UNCHANGED <<exists, lockMade, mounts, procs, locks, counters>>

RemoveImage(p) ==
  /\ pc[p] = "remove" /\ snaps = {} /\ \A h \in Hosts : ~mounted[h]
  /\ exists' = FALSE
  /\ Over(p)
  /\ UNCHANGED <<lockMade, snaps, mounts, counters>>

\* An image that is mapped cannot be removed; its snapshots are gone then.  A shell that
\* could not unmount it may be the one that deletes it.
ImageBusy(p) ==
  /\ pc[p] = "remove" /\ snaps = {}
  /\ left[p] # {} \/ \E h \in Hosts : mounted[h] \/ h \in abandoned
  /\ Over(p)
  /\ UNCHANGED <<image, mounts, counters>>

-----------------------------------------------------------------------------
(* inspect_snapshot                                                        *)

Inspecting(h, n) == {p \in Procs : HostOf[p] = h /\ pc[p] = "inspecting" /\ snap[p] = n}

\* mount_snapshot does nothing if somebody on this host has mounted the snapshot.
MountSnapshot(p) ==
  LET found == exists /\ snap[p] \in snaps
  IN  /\ Goes(p, "inspect", IF found THEN "shell" ELSE "leave")
      /\ looks' = IF found THEN [looks EXCEPT ![HostOf[p]] = @ \cup {snap[p]}] ELSE looks
      /\ UNCHANGED <<image, mounted, abandoned, locks, counters>>

\* There is no directory to start the shell in if the other one has unmounted it.
StartShell(p) ==
  /\ Goes(p, "shell", IF snap[p] \in looks[HostOf[p]] THEN "inspecting" ELSE "leave")
  /\ UNCHANGED <<image, mounts, locks, counters>>

LeaveShell(p) ==
  /\ Goes(p, "inspecting", "leave")
  /\ UNCHANGED <<image, mounts, locks, counters>>

\* The first of two to leave cannot unmount the snapshot.
UnmountSnapshot(p) ==
  /\ Goes(p, "leave", "release")
  /\ looks' = IF Inspecting(HostOf[p], snap[p]) = {}
              THEN [looks EXCEPT ![HostOf[p]] = @ \ {snap[p]}] ELSE looks
  /\ UNCHANGED <<image, mounted, abandoned, locks, counters>>

-----------------------------------------------------------------------------
(* Processes that end, and clean_mnt.py.                                   *)

Dies(p) ==
  /\ pc[p] # "idle" /\ Fault
  /\ abandoned' = IF \/ mounted[HostOf[p]] /\ L!Holds(p, "space", "X")
                     \/ pc[p] = "format" \/ left[p] # {}
                  THEN abandoned \cup {HostOf[p]} ELSE abandoned
  /\ Ends(p, {})
  /\ UNCHANGED <<image, mounted, looks>>

\* The user leaves a shell that has kept a lock.
Quit(p) ==
  /\ pc[p] = "idle" /\ left[p] # {}
  /\ Ends(p, {})
  /\ abandoned' = abandoned \cup {HostOf[p]}
  /\ UNCHANGED <<image, mounted, looks, counters>>

\* An operator runs clean_mnt.py on a host where nothing else runs.
CleanMounts(h) ==
  /\ \A p \in Procs : HostOf[p] = h => pc[p] = "idle" /\ held[p] = {}
  /\ mounted[h] \/ h \in abandoned \/ looks[h] # {}
  /\ mounted' = [mounted EXCEPT ![h] = FALSE]
  /\ looks' = [looks EXCEPT ![h] = {}]
  /\ abandoned' = abandoned \ {h}
  /\ UNCHANGED <<image, procs, locks, counters>>

Step(p) ==
  \/ LockPackage(p) \/ LockList(p) \/ CreateImage(p) \/ Format(p) \/ NewLock(p) \/ LockSpace(p)
  \/ Mount(p) \/ Revert(p) \/ Rollback(p) \/ Prune(p) \/ Release(p) \/ Done(p)
  \/ RemoveSnapshot(p) \/ RemoveImage(p) \/ ImageBusy(p)
  \/ MountSnapshot(p) \/ StartShell(p) \/ LeaveShell(p) \/ UnmountSnapshot(p)

Fails(p) == FormatFails(p) \/ MountFails(p) \/ RevertFails(p) \/ UnmountFails(p) \/ Dies(p)

Next ==
  \/ \E p \in Procs : Begin(p) \/ Step(p) \/ CreateSnapshot(p) \/ Restore(p) \/ Fails(p) \/ Quit(p)
  \/ \E h \in Hosts : CleanMounts(h)

Spec == Init /\ [][Next]_vars

\* Processes run on, and shells in a directory are left some time.
FairSpec == Spec /\ \A p \in Procs : WF_vars(Step(p))

-----------------------------------------------------------------------------
(* Properties.                                                             *)

\* The image is mounted on one host only while it is written, and nowhere while it is
\* rolled back or removed: whoever cannot unmount it keeps the lock.  There are two
\* exceptions.  A shell is not stopped by the lock that it has kept itself, and may take
\* the snapshots from the space that it still has mounted; and a host where a process
\* ended and left the image mounted is something get_scratch_space cannot notice.
WriterIsAlone ==
  \A p \in Procs, h \in Hosts :
    /\ mounted[h] /\ h \notin abandoned
    /\ pc[p] \in {"work", "rollback", "rollback_only", "remove"}
    => /\ h = HostOf[p]
       /\ pc[p] = "work" \/ (pc[p] = "remove" /\ <<"space", "X">> \in left[p])

\* A snapshot that somebody is about to look into, or looks into, is not deleted:
\* neither delete_old_snapshots nor delete nor another space of the same name take it away.
InspectedStays ==
  \A p \in Procs : pc[p] \in {"shell", "inspecting"} => exists /\ snap[p] \in snaps

\* A shell has kept the lock on the space.
Kept == \E p \in Shells : left[p] # {}

\* Whoever waits for the list or the space, which one waits for while one holds the
\* list, does not wait for ever, unless a shell could not unmount the space: that one
\* stops the users of all spaces until it ends.
OperationsEnd == \A p \in Procs : pc[p] # "idle" ~> pc[p] = "idle" \/ Kept
=============================================================================
