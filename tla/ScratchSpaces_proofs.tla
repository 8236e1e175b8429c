------------------------ MODULE ScratchSpaces_proofs ------------------------
(***************************************************************************)
(* Theorems about scratch spaces, for any number of builders, shells,      *)
(* hosts and snapshots, and without the bounds on operations and faults.   *)
(***************************************************************************)
EXTENDS ScratchSpaces, TLAPS

-----------------------------------------------------------------------------
(* The inductive invariant.                                                *)

\* Where a process has the lock on the space, and in the mode of its operation.
Owning == {"mount", "work", "revert", "rollback", "rollback_only", "remove", "prune", "release"}
Looking == {"inspect", "shell", "inspecting", "leave"}
Creating == {"create", "format", "new_lock"}

TypeOK ==
  /\ exists \in BOOLEAN /\ lockMade \in BOOLEAN /\ snaps \subseteq Snapshots
  /\ mounted \in [Hosts -> BOOLEAN] /\ looks \in [Hosts -> SUBSET Snapshots]
  /\ abandoned \subseteq Hosts
  /\ pc \in [Procs -> {"idle", "package", "list", "space"} \cup Creating \cup Owning \cup Looking]
  /\ op \in [Procs -> {"idle", "build"} \cup ShellOps]
  /\ snap \in [Procs -> Snapshots \cup {0}]
  /\ held \in [Procs -> SUBSET ({"package", "list", "space"} \X L!Modes)]
  /\ left \in [Procs -> SUBSET ({"space"} \X L!Modes)]
  /\ ops \in Nat /\ faults \in Nat

\* An operation is at a place of its own course.
OnCourse(p) ==
  /\ pc[p] \in {"package", "list"} => op[p] \in Mounting \cup Deleting \cup {"list"}
  /\ pc[p] = "space" => op[p] \notin {"idle", "list"}
  /\ pc[p] \in Creating \cup {"work"} => op[p] \in Mounting
  /\ pc[p] = "remove" => op[p] \in Deleting
  /\ pc[p] \in Looking => op[p] = "inspect"
  /\ pc[p] \in Owning \ {"release"} => op[p] # "inspect"

\* No two processes have the same lock, unless one of them only reads.
Exclusive ==
  \A p, q \in Procs, l \in {"package", "list", "space"}, m, n \in L!Modes :
    p # q /\ L!Holds(p, l, m) /\ L!Holds(q, l, n) => <<m, n>> \in L!Compatible

\* Who has which lock: the list while it is looked at and changed, the space in one mode
\* for the rest of an operation, and beside it what shells that could not unmount have left.
HoldsList(p) ==
  \/ pc[p] \in Creating \cup {"remove"}
  \/ pc[p] = "space" /\ op[p] \in Mounting \cup Deleting
  => L!Holds(p, "list", "X")

HoldsSpace(p) ==
  /\ pc[p] \in Owning \cup Looking => L!Holds(p, "space", Mode(op[p]))
  /\ left[p] \subseteq held[p]
  /\ \A m \in L!Modes :
       L!Holds(p, "space", m) =>
         /\ lockMade
         /\ \/ <<"space", m>> \in left[p]
            \/ pc[p] \in Owning \cup Looking /\ m = Mode(op[p])

Owned == \A p \in Procs : OnCourse(p) /\ HoldsList(p) /\ HoldsSpace(p)

\* A space that is mounted has its user on that host.
MountedIsLocked ==
  \A h \in Hosts : mounted[h] /\ h \notin abandoned =>
    \E p \in Procs : HostOf[p] = h /\ L!Holds(p, "space", "X")

\* Nobody mounts what is rolled back or removed; a shell may have left it mounted that
\* removes it.
UnmountedIsSo ==
  \A p \in Procs, h \in Hosts :
    pc[p] \in {"rollback", "rollback_only", "remove"} /\ mounted[h] /\ h \notin abandoned =>
      pc[p] = "remove" /\ h = HostOf[p] /\ <<"space", "X">> \in left[p]

\* The process has found the image in the list and means to write to it.
Writes(p) ==
  pc[p] \in (Owning \ {"release"}) \cup {"space"} /\ op[p] \in Mounting

\* While the image is made it has no snapshots and nobody writes; who writes has one that
\* is there.
ImageIsThere ==
  /\ \A p \in Procs : pc[p] = "create" => ~exists
  /\ \A p \in Procs : pc[p] \in {"format", "new_lock"} => exists /\ snaps = {}
  /\ \A p, q \in Procs : Writes(p) => exists /\ pc[q] \notin {"format", "new_lock"}

IInv ==
  /\ TypeOK /\ Exclusive /\ Owned
  /\ MountedIsLocked /\ UnmountedIsSo
  /\ ImageIsThere /\ InspectedStays

-----------------------------------------------------------------------------
(* Locks that are taken, traded and released.                              *)

\* Whoever only gives locks back leaves the locks exclusive.
LEMMA Releasing ==
  ASSUME Exclusive, \A p \in Procs : held'[p] \subseteq held[p]
  PROVE  Exclusive'
BY DEF Exclusive, L!Holds

\* Whoever takes a lock when nobody is in the way leaves the locks exclusive.
LEMMA Taking ==
  ASSUME TypeOK, Exclusive, NEW p \in Procs,
         NEW l \in {"package", "list", "space"}, NEW m \in L!Modes,
         \/ L!CanTake(p, l, m)
         \/ \A q \in Procs, n \in L!Modes : ~L!Holds(q, l, n),
         NEW old, held' = L!Trades(p, old, {<<l, m>>})
  PROVE  Exclusive'
<1>1. /\ held'[p] = (held[p] \ old) \cup {<<l, m>>}
      /\ \A q \in Procs \ {p} : held'[q] = held[q]
  BY DEF TypeOK, L!Trades
<1>2. \A q \in Procs \ {p}, n \in L!Modes : L!Holds(q, l, n) => <<m, n>> \in L!Compatible
  BY DEF L!CanTake, L!InTheWay
<1>3. ASSUME NEW q \in Procs \ {p}, NEW k \in {"package", "list", "space"},
             NEW n \in L!Modes, NEW o \in L!Modes,
             L!Holds(p, k, n)', L!Holds(q, k, o)'
      PROVE  <<n, o>> \in L!Compatible
  <2>1. L!Holds(q, k, o) /\ (L!Holds(p, k, n) \/ <<k, n>> = <<l, m>>)
    BY <1>1, <1>3 DEF L!Holds
  <2>2. CASE L!Holds(p, k, n)
    BY <2>1, <2>2 DEF Exclusive
  <2>3. CASE k = l /\ n = m
    BY <2>1, <2>3, <1>2
  <2>. QED BY <2>1, <2>2, <2>3
<1>4. \A n, o \in L!Modes : <<n, o>> \in L!Compatible <=> <<o, n>> \in L!Compatible
  BY DEF L!Compatible
<1>5. ASSUME NEW q \in Procs \ {p}, NEW r \in Procs \ {p}, q # r,
             NEW k \in {"package", "list", "space"}, NEW n \in L!Modes, NEW o \in L!Modes,
             L!Holds(q, k, n)', L!Holds(r, k, o)'
      PROVE  <<n, o>> \in L!Compatible
  BY <1>1, <1>5 DEF Exclusive, L!Holds
<1>. QED
  <2>. SUFFICES ASSUME NEW q \in Procs, NEW r \in Procs, q # r,
                       NEW k \in {"package", "list", "space"}, NEW n \in L!Modes, NEW o \in L!Modes,
                       L!Holds(q, k, n)', L!Holds(r, k, o)'
                PROVE  <<n, o>> \in L!Compatible
    BY DEF Exclusive
  <2>1. CASE q = p
    BY <2>1, <1>3
  <2>2. CASE r = p
    BY <2>2, <1>3, <1>4
  <2>3. CASE q # p /\ r # p
    BY <2>3, <1>5
  <2>. QED BY <2>1, <2>2, <2>3

-----------------------------------------------------------------------------
(* The steps.                                                              *)

\* An operation that takes the lock on the space is one that goes on at the space, or it
\* is not on its course.
LEMMA SpaceGoes ==
  ASSUME TypeOK, NEW p \in Procs, Goes(p, "space", AfterLock(op[p]))
  PROVE  pc' \in [Procs -> {"idle", "package", "list", "space"} \cup Creating \cup Owning \cup Looking]
<1>1. AfterLock(op[p]) \in {"idle", "package", "list", "space"} \cup Creating \cup Owning \cup Looking
  BY DEF TypeOK, AfterLock, Mounting, Deleting, ShellOps, Owning, Looking
<1>. QED BY <1>1 DEF TypeOK, Goes

\* The types.
LEMMA Typed ==
  ASSUME TypeOK, [Next]_vars
  PROVE  TypeOK'
<1> USE ScratchSpacesAssumption DEF TypeOK, Goes, Ends, Over, Fault, Takes, locks, image, mounts, procs,
    counters, Mounting, Deleting, ShellOps, Mode, FirstLock, AfterLock, Creating, Owning,
    Looking, L!Modes
<1>1. ASSUME NEW p \in Procs, Begin(p) PROVE TypeOK'
  BY <1>1 DEF Begin
<1>2. ASSUME NEW p \in Procs, LockPackage(p) PROVE TypeOK'
  BY <1>2 DEF LockPackage, L!Trades
<1>3. ASSUME NEW p \in Procs, LockList(p) PROVE TypeOK'
  BY <1>3 DEF LockList, L!Trades
<1>4. ASSUME NEW p \in Procs, CreateImage(p) PROVE TypeOK'
  BY <1>4 DEF CreateImage
<1>5. ASSUME NEW p \in Procs, Format(p) PROVE TypeOK'
  BY <1>5 DEF Format
<1>6. ASSUME NEW p \in Procs, NewLock(p) PROVE TypeOK'
  <2>1. held' \in [Procs -> SUBSET ({"package", "list", "space"} \X L!Modes)]
    BY <1>6 DEF NewLock, L!Trades
  <2>2. pc' \in [Procs -> {"idle", "package", "list", "space"} \cup Creating \cup Owning \cup Looking]
    BY <1>6 DEF NewLock
  <2>3. op' \in [Procs -> {"idle", "build"} \cup ShellOps] /\ snap' \in [Procs -> Snapshots \cup {0}]
    BY <1>6 DEF NewLock
  <2>4. exists' \in BOOLEAN /\ lockMade' \in BOOLEAN
    BY <1>6 DEF NewLock
  <2>. QED BY <1>6, <2>1, <2>2, <2>3, <2>4 DEF NewLock
<1>7. ASSUME NEW p \in Procs, LockSpace(p) PROVE TypeOK'
  <2>1. CASE lockMade
    <3>1. held' \in [Procs -> SUBSET ({"package", "list", "space"} \X L!Modes)]
      BY <1>7, <2>1 DEF LockSpace, L!Trades
    <3>2. pc' \in [Procs -> {"idle", "package", "list", "space"} \cup Creating \cup Owning \cup Looking]
      <4>1. Goes(p, "space", AfterLock(op[p]))
        BY <1>7, <2>1 DEF LockSpace
      <4>. HIDE DEF Goes, AfterLock, TypeOK, Creating, Owning, Looking
      <4>. QED BY <4>1, SpaceGoes
    <3>3. UNCHANGED <<op, snap, left, image, mounts, counters>>
      BY <1>7, <2>1 DEF LockSpace
    <3>. QED BY <3>1, <3>2, <3>3
  <2>2. CASE ~lockMade
    BY <1>7, <2>2 DEF LockSpace
  <2>. QED BY <2>1, <2>2
<1>8. ASSUME NEW p \in Procs, Mount(p) PROVE TypeOK'
  BY <1>8 DEF Mount
<1>9. ASSUME NEW p \in Procs, Revert(p) PROVE TypeOK'
  BY <1>9 DEF Revert
<1>10. ASSUME NEW p \in Procs, Rollback(p) PROVE TypeOK'
  BY <1>10 DEF Rollback
<1>11. ASSUME NEW p \in Procs, Prune(p) PROVE TypeOK'
  BY <1>11 DEF Prune
<1>12. ASSUME NEW p \in Procs, Release(p) PROVE TypeOK'
  BY <1>12 DEF Release
<1>13. ASSUME NEW p \in Procs, Done(p) PROVE TypeOK'
  BY <1>13 DEF Done
<1>14. ASSUME NEW p \in Procs, RemoveSnapshot(p) PROVE TypeOK'
  BY <1>14 DEF RemoveSnapshot
<1>15. ASSUME NEW p \in Procs, RemoveImage(p) PROVE TypeOK'
  <2>1. exists' = FALSE /\ UNCHANGED <<lockMade, snaps, mounted, looks, abandoned, ops, faults>>
    BY <1>15 DEF RemoveImage
  <2>2. Over(p)
    BY <1>15 DEF RemoveImage
  <2>3. /\ pc' \in [Procs -> {"idle", "package", "list", "space"} \cup Creating \cup Owning \cup Looking]
        /\ op' \in [Procs -> {"idle", "build"} \cup ShellOps]
        /\ snap' \in [Procs -> Snapshots \cup {0}]
    BY <2>2
  <2>4. /\ held' \in [Procs -> SUBSET ({"package", "list", "space"} \X L!Modes)]
        /\ left' \in [Procs -> SUBSET ({"space"} \X L!Modes)]
    BY <2>2
  <2>. QED BY <2>1, <2>3, <2>4
<1>16. ASSUME NEW p \in Procs, ImageBusy(p) PROVE TypeOK'
  BY <1>16 DEF ImageBusy
<1>17. ASSUME NEW p \in Procs, MountSnapshot(p) PROVE TypeOK'
  BY <1>17 DEF MountSnapshot
<1>18. ASSUME NEW p \in Procs, StartShell(p) PROVE TypeOK'
  BY <1>18 DEF StartShell
<1>19. ASSUME NEW p \in Procs, LeaveShell(p) PROVE TypeOK'
  BY <1>19 DEF LeaveShell
<1>20. ASSUME NEW p \in Procs, UnmountSnapshot(p) PROVE TypeOK'
  BY <1>20 DEF UnmountSnapshot
<1>21. ASSUME NEW p \in Procs, CreateSnapshot(p) PROVE TypeOK'
  BY <1>21 DEF CreateSnapshot
<1>22. ASSUME NEW p \in Procs, Restore(p) PROVE TypeOK'
  BY <1>22 DEF Restore
<1>23. ASSUME NEW p \in Procs, FormatFails(p) PROVE TypeOK'
  <2>1. exists' \in BOOLEAN /\ abandoned' \subseteq Hosts
    BY <1>23 DEF FormatFails
  <2>. QED BY <1>23, <2>1 DEF FormatFails
<1>24. ASSUME NEW p \in Procs, MountFails(p) PROVE TypeOK'
  BY <1>24 DEF MountFails
<1>25. ASSUME NEW p \in Procs, RevertFails(p) PROVE TypeOK'
  BY <1>25 DEF RevertFails
<1>26. ASSUME NEW p \in Procs, UnmountFails(p) PROVE TypeOK'
  BY <1>26 DEF UnmountFails
<1>27. ASSUME NEW p \in Procs, Dies(p) PROVE TypeOK'
  <2>1. abandoned' \subseteq Hosts
    BY <1>27 DEF Dies
  <2>. QED BY <1>27, <2>1 DEF Dies
<1>28. ASSUME NEW p \in Procs, Quit(p) PROVE TypeOK'
  BY <1>28 DEF Quit
<1>29. ASSUME NEW h \in Hosts, CleanMounts(h) PROVE TypeOK'
  BY <1>29 DEF CleanMounts
<1>30. CASE UNCHANGED vars
  BY <1>30 DEF vars
<1>. QED
  BY <1>1, <1>2, <1>3, <1>4, <1>5, <1>6, <1>7, <1>8, <1>9, <1>10, <1>11, <1>12, <1>13,
     <1>14, <1>15, <1>16, <1>17, <1>18, <1>19, <1>20, <1>21, <1>22, <1>23, <1>24, <1>25, <1>26,
     <1>27, <1>28, <1>29, <1>30
     DEF Next, Step, Fails

\* The locks stay exclusive: they are taken when nobody is in the way, or kept, or released.
LEMMA Excludes ==
  ASSUME TypeOK, Exclusive, Owned, [Next]_vars
  PROVE  Exclusive'
<1>0. \A p \in Procs : left[p] \subseteq held[p]
  BY DEF Owned, HoldsSpace
<1> USE DEF Goes, Ends, Over, Fault, Takes, locks, image, mounts, procs, counters
<1>1. ASSUME NEW p \in Procs, Begin(p) PROVE Exclusive'
  BY <1>1, Releasing DEF Begin, TypeOK
<1>2. ASSUME NEW p \in Procs, LockPackage(p) PROVE Exclusive'
  BY <1>2, Taking DEF LockPackage, L!Modes
<1>3. ASSUME NEW p \in Procs, LockList(p) PROVE Exclusive'
  <2>1. CASE Over(p)
    BY <1>0, <1>3, <2>1, Releasing DEF TypeOK
  <2>2. CASE held' = L!Trades(p, {}, {<<"list", "X">>})
    BY <1>3, <2>2, Taking DEF LockList, L!Modes
  <2>. QED BY <1>3, <2>1, <2>2 DEF LockList
<1>4. ASSUME NEW p \in Procs, CreateImage(p) PROVE Exclusive'
  BY <1>4, Releasing DEF CreateImage, TypeOK
<1>5. ASSUME NEW p \in Procs, Format(p) PROVE Exclusive'
  BY <1>5, Releasing DEF Format, TypeOK
<1>6. ASSUME NEW p \in Procs, NewLock(p) PROVE Exclusive'
  <2>1. CASE Over(p)
    BY <1>0, <1>6, <2>1, Releasing DEF TypeOK
  <2>2. CASE /\ ~lockMade \/ L!CanTake(p, "space", "X")
             /\ held' = L!Trades(p, {<<"list", "X">>}, {<<"space", "X">>})
    BY <1>6, <2>2, Taking DEF Owned, HoldsSpace, L!Modes
  <2>. QED BY <1>6, <2>1, <2>2 DEF NewLock
<1>7. ASSUME NEW p \in Procs, LockSpace(p) PROVE Exclusive'
  <2>1. CASE ~lockMade
    BY <1>0, <1>7, <2>1, Releasing DEF LockSpace, TypeOK
  <2>2. CASE lockMade
    <3>1. Mode(op[p]) \in L!Modes
      BY DEF Mode, L!Modes
    <3>. QED BY <1>7, <2>2, <3>1, Taking DEF LockSpace
  <2>. QED BY <2>1, <2>2
<1>8. ASSUME NEW p \in Procs, Mount(p) PROVE Exclusive'
  BY <1>8, Releasing DEF Mount, TypeOK
<1>9. ASSUME NEW p \in Procs, Revert(p) PROVE Exclusive'
  BY <1>9, Releasing DEF Revert, TypeOK
<1>10. ASSUME NEW p \in Procs, Rollback(p) PROVE Exclusive'
  BY <1>10, Releasing DEF Rollback, TypeOK
<1>11. ASSUME NEW p \in Procs, Prune(p) PROVE Exclusive'
  BY <1>11, Releasing DEF Prune, TypeOK
<1>12. ASSUME NEW p \in Procs, Release(p) PROVE Exclusive'
  BY <1>0, <1>12, Releasing DEF Release, TypeOK
<1>13. ASSUME NEW p \in Procs, Done(p) PROVE Exclusive'
  BY <1>13, Releasing DEF Done, TypeOK
<1>14. ASSUME NEW p \in Procs, RemoveSnapshot(p) PROVE Exclusive'
  BY <1>14, Releasing DEF RemoveSnapshot, TypeOK
<1>15. ASSUME NEW p \in Procs, RemoveImage(p) PROVE Exclusive'
  BY <1>0, <1>15, Releasing DEF RemoveImage, TypeOK
<1>16. ASSUME NEW p \in Procs, ImageBusy(p) PROVE Exclusive'
  BY <1>0, <1>16, Releasing DEF ImageBusy, TypeOK
<1>17. ASSUME NEW p \in Procs, MountSnapshot(p) PROVE Exclusive'
  BY <1>17, Releasing DEF MountSnapshot, TypeOK
<1>18. ASSUME NEW p \in Procs, StartShell(p) PROVE Exclusive'
  BY <1>18, Releasing DEF StartShell, TypeOK
<1>19. ASSUME NEW p \in Procs, LeaveShell(p) PROVE Exclusive'
  BY <1>19, Releasing DEF LeaveShell, TypeOK
<1>20. ASSUME NEW p \in Procs, UnmountSnapshot(p) PROVE Exclusive'
  BY <1>20, Releasing DEF UnmountSnapshot, TypeOK
<1>21. ASSUME NEW p \in Procs, CreateSnapshot(p) PROVE Exclusive'
  BY <1>21, Releasing DEF CreateSnapshot, TypeOK
<1>22. ASSUME NEW p \in Procs, Restore(p) PROVE Exclusive'
  BY <1>22, Releasing DEF Restore, TypeOK
<1>23. ASSUME NEW p \in Procs, FormatFails(p) PROVE Exclusive'
  BY <1>0, <1>23, Releasing DEF FormatFails, TypeOK
<1>24. ASSUME NEW p \in Procs, MountFails(p) PROVE Exclusive'
  BY <1>24, Releasing DEF MountFails, TypeOK
<1>25. ASSUME NEW p \in Procs, RevertFails(p) PROVE Exclusive'
  BY <1>25, Releasing DEF RevertFails, TypeOK
<1>26. ASSUME NEW p \in Procs, UnmountFails(p) PROVE Exclusive'
  <2>1. L!Holds(p, "space", Mode(op[p]))
    BY <1>26 DEF UnmountFails, Owned, HoldsSpace, Owning
  <2>2. \A q \in Procs : held'[q] \subseteq held[q]
    BY <1>0, <1>26, <2>1 DEF UnmountFails, TypeOK, L!Holds
  <2>. QED BY <2>2, Releasing
<1>27. ASSUME NEW p \in Procs, Dies(p) PROVE Exclusive'
  BY <1>0, <1>27, Releasing DEF Dies, TypeOK
<1>28. ASSUME NEW p \in Procs, Quit(p) PROVE Exclusive'
  BY <1>0, <1>28, Releasing DEF Quit, TypeOK
<1>29. ASSUME NEW h \in Hosts, CleanMounts(h) PROVE Exclusive'
  BY <1>29, Releasing DEF CleanMounts
<1>30. CASE UNCHANGED vars
  BY <1>30, Releasing DEF vars
<1>. QED
  BY <1>1, <1>2, <1>3, <1>4, <1>5, <1>6, <1>7, <1>8, <1>9, <1>10, <1>11, <1>12, <1>13,
     <1>14, <1>15, <1>16, <1>17, <1>18, <1>19, <1>20, <1>21, <1>22, <1>23, <1>24, <1>25, <1>26,
     <1>27, <1>28, <1>29, <1>30
     DEF Next, Step, Fails

\* A step of one process leaves the locks of the others as they are.
LEMMA Others ==
  ASSUME Owned, NEW p \in Procs,
         \A q \in Procs \ {p} :
           held'[q] = held[q] /\ left'[q] = left[q] /\ pc'[q] = pc[q] /\ op'[q] = op[q],
         lockMade => lockMade',
         OnCourse(p)', HoldsList(p)', HoldsSpace(p)'
  PROVE  Owned'
<1>1. ASSUME NEW q \in Procs \ {p} PROVE OnCourse(q)' /\ HoldsList(q)' /\ HoldsSpace(q)'
  BY DEF Owned, OnCourse, HoldsList, HoldsSpace, L!Holds
<1>. QED BY <1>1 DEF Owned

\* The end of an operation, and a step that needs no other locks.
LEMMA Ending ==
  ASSUME TypeOK, Owned, NEW p \in Procs, NEW kept, Ends(p, kept),
         kept \subseteq {"space"} \X L!Modes,
         kept # {} => lockMade, lockMade => lockMade'
  PROVE  Owned'
<1>1. pc'[p] = "idle" /\ held'[p] = kept /\ left'[p] = kept
  BY DEF TypeOK, Ends
<1>2. OnCourse(p)' /\ HoldsList(p)' /\ HoldsSpace(p)'
  BY <1>1 DEF OnCourse, HoldsList, HoldsSpace, L!Holds, Creating, Owning, Looking
<1>. QED BY <1>2, Others DEF Ends, TypeOK

\* What is left is held, and it is not the lock on the list.
LEMMA LeftIsSpace ==
  ASSUME TypeOK, Owned, NEW p \in Procs
  PROVE  left[p] \subseteq held[p] /\ <<"list", "X">> \notin left[p]
<1>1. left[p] \subseteq {"space"} \X L!Modes
  BY DEF TypeOK
<1>2. left[p] \subseteq held[p]
  BY DEF Owned, HoldsSpace
<1>. QED BY <1>1, <1>2

\* The end of an operation that leaves nothing more.
LEMMA EndsWell ==
  ASSUME TypeOK, Owned, NEW p \in Procs, Over(p), lockMade => lockMade'
  PROVE  Owned'
<1>1. left[p] \subseteq {"space"} \X L!Modes /\ left[p] \subseteq held[p]
  BY DEF TypeOK, Owned, HoldsSpace
<1>2. ASSUME NEW m \in L!Modes, <<"space", m>> \in left[p] PROVE lockMade
  BY <1>1, <1>2 DEF Owned, HoldsSpace, L!Holds
<1>3. left[p] # {} => lockMade
  BY <1>1, <1>2
<1>. QED BY <1>1, <1>3, Ending DEF Over

\* Who has the space goes from one place to another and keeps its lock.
LEMMA Going ==
  ASSUME TypeOK, Owned, NEW p \in Procs,
         pc[p] \in Owning \cup Looking,
         NEW there \in (Owning \cup Looking) \ {"remove"}, pc' = [pc EXCEPT ![p] = there],
         UNCHANGED <<op, locks, lockMade>>,
         there \in Looking => op[p] = "inspect",
         there \in Owning \ {"release"} => op[p] # "inspect",
         there = "work" => op[p] \in Mounting
  PROVE  Owned'
<1>1. pc'[p] = there
  BY DEF TypeOK
<1>2. OnCourse(p)'
  BY <1>1 DEF OnCourse, Creating, Owning, Looking
<1>3. UNCHANGED <<op, held, left, lockMade>>
  BY DEF locks
<1>4. HoldsList(p)'
  BY <1>1, <1>3 DEF Owned, HoldsList, L!Holds, Creating, Owning, Looking
<1>5. HoldsSpace(p)'
  BY <1>1, <1>3 DEF Owned, HoldsSpace, L!Holds
<1>. QED BY <1>2, <1>3, <1>4, <1>5, Others DEF TypeOK

\* A step that leaves the places and the locks alone.
LEMMA Same ==
  ASSUME Owned, UNCHANGED <<pc, op, held, left, lockMade>>
  PROVE  Owned'
BY DEF Owned, OnCourse, HoldsList, HoldsSpace, L!Holds

\* A process has the locks that its place asks for.
LEMMA Owns ==
  ASSUME TypeOK, Owned, [Next]_vars
  PROVE  Owned'
<1> USE ScratchSpacesAssumption DEF TypeOK, Owned, OnCourse, HoldsList, HoldsSpace, Goes, Ends,
    Over, Fault, Takes, locks, image, mounts, procs, counters, Mounting, Deleting, ShellOps,
    Mode, FirstLock, AfterLock, Creating, Owning, Looking, L!Modes, L!Holds
<1>1. ASSUME NEW p \in Procs, Begin(p) PROVE Owned'
  <2>1. PICK o \in {"build"} \cup ShellOps :
          op' = [op EXCEPT ![p] = o] /\ pc' = [pc EXCEPT ![p] = FirstLock(o)]
    BY <1>1 DEF Begin
  <2>2. UNCHANGED <<held, left, lockMade>> /\ pc[p] = "idle"
    BY <1>1 DEF Begin
  <2>3. OnCourse(p)'
    BY <2>1, <2>2
  <2>4. \A q \in Procs \ {p} :
          held'[q] = held[q] /\ left'[q] = left[q] /\ pc'[q] = pc[q] /\ op'[q] = op[q]
    BY <2>1, <2>2
  <2>5. HoldsList(p)' /\ HoldsSpace(p)'
    BY <2>1, <2>2
  <2>. QED BY <2>2, <2>3, <2>4, <2>5, Others
<1>2. ASSUME NEW p \in Procs, LockPackage(p) PROVE Owned'
  <2>1. /\ held' = [held EXCEPT ![p] = held[p] \cup {<<"package", "S+">>}]
        /\ pc' = [pc EXCEPT ![p] = "list"] /\ UNCHANGED <<op, left, lockMade>>
    BY <1>2 DEF LockPackage, L!Trades
  <2>2. /\ pc'[p] = "list" /\ left[p] \subseteq held'[p]
        /\ \A m \in L!Modes : L!Holds(p, "space", m)' => <<"space", m>> \in left[p] /\ lockMade
    BY <1>2, <2>1 DEF LockPackage
  <2>3. OnCourse(p)' /\ HoldsList(p)' /\ HoldsSpace(p)'
    BY <1>2, <2>1, <2>2 DEF LockPackage
  <2>. QED BY <2>1, <2>3, Others
<1>3. ASSUME NEW p \in Procs, LockList(p) PROVE Owned'
  <2>1. CASE Over(p) /\ UNCHANGED <<image, mounts, counters>>
    BY <2>1, EndsWell
  <2>2. CASE /\ held' = L!Trades(p, {}, {<<"list", "X">>})
             /\ ~(op[p] = "list" \/ (op[p] \in Deleting /\ ~exists))
    <3>1. /\ held' = [held EXCEPT ![p] = held[p] \cup {<<"list", "X">>}]
          /\ pc' = [pc EXCEPT ![p] = IF exists THEN "space" ELSE "create"]
          /\ UNCHANGED <<op, left, lockMade>>
      BY <1>3, <2>2 DEF LockList, L!Trades
    <3>2. /\ pc'[p] = (IF exists THEN "space" ELSE "create") /\ L!Holds(p, "list", "X")'
          /\ left[p] \subseteq held'[p]
          /\ \A m \in L!Modes :
               L!Holds(p, "space", m)' => <<"space", m>> \in left[p] /\ lockMade
      BY <1>3, <3>1 DEF LockList
    <3>3. /\ op'[p] = op[p] /\ op[p] \notin {"idle", "list"}
          /\ ~exists => op[p] \in Mounting
      BY <1>3, <2>2, <3>1 DEF LockList
    <3>4. HoldsList(p)' /\ HoldsSpace(p)'
      BY <3>1, <3>2
    <3>5. OnCourse(p)'
      BY <3>2, <3>3
    <3>. QED BY <3>1, <3>4, <3>5, Others
  <2>. QED BY <1>3, <2>1, <2>2 DEF LockList
<1>4. ASSUME NEW p \in Procs, CreateImage(p) PROVE Owned'
  <2>1. OnCourse(p)' /\ HoldsList(p)' /\ HoldsSpace(p)'
    BY <1>4 DEF CreateImage
  <2>. QED BY <1>4, <2>1, Others DEF CreateImage
<1>5. ASSUME NEW p \in Procs, Format(p) PROVE Owned'
  <2>1. OnCourse(p)' /\ HoldsList(p)' /\ HoldsSpace(p)'
    BY <1>5 DEF Format
  <2>. QED BY <1>5, <2>1, Others DEF Format
<1>6. ASSUME NEW p \in Procs, NewLock(p) PROVE Owned'
  <2>1. CASE Over(p) /\ UNCHANGED lockMade
    BY <2>1, EndsWell
  <2>2. CASE /\ Goes(p, "new_lock", "mount") /\ lockMade' = TRUE
             /\ held' = L!Trades(p, {<<"list", "X">>}, {<<"space", "X">>}) /\ UNCHANGED left
    <3>1. held' = [held EXCEPT ![p] = (held[p] \ {<<"list", "X">>}) \cup {<<"space", "X">>}]
      BY <2>2 DEF L!Trades
    <3>2. pc'[p] = "mount" /\ op'[p] \in Mounting
      BY <2>2
    <3>3. \A m \in L!Modes : L!Holds(p, "space", m) => <<"space", m>> \in left[p]
      BY <2>2
    <3>4. /\ left[p] \subseteq held'[p]
          /\ \A m \in L!Modes : L!Holds(p, "space", m)' => m = "X" \/ <<"space", m>> \in left[p]
      BY <3>1, <3>3
    <3>5. OnCourse(p)' /\ HoldsList(p)' /\ HoldsSpace(p)'
      BY <2>2, <3>1, <3>2, <3>4
    <3>. QED BY <2>2, <3>1, <3>5, Others
  <2>. QED BY <1>6, <2>1, <2>2 DEF NewLock
<1>7. ASSUME NEW p \in Procs, LockSpace(p) PROVE Owned'
  <2>1. CASE ~lockMade
    <3>1. Over(p) /\ UNCHANGED lockMade
      BY <1>7, <2>1 DEF LockSpace
    <3>. QED BY <3>1, EndsWell
  <2>2. CASE lockMade
    <3>. DEFINE old == IF op[p] \in Deleting THEN {} ELSE {<<"list", "X">>}
    <3>1. /\ held' = [held EXCEPT ![p] = (held[p] \ old) \cup {<<"space", Mode(op[p])>>}]
          /\ pc[p] = "space" /\ pc' = [pc EXCEPT ![p] = AfterLock(op[p])]
          /\ UNCHANGED <<op, left, lockMade>>
      BY <1>7, <2>2 DEF LockSpace, L!Trades
    <3>2. /\ op[p] \in {"build"} \cup (ShellOps \ {"list"})
          /\ \A m \in L!Modes : L!Holds(p, "space", m) => <<"space", m>> \in left[p]
      BY <3>1
    <3>3. OnCourse(p)'
      BY <3>1, <3>2
    <3>4. HoldsList(p)'
      BY <3>1, <3>2
    <3>5. /\ L!Holds(p, "space", Mode(op[p]))' /\ left'[p] \subseteq held'[p]
          /\ \A m \in L!Modes :
               L!Holds(p, "space", m)' => m = Mode(op[p]) \/ <<"space", m>> \in left'[p]
      BY <3>1, <3>2
    <3>6. pc'[p] = AfterLock(op[p]) /\ op'[p] = op[p] /\ lockMade'
      BY <2>2, <3>1
    <3>7. pc'[p] \in Owning \cup Looking
      BY <3>2, <3>6
    <3>8. HoldsSpace(p)'
      BY <3>2, <3>5, <3>6, <3>7
    <3>9. \A q \in Procs \ {p} :
            held'[q] = held[q] /\ left'[q] = left[q] /\ pc'[q] = pc[q] /\ op'[q] = op[q]
      BY <3>1
    <3>. QED BY <3>3, <3>4, <3>6, <3>8, <3>9, Others
  <2>. QED BY <2>1, <2>2
<1>8. ASSUME NEW p \in Procs, Mount(p) PROVE Owned'
  <2>1. pc[p] = "mount" /\ op[p] # "inspect" /\ UNCHANGED <<op, held, left, lockMade>>
    BY <1>8 DEF Mount
  <2>2. CASE op[p] \in Mounting
    <3>1. pc' = [pc EXCEPT ![p] = "work"]
      BY <1>8, <2>2 DEF Mount
    <3>. QED BY <2>1, <2>2, <3>1, Going
  <2>3. CASE op[p] \notin Mounting
    <3>1. pc' = [pc EXCEPT ![p] = "release"]
      BY <1>8, <2>3 DEF Mount
    <3>. QED BY <2>1, <3>1, Going
  <2>. QED BY <2>2, <2>3
<1>9. ASSUME NEW p \in Procs, Revert(p) PROVE Owned'
  BY <1>9, Going DEF Revert
<1>10. ASSUME NEW p \in Procs, Rollback(p) PROVE Owned'
  <2>1. CASE Goes(p, "rollback", "mount")
    BY <1>10, <2>1, Going DEF Rollback
  <2>2. CASE Goes(p, "rollback_only", "release")
    BY <1>10, <2>2, Going DEF Rollback
  <2>. QED BY <1>10, <2>1, <2>2 DEF Rollback
<1>11. ASSUME NEW p \in Procs, Prune(p) PROVE Owned'
  <2>1. CASE UNCHANGED procs
    BY <1>11, <2>1, Same DEF Prune
  <2>2. CASE Goes(p, "prune", "release")
    BY <1>11, <2>2, Going DEF Prune
  <2>. QED BY <1>11, <2>1, <2>2 DEF Prune
<1>12. ASSUME NEW p \in Procs, Release(p) PROVE Owned'
  BY <1>12, EndsWell DEF Release
<1>13. ASSUME NEW p \in Procs, Done(p) PROVE Owned'
  BY <1>13, Going DEF Done
<1>14. ASSUME NEW p \in Procs, RemoveSnapshot(p) PROVE Owned'
  BY <1>14, Same DEF RemoveSnapshot
<1>15. ASSUME NEW p \in Procs, RemoveImage(p) PROVE Owned'
  BY <1>15, EndsWell DEF RemoveImage
<1>16. ASSUME NEW p \in Procs, ImageBusy(p) PROVE Owned'
  BY <1>16, EndsWell DEF ImageBusy
<1>17. ASSUME NEW p \in Procs, MountSnapshot(p) PROVE Owned'
  <2>1. pc[p] = "inspect" /\ op[p] = "inspect" /\ UNCHANGED <<op, held, left, lockMade>>
    BY <1>17 DEF MountSnapshot
  <2>2. PICK there \in {"shell", "leave"} : pc' = [pc EXCEPT ![p] = there]
    BY <1>17 DEF MountSnapshot
  <2>. QED BY <2>1, <2>2, Going
<1>18. ASSUME NEW p \in Procs, StartShell(p) PROVE Owned'
  <2>1. pc[p] = "shell" /\ op[p] = "inspect" /\ UNCHANGED <<op, held, left, lockMade>>
    BY <1>18 DEF StartShell
  <2>2. PICK there \in {"inspecting", "leave"} : pc' = [pc EXCEPT ![p] = there]
    BY <1>18 DEF StartShell
  <2>. QED BY <2>1, <2>2, Going
<1>19. ASSUME NEW p \in Procs, LeaveShell(p) PROVE Owned'
  BY <1>19, Going DEF LeaveShell
<1>20. ASSUME NEW p \in Procs, UnmountSnapshot(p) PROVE Owned'
  BY <1>20, Going DEF UnmountSnapshot
<1>21. ASSUME NEW p \in Procs, CreateSnapshot(p) PROVE Owned'
  BY <1>21, Same DEF CreateSnapshot
<1>22. ASSUME NEW p \in Procs, Restore(p) PROVE Owned'
  BY <1>22, Going DEF Restore
<1>23. ASSUME NEW p \in Procs, FormatFails(p) PROVE Owned'
  BY <1>23, EndsWell DEF FormatFails
<1>24. ASSUME NEW p \in Procs, MountFails(p) PROVE Owned'
  BY <1>24, Going DEF MountFails
<1>25. ASSUME NEW p \in Procs, RevertFails(p) PROVE Owned'
  BY <1>25, Going DEF RevertFails
<1>26. ASSUME NEW p \in Procs, UnmountFails(p) PROVE Owned'
  <2>1. lockMade /\ UNCHANGED lockMade
    BY <1>26 DEF UnmountFails
  <2>2. CASE Ends(p, {})
    BY <2>1, <2>2, Ending
  <2>3. CASE Ends(p, left[p] \cup {<<"space", Mode(op[p])>>})
    <3>1. left[p] \cup {<<"space", Mode(op[p])>>} \subseteq {"space"} \X L!Modes
      OBVIOUS
    <3>. QED BY <2>1, <2>3, <3>1, Ending
  <2>. QED BY <1>26, <2>2, <2>3 DEF UnmountFails
<1>27. ASSUME NEW p \in Procs, Dies(p) PROVE Owned'
  BY <1>27, Ending DEF Dies
<1>28. ASSUME NEW p \in Procs, Quit(p) PROVE Owned'
  BY <1>28, Ending DEF Quit
<1>29. ASSUME NEW h \in Hosts, CleanMounts(h) PROVE Owned'
  BY <1>29, Same DEF CleanMounts
<1>30. CASE UNCHANGED vars
  BY <1>30, Same DEF vars
<1>. QED
  BY <1>1, <1>2, <1>3, <1>4, <1>5, <1>6, <1>7, <1>8, <1>9, <1>10, <1>11, <1>12, <1>13,
     <1>14, <1>15, <1>16, <1>17, <1>18, <1>19, <1>20, <1>21, <1>22, <1>23, <1>24, <1>25, <1>26,
     <1>27, <1>28, <1>29, <1>30
     DEF Next, Step, Fails

\* Nothing is mounted, and the locks of writers are kept.
LEMMA Keeping ==
  ASSUME MountedIsLocked, mounted' = mounted, abandoned \subseteq abandoned',
         \A q \in Procs : L!Holds(q, "space", "X") => L!Holds(q, "space", "X")'
  PROVE  MountedIsLocked'
BY DEF MountedIsLocked

\* Who is not at the space has of it only what it has left, and keeps that.
LEMMA Staying ==
  ASSUME TypeOK, Owned, NEW p \in Procs, pc[p] \notin Owning \cup Looking,
         left[p] \subseteq held'[p], \A q \in Procs \ {p} : held'[q] = held[q]
  PROVE  \A q \in Procs : L!Holds(q, "space", "X") => L!Holds(q, "space", "X")'
<1>1. L!Holds(p, "space", "X") => <<"space", "X">> \in left[p]
  BY DEF Owned, HoldsSpace, L!Modes
<1>. QED BY <1>1 DEF L!Holds

\* LockSpace begins the operation itself, or ends it where there is no lock yet.
LEMMA SpaceLocked ==
  ASSUME TypeOK, NEW p \in Procs, OnCourse(p), LockSpace(p)
  PROVE  /\ pc[p] = "space" /\ UNCHANGED <<image, mounts>>
         /\ \A q \in Procs \ {p} : pc'[q] = pc[q] /\ op'[q] = op[q] /\ snap'[q] = snap[q]
         /\ left' = left
         /\ \/ pc'[p] = "idle"
            \/ /\ pc'[p] \in {"mount", "remove", "revert", "prune", "inspect"}
               /\ op'[p] = op[p] /\ L!CanTake(p, "space", Mode(op[p]))
               /\ pc'[p] = "remove" => Mode(op[p]) = "X"
<1>1. pc[p] = "space" /\ op[p] \in {"build"} \cup (ShellOps \ {"list"})
  BY DEF TypeOK, OnCourse, LockSpace, Goes, Over, Ends
<1>2. AfterLock(op[p]) \in {"mount", "remove", "revert", "prune", "inspect"}
  BY <1>1 DEF AfterLock, ShellOps, Mounting, Deleting
<1>3. AfterLock(op[p]) = "remove" => Mode(op[p]) = "X"
  BY <1>1 DEF AfterLock, ShellOps, Mounting, Deleting, Mode
<1>4. left' = left
  BY DEF LockSpace, Goes, Takes, Over, Ends, TypeOK
<1>. QED BY <1>1, <1>2, <1>3, <1>4 DEF LockSpace, Goes, Over, Ends, TypeOK

\* Who mounts the space has locked it, and who gives the lock back has unmounted it.
LEMMA Mounts ==
  ASSUME TypeOK, Exclusive, Owned, MountedIsLocked, UnmountedIsSo, [Next]_vars
  PROVE  MountedIsLocked'
<1> USE ScratchSpacesAssumption DEF MountedIsLocked, UnmountedIsSo, TypeOK, Exclusive, Owned,
    OnCourse, HoldsList, HoldsSpace, Creating, Owning, Looking, L!Modes, L!Holds, L!Compatible,
    Goes, Ends, Over, Fault, Takes, locks, image, mounts, procs, counters, Mode, Mounting, Deleting
<1>1. ASSUME NEW p \in Procs, Begin(p) PROVE MountedIsLocked'
  BY <1>1 DEF Begin
<1>2. ASSUME NEW p \in Procs, LockPackage(p) PROVE MountedIsLocked'
  <2>1. \A q \in Procs : L!Holds(q, "space", "X") => L!Holds(q, "space", "X")'
    BY <1>2 DEF LockPackage, L!Trades
  <2>. QED BY <1>2, <2>1, Keeping DEF LockPackage
<1>3. ASSUME NEW p \in Procs, LockList(p) PROVE MountedIsLocked'
  <2>1. pc[p] \notin Owning \cup Looking /\ abandoned \subseteq abandoned'
    BY <1>3 DEF LockList
  <2>2. left[p] \subseteq held'[p] /\ \A q \in Procs \ {p} : held'[q] = held[q]
    <3>1. left[p] \subseteq held[p] /\ <<"list", "X">> \notin left[p]
      BY LeftIsSpace
    <3>2. CASE Over(p)
      BY <3>2
    <3>3. CASE ~Over(p)
      BY <1>3, <3>1, <3>3 DEF LockList, L!Trades
    <3>. QED BY <3>2, <3>3
  <2>3. \A q \in Procs : L!Holds(q, "space", "X") => L!Holds(q, "space", "X")'
    BY <2>1, <2>2, Staying
  <2>. QED BY <1>3, <2>1, <2>3, Keeping DEF LockList
<1>4. ASSUME NEW p \in Procs, CreateImage(p) PROVE MountedIsLocked'
  BY <1>4 DEF CreateImage
<1>5. ASSUME NEW p \in Procs, Format(p) PROVE MountedIsLocked'
  BY <1>5 DEF Format
<1>6. ASSUME NEW p \in Procs, NewLock(p) PROVE MountedIsLocked'
  <2>1. pc[p] \notin Owning \cup Looking /\ abandoned \subseteq abandoned'
    BY <1>6 DEF NewLock
  <2>2. left[p] \subseteq held'[p] /\ \A q \in Procs \ {p} : held'[q] = held[q]
    <3>1. left[p] \subseteq held[p] /\ <<"list", "X">> \notin left[p]
      BY LeftIsSpace
    <3>2. CASE Over(p)
      BY <3>2
    <3>3. CASE ~Over(p)
      BY <1>6, <3>1, <3>3 DEF NewLock, L!Trades
    <3>. QED BY <3>2, <3>3
  <2>3. \A q \in Procs : L!Holds(q, "space", "X") => L!Holds(q, "space", "X")'
    BY <2>1, <2>2, Staying
  <2>. QED BY <1>6, <2>1, <2>3, Keeping DEF NewLock
<1>7. ASSUME NEW p \in Procs, LockSpace(p) PROVE MountedIsLocked'
  <2>1. pc[p] \notin Owning \cup Looking /\ abandoned \subseteq abandoned'
    BY <1>7 DEF LockSpace
  <2>2. left[p] \subseteq held'[p] /\ \A q \in Procs \ {p} : held'[q] = held[q]
    <3>1. left[p] \subseteq held[p] /\ <<"list", "X">> \notin left[p]
      BY LeftIsSpace
    <3>2. CASE Over(p)
      BY <3>2
    <3>3. CASE ~Over(p)
      BY <1>7, <3>1, <3>3 DEF LockSpace, L!Trades
    <3>. QED BY <3>2, <3>3
  <2>3. \A q \in Procs : L!Holds(q, "space", "X") => L!Holds(q, "space", "X")'
    BY <2>1, <2>2, Staying
  <2>. QED BY <1>7, <2>1, <2>3, Keeping DEF LockSpace
<1>8. ASSUME NEW p \in Procs, Mount(p) PROVE MountedIsLocked'
  <2>1. L!Holds(p, "space", "X")' /\ held' = held
    BY <1>8 DEF Mount
  <2>. QED BY <1>8, <2>1 DEF Mount
<1>9. ASSUME NEW p \in Procs, Revert(p) PROVE MountedIsLocked'
  BY <1>9 DEF Revert
<1>10. ASSUME NEW p \in Procs, Rollback(p) PROVE MountedIsLocked'
  BY <1>10 DEF Rollback
<1>11. ASSUME NEW p \in Procs, Prune(p) PROVE MountedIsLocked'
  BY <1>11 DEF Prune
<1>12. ASSUME NEW p \in Procs, Release(p) PROVE MountedIsLocked'
  BY <1>12 DEF Release
<1>13. ASSUME NEW p \in Procs, Done(p) PROVE MountedIsLocked'
  BY <1>13 DEF Done
<1>14. ASSUME NEW p \in Procs, RemoveSnapshot(p) PROVE MountedIsLocked'
  BY <1>14 DEF RemoveSnapshot
<1>15. ASSUME NEW p \in Procs, RemoveImage(p) PROVE MountedIsLocked'
  BY <1>15 DEF RemoveImage
<1>16. ASSUME NEW p \in Procs, ImageBusy(p) PROVE MountedIsLocked'
  BY <1>16 DEF ImageBusy
<1>17. ASSUME NEW p \in Procs, MountSnapshot(p) PROVE MountedIsLocked'
  BY <1>17 DEF MountSnapshot
<1>18. ASSUME NEW p \in Procs, StartShell(p) PROVE MountedIsLocked'
  BY <1>18 DEF StartShell
<1>19. ASSUME NEW p \in Procs, LeaveShell(p) PROVE MountedIsLocked'
  BY <1>19 DEF LeaveShell
<1>20. ASSUME NEW p \in Procs, UnmountSnapshot(p) PROVE MountedIsLocked'
  BY <1>20 DEF UnmountSnapshot
<1>21. ASSUME NEW p \in Procs, CreateSnapshot(p) PROVE MountedIsLocked'
  BY <1>21 DEF CreateSnapshot
<1>22. ASSUME NEW p \in Procs, Restore(p) PROVE MountedIsLocked'
  BY <1>22 DEF Restore
<1>23. ASSUME NEW p \in Procs, FormatFails(p) PROVE MountedIsLocked'
  <2>1. pc[p] \notin Owning \cup Looking /\ abandoned \subseteq abandoned'
    BY <1>23 DEF FormatFails
  <2>2. left[p] \subseteq held'[p] /\ \A q \in Procs \ {p} : held'[q] = held[q]
    BY <1>23 DEF FormatFails
  <2>3. \A q \in Procs : L!Holds(q, "space", "X") => L!Holds(q, "space", "X")'
    BY <2>1, <2>2, Staying
  <2>. QED BY <1>23, <2>1, <2>3, Keeping DEF FormatFails
<1>24. ASSUME NEW p \in Procs, MountFails(p) PROVE MountedIsLocked'
  BY <1>24 DEF MountFails
<1>25. ASSUME NEW p \in Procs, RevertFails(p) PROVE MountedIsLocked'
  BY <1>25 DEF RevertFails
<1>26. ASSUME NEW p \in Procs, UnmountFails(p) PROVE MountedIsLocked'
  <2>1. CASE p \in Builders
    <3>1. /\ abandoned' = abandoned \cup {HostOf[p]}
          /\ \A h \in Hosts : mounted'[h] => mounted[h]
      BY <1>26, <2>1 DEF UnmountFails
    <3>2. \A q \in Procs \ {p} : L!Holds(q, "space", "X") => L!Holds(q, "space", "X")'
      BY <1>26, <2>1 DEF UnmountFails
    <3>3. ASSUME NEW h \in Hosts, mounted'[h], h \notin abandoned'
          PROVE  \E q \in Procs : HostOf[q] = h /\ L!Holds(q, "space", "X")'
      <4>1. PICK q \in Procs : HostOf[q] = h /\ L!Holds(q, "space", "X")
        BY <3>1, <3>3
      <4>2. q # p
        BY <4>1, <3>1, <3>3
      <4>. QED BY <4>1, <4>2, <3>2
    <3>. QED BY <3>3
  <2>2. CASE p \notin Builders
    <3>1. /\ abandoned' = abandoned
          /\ \A h \in Hosts : mounted'[h] => mounted[h]
      BY <1>26, <2>2 DEF UnmountFails
    <3>2. held' = [held EXCEPT ![p] = left[p] \cup {<<"space", Mode(op[p])>>}]
      BY <1>26, <2>2 DEF UnmountFails
    <3>3. L!Holds(p, "space", "X") => Mode(op[p]) = "X" \/ <<"space", "X">> \in left[p]
      BY DEF Owned
    <3>4. \A q \in Procs : L!Holds(q, "space", "X") => L!Holds(q, "space", "X")'
      BY <3>2, <3>3
    <3>. QED BY <3>1, <3>4
  <2>. QED BY <2>1, <2>2
<1>27. ASSUME NEW p \in Procs, Dies(p) PROVE MountedIsLocked'
  BY <1>27 DEF Dies
<1>28. ASSUME NEW p \in Procs, Quit(p) PROVE MountedIsLocked'
  BY <1>28 DEF Quit
<1>29. ASSUME NEW h \in Hosts, CleanMounts(h) PROVE MountedIsLocked'
  BY <1>29 DEF CleanMounts
<1>30. CASE UNCHANGED vars
  BY <1>30 DEF vars
<1>. QED
  BY <1>1, <1>2, <1>3, <1>4, <1>5, <1>6, <1>7, <1>8, <1>9, <1>10, <1>11, <1>12, <1>13,
     <1>14, <1>15, <1>16, <1>17, <1>18, <1>19, <1>20, <1>21, <1>22, <1>23, <1>24, <1>25, <1>26,
     <1>27, <1>28, <1>29, <1>30
     DEF Next, Step, Fails

\* Nobody mounts what another process has locked.
LEMMA Unmounts ==
  ASSUME TypeOK, Exclusive, Owned, MountedIsLocked, UnmountedIsSo, [Next]_vars
  PROVE  UnmountedIsSo'
<1> USE ScratchSpacesAssumption DEF MountedIsLocked, UnmountedIsSo, TypeOK, Exclusive, Owned,
    OnCourse, HoldsList, HoldsSpace, Creating, Owning, Looking, L!Modes, L!Holds, L!Compatible,
    Goes, Ends, Over, Fault, Takes, locks, image, mounts, procs, counters, Mode, Mounting, Deleting, ShellOps,
    Mode, FirstLock, AfterLock, L!CanTake, L!InTheWay
<1>1. ASSUME NEW p \in Procs, Begin(p) PROVE UnmountedIsSo'
  BY <1>1 DEF Begin
<1>2. ASSUME NEW p \in Procs, LockPackage(p) PROVE UnmountedIsSo'
  BY <1>2 DEF LockPackage
<1>3. ASSUME NEW p \in Procs, LockList(p) PROVE UnmountedIsSo'
  BY <1>3 DEF LockList
<1>4. ASSUME NEW p \in Procs, CreateImage(p) PROVE UnmountedIsSo'
  BY <1>4 DEF CreateImage
<1>5. ASSUME NEW p \in Procs, Format(p) PROVE UnmountedIsSo'
  BY <1>5 DEF Format
<1>6. ASSUME NEW p \in Procs, NewLock(p) PROVE UnmountedIsSo'
  BY <1>6 DEF NewLock
<1>7. ASSUME NEW p \in Procs, LockSpace(p) PROVE UnmountedIsSo'
  <2>1. \A q \in Procs \ {p} : pc'[q] = pc[q]
    BY <1>7, SpaceLocked
  <2>2. pc'[p] = "remove" => \A q \in Procs \ {p} : ~L!Holds(q, "space", "X")
    BY <1>7, SpaceLocked
  <2>3. pc'[p] \notin {"rollback", "rollback_only"}
    BY <1>7, SpaceLocked
  <2>4. UNCHANGED mounts /\ abandoned' = abandoned /\ mounted' = mounted
    BY <1>7, SpaceLocked
  <2>5. pc[p] = "space" /\ left' = left
    BY <1>7, SpaceLocked
  <2>6. L!Holds(p, "space", "X") => <<"space", "X">> \in left[p]
    BY <2>5 DEF Owned
  <2>7. ASSUME NEW h \in Hosts, pc'[p] = "remove", mounted[h], h \notin abandoned
        PROVE  h = HostOf[p] /\ <<"space", "X">> \in left'[p]
    <3>1. PICK q \in Procs : HostOf[q] = h /\ L!Holds(q, "space", "X")
      BY <2>7
    <3>2. q = p
      BY <2>2, <2>7, <3>1
    <3>. QED BY <2>5, <2>6, <3>1, <3>2
  <2>. QED BY <2>1, <2>3, <2>4, <2>5, <2>7
<1>8. ASSUME NEW p \in Procs, Mount(p) PROVE UnmountedIsSo'
  <2>1. \A q \in Procs \ {p} : pc[q] \notin {"rollback", "rollback_only", "remove"}
    BY <1>8 DEF Mount
  <2>2. pc'[p] \in {"work", "release"} /\ \A q \in Procs \ {p} : pc'[q] = pc[q]
    BY <1>8 DEF Mount
  <2>. QED BY <2>1, <2>2
<1>9. ASSUME NEW p \in Procs, Revert(p) PROVE UnmountedIsSo'
  <2>1. \A q \in Procs \ {p} : pc[q] \notin {"rollback", "rollback_only", "remove"}
    BY <1>9 DEF Revert
  <2>2. \A q \in Procs \ {p} : pc'[q] = pc[q]
    BY <1>9 DEF Revert
  <2>3. pc'[p] # "remove" /\ (pc'[p] \in {"rollback", "rollback_only"} => ~mounted'[HostOf[p]])
    BY <1>9 DEF Revert
  <2>4. \A h \in Hosts \ {HostOf[p]} : mounted[h] => h \in abandoned
    BY <1>9 DEF Revert
  <2>5. abandoned' = abandoned /\ \A h \in Hosts : mounted'[h] => mounted[h]
    BY <1>9 DEF Revert
  <2>. QED BY <2>1, <2>2, <2>3, <2>4, <2>5
<1>10. ASSUME NEW p \in Procs, Rollback(p) PROVE UnmountedIsSo'
  BY <1>10 DEF Rollback
<1>11. ASSUME NEW p \in Procs, Prune(p) PROVE UnmountedIsSo'
  BY <1>11 DEF Prune
<1>12. ASSUME NEW p \in Procs, Release(p) PROVE UnmountedIsSo'
  BY <1>12 DEF Release
<1>13. ASSUME NEW p \in Procs, Done(p) PROVE UnmountedIsSo'
  BY <1>13 DEF Done
<1>14. ASSUME NEW p \in Procs, RemoveSnapshot(p) PROVE UnmountedIsSo'
  BY <1>14 DEF RemoveSnapshot
<1>15. ASSUME NEW p \in Procs, RemoveImage(p) PROVE UnmountedIsSo'
  BY <1>15 DEF RemoveImage
<1>16. ASSUME NEW p \in Procs, ImageBusy(p) PROVE UnmountedIsSo'
  BY <1>16 DEF ImageBusy
<1>17. ASSUME NEW p \in Procs, MountSnapshot(p) PROVE UnmountedIsSo'
  BY <1>17 DEF MountSnapshot
<1>18. ASSUME NEW p \in Procs, StartShell(p) PROVE UnmountedIsSo'
  BY <1>18 DEF StartShell
<1>19. ASSUME NEW p \in Procs, LeaveShell(p) PROVE UnmountedIsSo'
  BY <1>19 DEF LeaveShell
<1>20. ASSUME NEW p \in Procs, UnmountSnapshot(p) PROVE UnmountedIsSo'
  BY <1>20 DEF UnmountSnapshot
<1>21. ASSUME NEW p \in Procs, CreateSnapshot(p) PROVE UnmountedIsSo'
  BY <1>21 DEF CreateSnapshot
<1>22. ASSUME NEW p \in Procs, Restore(p) PROVE UnmountedIsSo'
  BY <1>22 DEF Restore
<1>23. ASSUME NEW p \in Procs, FormatFails(p) PROVE UnmountedIsSo'
  BY <1>23 DEF FormatFails
<1>24. ASSUME NEW p \in Procs, MountFails(p) PROVE UnmountedIsSo'
  BY <1>24 DEF MountFails
<1>25. ASSUME NEW p \in Procs, RevertFails(p) PROVE UnmountedIsSo'
  BY <1>25 DEF RevertFails
<1>26. ASSUME NEW p \in Procs, UnmountFails(p) PROVE UnmountedIsSo'
  BY <1>26 DEF UnmountFails
<1>27. ASSUME NEW p \in Procs, Dies(p) PROVE UnmountedIsSo'
  BY <1>27 DEF Dies
<1>28. ASSUME NEW p \in Procs, Quit(p) PROVE UnmountedIsSo'
  BY <1>28 DEF Quit
<1>29. ASSUME NEW h \in Hosts, CleanMounts(h) PROVE UnmountedIsSo'
  BY <1>29 DEF CleanMounts
<1>30. CASE UNCHANGED vars
  BY <1>30 DEF vars
<1>. QED
  BY <1>1, <1>2, <1>3, <1>4, <1>5, <1>6, <1>7, <1>8, <1>9, <1>10, <1>11, <1>12, <1>13,
     <1>14, <1>15, <1>16, <1>17, <1>18, <1>19, <1>20, <1>21, <1>22, <1>23, <1>24, <1>25, <1>26,
     <1>27, <1>28, <1>29, <1>30
     DEF Next, Step, Fails

\* Who is at a place that needs the lock on the list is there alone.
LEMMA ListIsExclusive ==
  ASSUME Exclusive, Owned, NEW p \in Procs, NEW q \in Procs, p # q,
         pc[p] \in Creating \cup {"remove"}
  PROVE  /\ pc[q] \notin Creating \cup {"remove"}
         /\ pc[q] = "space" => op[q] \notin Mounting \cup Deleting
BY DEF Exclusive, Owned, HoldsList, L!Modes, L!Compatible

\* Two who have the space at once only look at it.
LEMMA SpaceIsExclusive ==
  ASSUME Exclusive, Owned, NEW p \in Procs, NEW q \in Procs, p # q,
         pc[p] \in Owning \cup Looking, pc[q] \in Owning \cup Looking
  PROVE  Mode(op[p]) = "S" /\ Mode(op[q]) = "S"
BY DEF Exclusive, Owned, HoldsSpace, L!Modes, L!Compatible, Mode

\* The image is made and removed under the lock on the list.
LEMMA Images ==
  ASSUME TypeOK, Exclusive, Owned, ImageIsThere, [Next]_vars
  PROVE  ImageIsThere'
<1> USE ScratchSpacesAssumption DEF TypeOK, ImageIsThere, Writes, Goes, Ends, Over, Fault, Takes, locks, image,
    mounts, procs, counters, Mounting, Deleting, ShellOps, Mode, FirstLock, AfterLock, Creating,
    Owning
<1>1. ASSUME NEW p \in Procs, Begin(p) PROVE ImageIsThere'
  BY <1>1 DEF Begin
<1>2. ASSUME NEW p \in Procs, LockPackage(p) PROVE ImageIsThere'
  BY <1>2 DEF LockPackage
<1>3. ASSUME NEW p \in Procs, LockList(p) PROVE ImageIsThere'
  <2>1. CASE Over(p) /\ UNCHANGED image
    BY <2>1
  <2>2. CASE Goes(p, "list", IF exists THEN "space" ELSE "create") /\ UNCHANGED image
    <3>1. \A q \in Procs : pc[q] \notin {"format", "new_lock"}
      BY <1>3, <2>2 DEF LockList, L!CanTake, L!InTheWay, Owned, HoldsList, L!Modes, L!Compatible
    <3>. QED BY <2>2, <3>1
  <2>. QED BY <1>3, <2>1, <2>2 DEF LockList
<1>4. ASSUME NEW p \in Procs, CreateImage(p) PROVE ImageIsThere'
  <2>1. ASSUME NEW q \in Procs \ {p} PROVE ~Writes(q) /\ pc[q] \notin Creating
    BY <1>4, ListIsExclusive DEF CreateImage
  <2>2. \A q \in Procs \ {p} : pc'[q] = pc[q] /\ op'[q] = op[q]
    BY <1>4 DEF CreateImage
  <2>3. pc'[p] = "format" /\ snaps' = {} /\ exists'
    BY <1>4 DEF CreateImage
  <2>. QED BY <2>1, <2>2, <2>3
<1>5. ASSUME NEW p \in Procs, Format(p) PROVE ImageIsThere'
  BY <1>5 DEF Format
<1>6. ASSUME NEW p \in Procs, NewLock(p) PROVE ImageIsThere'
  <2>1. ASSUME NEW q \in Procs \ {p} PROVE ~Writes(q) /\ pc[q] \notin Creating
    BY <1>6, ListIsExclusive DEF NewLock
  <2>2. CASE Goes(p, "new_lock", "mount") /\ UNCHANGED <<exists, snaps>>
    BY <2>1, <2>2
  <2>3. CASE Over(p) /\ UNCHANGED snaps
    BY <2>1, <2>3
  <2>. QED BY <1>6, <2>2, <2>3 DEF NewLock
<1>7. ASSUME NEW p \in Procs, LockSpace(p) PROVE ImageIsThere'
  <2>1. UNCHANGED image /\ \A q \in Procs \ {p} : pc'[q] = pc[q] /\ op'[q] = op[q]
    BY <1>7, SpaceLocked DEF Owned
  <2>2. /\ pc[p] = "space" /\ pc'[p] \notin Creating \cup {"space"}
        /\ pc'[p] = "idle" \/ op'[p] = op[p]
    BY <1>7, SpaceLocked DEF Owned
  <2>. QED BY <2>1, <2>2
<1>8. ASSUME NEW p \in Procs, Mount(p) PROVE ImageIsThere'
  BY <1>8 DEF Mount
<1>9. ASSUME NEW p \in Procs, Revert(p) PROVE ImageIsThere'
  BY <1>9 DEF Revert
<1>10. ASSUME NEW p \in Procs, Rollback(p) PROVE ImageIsThere'
  BY <1>10 DEF Rollback
<1>11. ASSUME NEW p \in Procs, Prune(p) PROVE ImageIsThere'
  <2>1. \A q \in Procs : pc'[q] = pc[q] \/ (q = p /\ pc'[q] = "release")
    BY <1>11 DEF Prune
  <2>. QED BY <1>11, <2>1 DEF Prune
<1>12. ASSUME NEW p \in Procs, Release(p) PROVE ImageIsThere'
  BY <1>12 DEF Release
<1>13. ASSUME NEW p \in Procs, Done(p) PROVE ImageIsThere'
  BY <1>13 DEF Done
<1>14. ASSUME NEW p \in Procs, RemoveSnapshot(p) PROVE ImageIsThere'
  BY <1>14 DEF RemoveSnapshot
<1>15. ASSUME NEW p \in Procs, RemoveImage(p) PROVE ImageIsThere'
  <2>1. ASSUME NEW q \in Procs \ {p} PROVE ~Writes(q) /\ pc[q] \notin Creating
    <3>1. pc[p] = "remove" /\ op[p] \in Deleting
      BY <1>15 DEF RemoveImage, Owned, OnCourse
    <3>2. pc[q] \notin Creating /\ (pc[q] = "space" => op[q] \notin Mounting)
      BY <3>1, ListIsExclusive
    <3>3. pc[q] \notin Owning
      BY <3>1, SpaceIsExclusive
    <3>. QED BY <3>2, <3>3
  <2>2. \A q \in Procs \ {p} : pc'[q] = pc[q] /\ op'[q] = op[q]
    BY <1>15 DEF RemoveImage
  <2>3. pc'[p] = "idle" /\ snaps' = snaps
    BY <1>15 DEF RemoveImage
  <2>. QED BY <2>1, <2>2, <2>3
<1>16. ASSUME NEW p \in Procs, ImageBusy(p) PROVE ImageIsThere'
  BY <1>16 DEF ImageBusy
<1>17. ASSUME NEW p \in Procs, MountSnapshot(p) PROVE ImageIsThere'
  BY <1>17 DEF MountSnapshot
<1>18. ASSUME NEW p \in Procs, StartShell(p) PROVE ImageIsThere'
  BY <1>18 DEF StartShell
<1>19. ASSUME NEW p \in Procs, LeaveShell(p) PROVE ImageIsThere'
  BY <1>19 DEF LeaveShell
<1>20. ASSUME NEW p \in Procs, UnmountSnapshot(p) PROVE ImageIsThere'
  BY <1>20 DEF UnmountSnapshot
<1>21. ASSUME NEW p \in Procs, CreateSnapshot(p) PROVE ImageIsThere'
  BY <1>21 DEF CreateSnapshot
<1>22. ASSUME NEW p \in Procs, Restore(p) PROVE ImageIsThere'
  BY <1>22 DEF Restore
<1>23. ASSUME NEW p \in Procs, FormatFails(p) PROVE ImageIsThere'
  <2>1. ASSUME NEW q \in Procs \ {p} PROVE ~Writes(q) /\ pc[q] \notin Creating
    BY <1>23, ListIsExclusive DEF FormatFails
  <2>2. \A q \in Procs \ {p} : pc'[q] = pc[q] /\ op'[q] = op[q]
    BY <1>23 DEF FormatFails
  <2>3. pc'[p] = "idle" /\ snaps' = snaps
    BY <1>23 DEF FormatFails
  <2>. QED BY <2>1, <2>2, <2>3
<1>24. ASSUME NEW p \in Procs, MountFails(p) PROVE ImageIsThere'
  BY <1>24 DEF MountFails
<1>25. ASSUME NEW p \in Procs, RevertFails(p) PROVE ImageIsThere'
  BY <1>25 DEF RevertFails
<1>26. ASSUME NEW p \in Procs, UnmountFails(p) PROVE ImageIsThere'
  BY <1>26 DEF UnmountFails
<1>27. ASSUME NEW p \in Procs, Dies(p) PROVE ImageIsThere'
  BY <1>27 DEF Dies
<1>28. ASSUME NEW p \in Procs, Quit(p) PROVE ImageIsThere'
  BY <1>28 DEF Quit
<1>29. ASSUME NEW h \in Hosts, CleanMounts(h) PROVE ImageIsThere'
  BY <1>29 DEF CleanMounts
<1>30. CASE UNCHANGED vars
  BY <1>30 DEF vars
<1>. QED
  BY <1>1, <1>2, <1>3, <1>4, <1>5, <1>6, <1>7, <1>8, <1>9, <1>10, <1>11, <1>12, <1>13,
     <1>14, <1>15, <1>16, <1>17, <1>18, <1>19, <1>20, <1>21, <1>22, <1>23, <1>24, <1>25, <1>26,
     <1>27, <1>28, <1>29, <1>30
     DEF Next, Step, Fails

\* Snapshots are deleted under a lock that keeps readers out.
LEMMA Inspects ==
  ASSUME TypeOK, Exclusive, Owned, ImageIsThere, InspectedStays, [Next]_vars
  PROVE  InspectedStays'
<1> USE ScratchSpacesAssumption DEF ImageIsThere, InspectedStays, TypeOK, Exclusive, Owned,
    OnCourse, HoldsList, HoldsSpace, Creating, Owning, Looking, L!Modes, L!Holds, L!Compatible,
    Goes, Ends, Over, Fault, Takes, locks, image, mounts, procs, counters, Mode, Mounting, Deleting, ShellOps,
    Mode, FirstLock, AfterLock
<1>1. ASSUME NEW p \in Procs, Begin(p) PROVE InspectedStays'
  BY <1>1 DEF Begin
<1>2. ASSUME NEW p \in Procs, LockPackage(p) PROVE InspectedStays'
  BY <1>2 DEF LockPackage
<1>3. ASSUME NEW p \in Procs, LockList(p) PROVE InspectedStays'
  BY <1>3 DEF LockList
<1>4. ASSUME NEW p \in Procs, CreateImage(p) PROVE InspectedStays'
  BY <1>4 DEF CreateImage
<1>5. ASSUME NEW p \in Procs, Format(p) PROVE InspectedStays'
  BY <1>5 DEF Format
<1>6. ASSUME NEW p \in Procs, NewLock(p) PROVE InspectedStays'
  BY <1>6 DEF NewLock
<1>7. ASSUME NEW p \in Procs, LockSpace(p) PROVE InspectedStays'
  <2>1. UNCHANGED image /\ \A q \in Procs \ {p} : pc'[q] = pc[q] /\ snap'[q] = snap[q]
    BY <1>7, SpaceLocked
  <2>2. pc'[p] \notin {"shell", "inspecting"}
    BY <1>7, SpaceLocked
  <2>. QED BY <2>1, <2>2
<1>8. ASSUME NEW p \in Procs, Mount(p) PROVE InspectedStays'
  BY <1>8 DEF Mount
<1>9. ASSUME NEW p \in Procs, Revert(p) PROVE InspectedStays'
  BY <1>9 DEF Revert
<1>10. ASSUME NEW p \in Procs, Rollback(p) PROVE InspectedStays'
  BY <1>10 DEF Rollback
<1>11. ASSUME NEW p \in Procs, Prune(p) PROVE InspectedStays'
  <2>1. \A q \in Procs : pc[q] \notin {"shell", "inspecting"}
    BY <1>11 DEF Prune
  <2>. QED BY <1>11, <2>1 DEF Prune
<1>12. ASSUME NEW p \in Procs, Release(p) PROVE InspectedStays'
  BY <1>12 DEF Release
<1>13. ASSUME NEW p \in Procs, Done(p) PROVE InspectedStays'
  BY <1>13 DEF Done
<1>14. ASSUME NEW p \in Procs, RemoveSnapshot(p) PROVE InspectedStays'
  BY <1>14 DEF RemoveSnapshot
<1>15. ASSUME NEW p \in Procs, RemoveImage(p) PROVE InspectedStays'
  BY <1>15 DEF RemoveImage
<1>16. ASSUME NEW p \in Procs, ImageBusy(p) PROVE InspectedStays'
  BY <1>16 DEF ImageBusy
<1>17. ASSUME NEW p \in Procs, MountSnapshot(p) PROVE InspectedStays'
  BY <1>17 DEF MountSnapshot
<1>18. ASSUME NEW p \in Procs, StartShell(p) PROVE InspectedStays'
  BY <1>18 DEF StartShell
<1>19. ASSUME NEW p \in Procs, LeaveShell(p) PROVE InspectedStays'
  BY <1>19 DEF LeaveShell
<1>20. ASSUME NEW p \in Procs, UnmountSnapshot(p) PROVE InspectedStays'
  BY <1>20 DEF UnmountSnapshot
<1>21. ASSUME NEW p \in Procs, CreateSnapshot(p) PROVE InspectedStays'
  BY <1>21 DEF CreateSnapshot
<1>22. ASSUME NEW p \in Procs, Restore(p) PROVE InspectedStays'
  BY <1>22 DEF Restore
<1>23. ASSUME NEW p \in Procs, FormatFails(p) PROVE InspectedStays'
  BY <1>23 DEF FormatFails
<1>24. ASSUME NEW p \in Procs, MountFails(p) PROVE InspectedStays'
  BY <1>24 DEF MountFails
<1>25. ASSUME NEW p \in Procs, RevertFails(p) PROVE InspectedStays'
  BY <1>25 DEF RevertFails
<1>26. ASSUME NEW p \in Procs, UnmountFails(p) PROVE InspectedStays'
  BY <1>26 DEF UnmountFails
<1>27. ASSUME NEW p \in Procs, Dies(p) PROVE InspectedStays'
  BY <1>27 DEF Dies
<1>28. ASSUME NEW p \in Procs, Quit(p) PROVE InspectedStays'
  BY <1>28 DEF Quit
<1>29. ASSUME NEW h \in Hosts, CleanMounts(h) PROVE InspectedStays'
  BY <1>29 DEF CleanMounts
<1>30. CASE UNCHANGED vars
  BY <1>30 DEF vars
<1>. QED
  BY <1>1, <1>2, <1>3, <1>4, <1>5, <1>6, <1>7, <1>8, <1>9, <1>10, <1>11, <1>12, <1>13,
     <1>14, <1>15, <1>16, <1>17, <1>18, <1>19, <1>20, <1>21, <1>22, <1>23, <1>24, <1>25, <1>26,
     <1>27, <1>28, <1>29, <1>30
     DEF Next, Step, Fails

-----------------------------------------------------------------------------
(* The theorems.                                                           *)

\* The variables have their types.
THEOREM TypeCorrect == Spec => []TypeOK
<1>1. Init => TypeOK
  BY DEF Init, TypeOK, L!NoLocks, Creating, Owning, Looking
<1>2. TypeOK /\ [Next]_vars => TypeOK'
  BY Typed
<1>. QED BY <1>1, <1>2, PTL DEF Spec

\* The inductive invariant: who has which lock, and what is so because of it.
THEOREM Inductive == Spec => []IInv
<1>1. Init => IInv
  <2>. SUFFICES ASSUME Init PROVE IInv
    OBVIOUS
  <2>1. \A p \in Procs : pc[p] = "idle" /\ held[p] = {} /\ left[p] = {}
    BY DEF Init, L!NoLocks
  <2>2. TypeOK
    BY DEF Init, TypeOK, L!NoLocks, Creating, Owning, Looking
  <2>3. Exclusive /\ Owned
    BY <2>1 DEF Exclusive, Owned, OnCourse, HoldsList, HoldsSpace, L!Holds, Creating, Owning,
        Looking
  <2>4. MountedIsLocked /\ UnmountedIsSo
    BY <2>1 DEF Init, MountedIsLocked, UnmountedIsSo
  <2>5. ImageIsThere /\ InspectedStays
    BY <2>1 DEF ImageIsThere, Writes, InspectedStays, Owning
  <2>. QED BY <2>2, <2>3, <2>4, <2>5 DEF IInv
<1>2. IInv /\ [Next]_vars => IInv'
  BY Typed, Excludes, Owns, Mounts, Unmounts, Images, Inspects DEF IInv
<1>. QED BY <1>1, <1>2, PTL DEF Spec

\* WriterIsAlone: while somebody writes, rolls back or removes a space, it is mounted
\* nowhere else (__del__ keeps the lock of what it could not unmount), except on hosts
\* where a process ended before it had unmounted, and by the shell itself that removes
\* what it could not unmount.
THEOREM WritesAlone == Spec => []WriterIsAlone
<1>1. IInv => WriterIsAlone
  <2>. SUFFICES ASSUME IInv, NEW p \in Procs, NEW h \in Hosts, mounted[h], h \notin abandoned,
                       pc[p] \in {"work", "rollback", "rollback_only", "remove"}
                PROVE  /\ h = HostOf[p]
                       /\ pc[p] = "work" \/ (pc[p] = "remove" /\ <<"space", "X">> \in left[p])
    BY DEF WriterIsAlone
  <2>1. CASE pc[p] # "work"
    BY <2>1 DEF IInv, UnmountedIsSo
  <2>. SUFFICES ASSUME pc[p] = "work"
                PROVE  h = HostOf[p]
    BY <2>1
  <2>2. L!Holds(p, "space", "X")
    BY DEF IInv, Owned, OnCourse, HoldsSpace, Creating, Owning, Mode, Mounting
  <2>3. PICK q \in Procs : HostOf[q] = h /\ L!Holds(q, "space", "X")
    BY DEF IInv, MountedIsLocked
  <2>4. q = p
    BY <2>2, <2>3 DEF IInv, Exclusive, L!Modes, L!Compatible
  <2>. QED BY <2>3, <2>4
<1>. QED BY <1>1, Inductive, PTL

\* InspectedStays: the snapshot behind an inspection stays, whatever delete_old_snapshots,
\* delete_scratch_space and builders do meanwhile.
THEOREM InspectionIsSafe == Spec => []InspectedStays
<1>1. IInv => InspectedStays
  BY DEF IInv
<1>. QED BY <1>1, Inductive, PTL

=============================================================================
