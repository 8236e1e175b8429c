------------------------------- MODULE Rootfs -------------------------------
(***************************************************************************)
(* Rootfs images: rootfs.py, the part of PackageBuilder.build_package that *)
(* finds, clones and publishes them, rootfs_balancer.py, and the commands  *)
(* of the management shell.                                                *)
(*                                                                         *)
(* An image is a row in the database, an rbd image in the ceph cluster,    *)
(* which may have the snapshot ro_base and be a copy-on-write clone of     *)
(* another image's ro_base, an entry in the list of available images, and  *)
(* a lock.  Nothing changes two of these at once.  Image 0 stands for the  *)
(* lock on the list of available images.                                   *)
(*                                                                         *)
(* A process is one thread of control with TCLM locks of its own.          *)
(***************************************************************************)
EXTENDS Naturals, FiniteSets

CONSTANTS
  Procs,
  MaxImages,      \* a bound: images that ever exist
  OldImages,      \* the images at first: a sequence of [list, parent]
  Demands,        \* what builds need: sets of packages
  Avoided,        \* for each demand, the names that the image found must not have
  Mixed,          \* the packages of an image that is being changed
  MaxOps,         \* a bound: operations that are started
  MaxFaults       \* a bound: operations that fail, processes that die

\* There is one version of each name in a demand.
ASSUME RootfsAssumption ==
  /\ MaxImages \in Nat
  /\ \E n \in 0 .. MaxImages : DOMAIN OldImages = 1 .. n
  /\ \A i \in DOMAIN OldImages : /\ IsFiniteSet(OldImages[i].list)
                                 /\ OldImages[i].parent \in {0} \cup DOMAIN OldImages
  /\ IsFiniteSet(Mixed)
  /\ DOMAIN Avoided = Demands
  /\ \A D \in Demands : IsFiniteSet(D) /\ \A d, e \in D : d[1] = e[1] => d = e

Avail == 0
Images == 1 .. MaxImages

VARIABLES
  row,            \* the database: "none", "pending" (not committed) or "there"
  list,           \* ImageContent: the packages that the database says are in it
  comment,        \* the images that have a comment
  available,      \* the list of available images
  rbd,            \* the rbd images that exist
  base,           \* ro_base: "none", "plain" or "protected"
  parent,         \* the image this one is a clone of; 0 if it is none
  content,        \* the packages that really are in it
  op, pc, img,    \* each process: what it does, where it is, with which image,
  todo, kids,     \* the images it has still to look at or to delete, and to flatten,
  want,           \* the packages its build needs,
  mounted,        \* and whether the image is mounted
  held,           \* the locks
  made, ops, faults

L == INSTANCE ClusterLocks WITH Locks <- 0 .. MaxImages

dbVars == <<row, list, comment, available>>
cephVars == <<rbd, base, parent, content>>
procVars == <<op, img, todo, kids, want, mounted>>
counters == <<made, ops, faults>>
vars == <<dbVars, cephVars, pc, procVars, held, counters>>

Children(i) == {c \in rbd : parent[c] = i}
Least(S) == CHOOSE i \in S : \A j \in S : i <= j
Greatest(S) == CHOOSE i \in S : \A j \in S : j <= i

\* The old images have been published.
Init ==
  LET Old == DOMAIN OldImages
  IN  /\ row = [i \in Images |-> IF i \in Old THEN "there" ELSE "none"]
      /\ list = [i \in Images |-> IF i \in Old THEN OldImages[i].list ELSE {}]
      /\ parent = [i \in Images |-> IF i \in Old THEN OldImages[i].parent ELSE 0]
      /\ base = [i \in Images |-> IF i \in Old THEN "protected" ELSE "none"]
      /\ comment = {} /\ available = Old /\ rbd = Old /\ content = list
      /\ pc = [p \in Procs |-> "idle"] /\ op = pc /\ img = [p \in Procs |-> 0]
      /\ todo = [p \in Procs |-> {}] /\ kids = todo /\ want = todo
      /\ mounted = [p \in Procs |-> FALSE]
      /\ held = L!NoLocks
      /\ made = Cardinality(Old) /\ ops = 0 /\ faults = 0

-----------------------------------------------------------------------------
(* Where a process waits for a lock, and for which.                        *)

Tools == {"unused", "recreatable"}

Wanted(p) ==
  CASE pc[p] \in {"find", "clone"} -> {<<Avail, "S">>}
    [] pc[p] \in {"list", "unlist", "delist"} -> {<<Avail, "X">>}
    [] pc[p] \in {"chosen", "reopen"} -> {<<img[p], "S">>}
    [] pc[p] \in {"open", "delete"} ->
         {<<img[p], "X">>} \cup (IF op[p] = "rmbase" THEN {<<Avail, "S">>} ELSE {})
    [] pc[p] = "evaluate" /\ todo[p] # {} -> {<<Least(todo[p]), "S">>, <<Avail, "S">>}
    [] pc[p] = "pick" /\ todo[p] # {} -> {<<Greatest(todo[p]), "S+">>}
    [] pc[p] = "flatten" -> {<<c, "S">> : c \in kids[p]}
    [] OTHER -> {}

WaitsFor(p) == UNION {L!InTheWay(p, w[1], w[2]) : w \in Wanted(p)}
Granted(p) == WaitsFor(p) = {}

Goes(p, here, there) == pc[p] = here /\ Granted(p) /\ pc' = [pc EXCEPT ![p] = there]

Swaps(p, old, new) == held' = L!Trades(p, old, new)

\* The operation is over, successfully or with an exception: the objects die, and with
\* them go the locks.
Over(p) ==
  /\ pc' = [pc EXCEPT ![p] = "idle"] /\ op' = [op EXCEPT ![p] = "idle"] /\ img' = [img EXCEPT ![p] = 0]
  /\ todo' = [todo EXCEPT ![p] = {}] /\ kids' = [kids EXCEPT ![p] = {}]
  /\ want' = [want EXCEPT ![p] = {}] /\ mounted' = [mounted EXCEPT ![p] = FALSE]
  /\ held' = [held EXCEPT ![p] = {}]

\* An operation is started.
Begins(p, what, there) ==
  /\ pc[p] = "idle" /\ ops < MaxOps
  /\ ops' = ops + 1
  /\ op' = [op EXCEPT ![p] = what]
  /\ pc' = [pc EXCEPT ![p] = there]
  /\ UNCHANGED <<dbVars, cephVars, mounted, made, faults>>

-----------------------------------------------------------------------------
(* find_image                                                              *)

\* Packages are pairs of a name and a version; a demand has one version of each name.
Names(S) == {d[1] : d \in S}
Missing(i, D) == Names(D) \ Names(list[i])
Disruptive(i, D) == {e \in list[i] \ D : e[1] \in Names(D)}
Extra(i, D) == Names(list[i]) \ Names(D)

\* Mutant: any version will do.
FitsByName(i, D) == Missing(i, D) = {}

Fits(i, D) == Missing(i, D) = {} /\ Disruptive(i, D) = {}

\* The error function, whose fraction grows with the number of extra packages and
\* stays below one.
Worse(i, j, D) ==
  LET Whole(k) == Cardinality(Missing(k, D)) + Cardinality(Disruptive(k, D))
      Fraction(k) == Cardinality(Extra(k, D))
  IN  \/ Whole(i) > Whole(j)
      \/ Whole(i) = Whole(j) /\ Fraction(i) > Fraction(j)
      \/ Whole(i) = Whole(j) /\ Fraction(i) = Fraction(j) /\ i > j

Candidates(D) == {i \in available : Names(list[i]) \cap Avoided[D] = {}}
Best(D) == CHOOSE i \in Candidates(D) : \A j \in Candidates(D) \ {i} : Worse(j, i, D)

Build(p) ==
  /\ Begins(p, "build", "find")
  /\ \E D \in Demands : want' = [want EXCEPT ![p] = D]
  /\ UNCHANGED <<img, todo, kids, held>>

FindBegins(p) ==
  /\ Candidates(want[p]) # {}
  /\ Goes(p, "find", "chosen")
  /\ img' = [img EXCEPT ![p] = Best(want[p])]
  /\ Swaps(p, {}, {<<Avail, "S">>})
  /\ UNCHANGED <<dbVars, cephVars, op, todo, kids, want, mounted, counters>>

FindsNone(p) ==
  /\ pc[p] = "find" /\ Granted(p) /\ Candidates(want[p]) = {}
  /\ Over(p)
  /\ UNCHANGED <<dbVars, cephVars, counters>>

\* The object of the image is made while the list is still locked.
FindEnds(p) ==
  /\ Goes(p, "chosen", IF Fits(img[p], want[p]) THEN "mount" ELSE "clone")
  /\ row[img[p]] = "there"
  /\ Swaps(p, {<<Avail, "S">>}, {<<img[p], "S">>})
  /\ UNCHANGED <<dbVars, cephVars, procVars, counters>>

-----------------------------------------------------------------------------
(* cow_clone_image and create_empty_image, up to the commit.               *)

Creates(p, packages, of) ==
  LET id == made + 1 IN
  /\ made < MaxImages /\ made' = id
  /\ row' = [row EXCEPT ![id] = "pending"]
  /\ list' = [list EXCEPT ![id] = packages]
  /\ content' = [content EXCEPT ![id] = packages]
  /\ parent' = [parent EXCEPT ![id] = of]
  /\ rbd' = rbd \cup {id}
  /\ img' = [img EXCEPT ![p] = id]
  /\ Swaps(p, {}, {<<id, "X">>})
  /\ UNCHANGED <<comment, available, base, op, todo, kids, want, mounted, faults>>

\* What cow_clone_image and rbd ask for.
Cloneable(i) == i \in available /\ base[i] = "protected"

CloneCreates(p) ==
  /\ Goes(p, "clone", "commit")
  /\ Cloneable(img[p])
  /\ Creates(p, list[img[p]], img[p])
  /\ UNCHANGED ops

\* The source does not qualify, or the clone fails since there is no room (MaxImages).
CloneFails(p) ==
  /\ pc[p] = "clone" /\ Granted(p) /\ ~(Cloneable(img[p]) /\ made < MaxImages)
  /\ Over(p)
  /\ UNCHANGED <<dbVars, cephVars, counters>>

\* build_package lets go of the image that it has cloned.
CloneCommits(p) ==
  /\ Goes(p, "commit", "install")
  /\ row' = [row EXCEPT ![img[p]] = "there"]
  /\ held' = [held EXCEPT ![p] = {<<img[p], "X">>}]
  /\ UNCHANGED <<list, comment, available, cephVars, procVars, counters>>

CreateEmpty(p) ==
  /\ pc[p] = "idle" /\ ops < MaxOps /\ ops' = ops + 1
  /\ pc' = [pc EXCEPT ![p] = "commitempty"]
  /\ Creates(p, {}, 0)

CreateCommits(p) ==
  /\ pc[p] = "commitempty"
  /\ row' = [row EXCEPT ![img[p]] = "there"]
  /\ Over(p)
  /\ UNCHANGED <<list, comment, available, cephVars, counters>>

-----------------------------------------------------------------------------
(* build_package adapts the clone, publishes it and builds in it.          *)

\* An image without a package manager is empty; it is flattened before it is bootstrapped.
Installs(p) ==
  /\ Goes(p, "install", "adapt")
  /\ parent' = [parent EXCEPT ![img[p]] = IF content[img[p]] = {} THEN 0 ELSE @]
  /\ content' = [content EXCEPT ![img[p]] = Mixed]
  /\ UNCHANGED <<dbVars, rbd, base, procVars, held, counters>>

\* remove_unneeded leaves what the build needs, and set_package_list says so.
Adapts(p) ==
  /\ Goes(p, "adapt", "snap")
  /\ content' = [content EXCEPT ![img[p]] = want[p]]
  /\ list' = [list EXCEPT ![img[p]] = want[p]]
  /\ UNCHANGED <<row, comment, available, rbd, base, parent, procVars, held, counters>>

\* publish, for a build and for the shell.
SnapCreate(p) ==
  /\ Goes(p, "snap", "protect")
  /\ base[img[p]] = "none"
  /\ base' = [base EXCEPT ![img[p]] = "plain"]
  /\ UNCHANGED <<dbVars, rbd, parent, content, procVars, held, counters>>

HasSnap(p) ==
  /\ Goes(p, "snap", "list")
  /\ base[img[p]] # "none"
  /\ UNCHANGED <<dbVars, cephVars, procVars, held, counters>>

SnapProtect(p) ==
  /\ Goes(p, "protect", "list")
  /\ base' = [base EXCEPT ![img[p]] = "protected"]
  /\ UNCHANGED <<dbVars, rbd, parent, content, procVars, held, counters>>

Lists(p) ==
  /\ available' = available \cup {img[p]}
  /\ \/ op[p] = "build" /\ Goes(p, "list", "downgrade") /\ UNCHANGED <<procVars, held>>
     \/ op[p] # "build" /\ pc[p] = "list" /\ Granted(p) /\ Over(p)
  /\ UNCHANGED <<row, list, comment, cephVars, counters>>

Downgrades(p) ==
  /\ Goes(p, "downgrade", "reopen")
  /\ Swaps(p, {<<img[p], "X">>}, {<<img[p], "S+">>})
  /\ UNCHANGED <<dbVars, cephVars, procVars, counters>>

Reopens(p) ==
  /\ Goes(p, "reopen", "mount")
  /\ row[img[p]] = "there"
  /\ Swaps(p, {<<img[p], "S+">>}, {<<img[p], "S">>})
  /\ UNCHANGED <<dbVars, cephVars, procVars, counters>>

\* mount returns even if the image could not be mounted.
Mounts(p) ==
  /\ Goes(p, "mount", "build")
  /\ \/ mounted' = [mounted EXCEPT ![p] = TRUE] /\ UNCHANGED faults
     \/ faults < MaxFaults /\ faults' = faults + 1 /\ UNCHANGED mounted
  /\ UNCHANGED <<dbVars, cephVars, op, img, todo, kids, want, held, made, ops>>

Built(p) ==
  /\ pc[p] = "build"
  /\ Over(p)
  /\ UNCHANGED <<dbVars, cephVars, counters>>
(* Commands of the management shell that take one image exclusively.       *)

Shell(p) ==
  /\ \/ \E what \in {"publish", "unpublish", "comment", "rmbase"} : Begins(p, what, "open")
     \/ Begins(p, "delete", "delist")
  /\ \E i \in 1 .. made : img' = [img EXCEPT ![p] = i]
  /\ UNCHANGED <<todo, kids, want, held>>

\* The image of that number does not exist (any more).
NoSuchImage(p) ==
  /\ pc[p] \in {"chosen", "reopen", "open"}
  /\ Granted(p) /\ row[img[p]] # "there"
  /\ Over(p)
  /\ UNCHANGED <<dbVars, cephVars, counters>>

\* An operator publishes what is complete.
Opens(p) ==
  /\ \/ op[p] = "publish" /\ Goes(p, "open", "snap") /\ list[img[p]] = content[img[p]]
     \/ op[p] = "unpublish" /\ Goes(p, "open", "unlist")
  /\ row[img[p]] = "there"
  /\ Swaps(p, {}, {<<img[p], "X">>})
  /\ UNCHANGED <<dbVars, cephVars, procVars, counters>>

Refrains(p) ==
  /\ pc[p] = "open" /\ op[p] = "publish" /\ Granted(p) /\ list[img[p]] # content[img[p]]
  /\ Over(p)
  /\ UNCHANGED <<dbVars, cephVars, counters>>

Unlists(p) ==
  /\ pc[p] = "unlist" /\ Granted(p)
  /\ available' = available \ {img[p]}
  /\ Over(p)
  /\ UNCHANGED <<row, list, comment, cephVars, counters>>

SetComment(p) ==
  /\ pc[p] = "open" /\ op[p] = "comment" /\ Granted(p) /\ row[img[p]] = "there"
  /\ comment' \in {comment \cup {img[p]}, comment \ {img[p]}}
  /\ Over(p)
  /\ UNCHANGED <<row, list, available, cephVars, counters>>

\* The snapshot is unprotected, which it cannot be while there are clones of it, and
\* removed, unless that fails.
RemoveRoBase(p) ==
  /\ pc[p] = "open" /\ op[p] = "rmbase" /\ Granted(p) /\ row[img[p]] = "there"
  /\ IF base[img[p]] = "protected" /\ img[p] \notin available /\ Children(img[p]) = {}
     THEN base' \in {[base EXCEPT ![img[p]] = left] : left \in {"plain", "none"}}
     ELSE UNCHANGED base
  /\ Over(p)
  /\ UNCHANGED <<dbVars, rbd, parent, content, counters>>

\* A clone needs no more than an S lock to be flattened; here, in one step.
Flatten(p) ==
  /\ pc[p] = "idle" /\ ops < MaxOps /\ ops' = ops + 1
  /\ \E i \in rbd :
       /\ row[i] = "there" /\ parent[i] # 0 /\ L!CanTake(p, i, "S")
       /\ parent' = [parent EXCEPT ![i] = 0]
  /\ UNCHANGED <<dbVars, rbd, base, content, pc, procVars, held, made, faults>>

-----------------------------------------------------------------------------
(* delete_image, and the tools that delete many.                           *)

\* Mutant: the list stays locked until the image is deleted.
DelistsHolding(p) ==
  /\ Goes(p, "delist", "delete")
  /\ available' = available \ {img[p]}
  /\ Swaps(p, {}, {<<Avail, "X">>})
  /\ UNCHANGED <<row, list, comment, cephVars, procVars, counters>>

Delists(p) ==
  /\ Goes(p, "delist", "delete")
  /\ available' = available \ {img[p]}
  /\ UNCHANGED <<row, list, comment, cephVars, procVars, held, counters>>

\* Mutant: nothing refers to the row.
DeleteRowAnyway(p) ==
  /\ Goes(p, "delete", "purge")
  /\ row' = [row EXCEPT ![img[p]] = "none"]
  /\ list' = [list EXCEPT ![img[p]] = {}]
  /\ comment' = comment \ {img[p]}
  /\ Swaps(p, {}, {<<img[p], "X">>})
  /\ UNCHANGED <<available, cephVars, procVars, counters>>

\* The row of an image that is listed, again, cannot be deleted: the list refers to it.
DeleteRow(p) ==
  /\ Goes(p, "delete", "purge")
  /\ img[p] \notin available
  /\ row' = [row EXCEPT ![img[p]] = "none"]
  /\ list' = [list EXCEPT ![img[p]] = {}]
  /\ comment' = comment \ {img[p]}
  /\ Swaps(p, {}, {<<img[p], "X">>})
  /\ UNCHANGED <<available, cephVars, procVars, counters>>

StillListed(p) ==
  /\ pc[p] = "delete" /\ Granted(p) /\ img[p] \in available
  /\ Over(p)
  /\ UNCHANGED <<dbVars, cephVars, counters>>

ByTool(p) == op[p] \in Tools

\* A snapshot with clones cannot be unprotected: the exception ends the tool.
Purges(p) ==
  /\ pc[p] = "purge"
  /\ IF Children(img[p]) # {} THEN Over(p) /\ UNCHANGED cephVars
     ELSE /\ rbd' = rbd \ {img[p]}
          /\ base' = [base EXCEPT ![img[p]] = "none"]
          /\ parent' = [parent EXCEPT ![img[p]] = 0]
          /\ content' = [content EXCEPT ![img[p]] = {}]
          /\ IF ByTool(p)
             THEN /\ Goes(p, "purge", "pick")
                  /\ Swaps(p, {<<img[p], "X">>, <<img[p], "S+">>}, {})
                  /\ UNCHANGED procVars
             ELSE Over(p)
  /\ UNCHANGED <<dbVars, counters>>

Tool(p) ==
  /\ \E t \in Tools : Begins(p, t, "evaluate")
  /\ todo' = [todo EXCEPT ![p] = {i \in Images : row[i] = "there"}]
  /\ UNCHANGED <<img, kids, want, held>>

Qualifies(p, i) == i \notin comment /\ (i \in available <=> op[p] = "recreatable")

\* The variable of the loop, img, is deleted if the image qualifies.  If not it goes on
\* holding the image, and its lock, until there is another; a row that is gone is none.
Evaluates(p) ==
  LET i == Least(todo[p]) IN
  /\ pc[p] = "evaluate" /\ todo[p] # {} /\ Granted(p)
  /\ todo' = [todo EXCEPT ![p] = @ \ {i}]
  /\ IF row[i] # "there" THEN UNCHANGED <<img, held>>
     ELSE /\ img' = [img EXCEPT ![p] = IF Qualifies(p, i) THEN 0 ELSE i]
          /\ Swaps(p, {<<img[p], "S">>}, {<<i, "S">>})
  /\ UNCHANGED <<dbVars, cephVars, pc, op, kids, want, mounted, counters>>

\* What is locked is to be deleted, but for the image that the variable still holds, whose
\* lock stays.
Evaluated(p) ==
  /\ pc[p] = "evaluate" /\ todo[p] = {}
  /\ pc' = [pc EXCEPT ![p] = "pick"]
  /\ todo' = [todo EXCEPT ![p] = {i \in Images : L!Holds(p, i, "S")} \ {img[p]}]
  /\ UNCHANGED <<dbVars, cephVars, op, img, kids, want, mounted, held, counters>>

Picks(p) ==
  LET i == Greatest(todo[p]) IN
  /\ todo[p] # {} /\ Goes(p, "pick", "flatten")
  /\ img' = [img EXCEPT ![p] = i]
  /\ todo' = [todo EXCEPT ![p] = @ \ {i}]
  /\ kids' = [kids EXCEPT ![p] = Children(i)]
  /\ Swaps(p, {}, {<<i, "S+">>})
  /\ UNCHANGED <<dbVars, cephVars, op, want, mounted, counters>>

AllDeleted(p) ==
  /\ pc[p] = "pick" /\ todo[p] = {}
  /\ Over(p)
  /\ UNCHANGED <<dbVars, cephVars, counters>>

\* One of the threads that flatten the children.
FlattenChild(p) ==
  \E c \in kids[p] :
    /\ pc[p] = "flatten" /\ L!CanTake(p, c, "S") /\ row[c] = "there"
    /\ parent' = [parent EXCEPT ![c] = 0]
    /\ kids' = [kids EXCEPT ![p] = @ \ {c}]
    /\ UNCHANGED <<pc, op, img, todo, want, mounted, held, dbVars, rbd, base, content, counters>>

\* Mutant: a child without a row is waited for as long as its rbd image is there.
FlattenRaisesGone(p) ==
  /\ pc[p] = "flatten" /\ Granted(p) /\ kids[p] # {}
  /\ \A c \in kids[p] : c \notin rbd
  /\ Over(p)
  /\ UNCHANGED <<dbVars, cephVars, counters>>

\* A child without a row raises, when the threads of all the children have ended.
FlattenRaises(p) ==
  /\ pc[p] = "flatten" /\ Granted(p) /\ kids[p] # {}
  /\ \A c \in kids[p] : row[c] # "there"
  /\ Over(p)
  /\ UNCHANGED <<dbVars, cephVars, counters>>

\* The S lock goes with the object.
Flattened(p) ==
  /\ kids[p] = {} /\ Goes(p, "flatten", "delist")
  /\ Swaps(p, {<<img[p], "S">>}, {})
  /\ UNCHANGED <<dbVars, cephVars, procVars, counters>>

-----------------------------------------------------------------------------
\* An operation fails, or its process dies.  A row that was not committed is gone; the
\* rbd image that was made for it may remain.
Fails(p) ==
  /\ pc[p] # "idle" /\ faults < MaxFaults /\ faults' = faults + 1
  /\ Over(p)
  /\ IF pc[p] \in {"commit", "commitempty"}
     THEN /\ row' = [row EXCEPT ![img[p]] = "none"]
          /\ list' = [list EXCEPT ![img[p]] = {}]
          /\ rbd' \in {rbd, rbd \ {img[p]}}
          /\ parent' = [parent EXCEPT ![img[p]] = IF img[p] \in rbd' THEN @ ELSE 0]
          /\ UNCHANGED <<comment, available, base, content>>
     ELSE UNCHANGED <<dbVars, cephVars>>
  /\ UNCHANGED <<made, ops>>

Starts(p) == Build(p) \/ CreateEmpty(p) \/ Shell(p) \/ Flatten(p) \/ Tool(p)

Continues(p) ==
  \/ FindBegins(p) \/ FindsNone(p) \/ FindEnds(p) \/ NoSuchImage(p)
  \/ CloneCreates(p) \/ CloneFails(p) \/ CloneCommits(p) \/ CreateCommits(p)
  \/ Installs(p) \/ Adapts(p) \/ SnapCreate(p) \/ HasSnap(p) \/ SnapProtect(p) \/ Lists(p)
  \/ Downgrades(p) \/ Reopens(p) \/ Mounts(p) \/ Built(p)
  \/ Opens(p) \/ Refrains(p) \/ Unlists(p) \/ SetComment(p) \/ RemoveRoBase(p)
  \/ Delists(p) \/ DeleteRow(p) \/ StillListed(p) \/ Purges(p)
  \/ Evaluates(p) \/ Evaluated(p) \/ Picks(p) \/ AllDeleted(p)
  \/ FlattenChild(p) \/ FlattenRaises(p) \/ Flattened(p)

Next == \E p \in Procs : Starts(p) \/ Continues(p) \/ Fails(p)

Spec == Init /\ [][Next]_vars
FairSpec == Spec /\ \A p \in Procs : WF_vars(Continues(p))
-----------------------------------------------------------------------------
(* Properties.                                                             *)

\* A build runs in an image that holds the packages it needs, in their versions, and that
\* nobody can write to any more, even when it took an image that another build, which died
\* since, has left, or that operators have published again.
BuildEnvironment ==
  \A p \in Procs : pc[p] = "build" =>
    want[p] \subseteq content[img[p]] /\ base[img[p]] # "none"

\* What is listed as available exists, has its ro_base and holds what the database says,
\* although deleting an image, publishing it and taking it off the list are several steps
\* that use different locks.
AvailableUsable ==
  \A i \in available :
    row[i] = "there" /\ i \in rbd /\ base[i] # "none" /\ content[i] = list[i]

-----------------------------------------------------------------------------
(* Processes that wait for each other for ever.                            *)

Deadlocked(D) == D # {} /\ \A p \in D : WaitsFor(p) \cap D # {}

\* find_image has the list and wants an image that somebody has exclusively who is to
\* change the list.
FindsWhatIsListed(p, q) ==
  /\ pc[p] = "chosen" /\ pc[q] \in {"snap", "protect", "list", "unlist"}
  /\ img[p] = img[q]

\* Two tools have found the same image; one of them is deleting it.
BothDelete(p, q) ==
  /\ pc[p] \in {"flatten", "delist", "delete"} /\ ByTool(p)
  /\ pc[q] = "pick" /\ L!Holds(q, img[p], "S")

\* A tool deletes the image that another, which deletes one itself, has looked at last and
\* does not mean to delete.
LastStaysLocked(p, q) ==
  /\ pc[p] = "delete" /\ ByTool(p) /\ pc[q] = "delete" /\ ByTool(q)
  /\ L!Holds(q, img[p], "S") /\ img[p] \notin todo[q]

\* The lock protocol of images has these three ways to come to a standstill, and no other.
OnlyKnownDeadlocks ==
  \A D \in SUBSET Procs : Deadlocked(D) =>
    \E p, q \in D : FindsWhatIsListed(p, q) \/ BothDelete(p, q) \/ LastStaysLocked(p, q)

\* Everything that is started comes to an end, unless some wait for each other in one of
\* these three ways.
OperationsEnd ==
  \A p \in Procs :
    pc[p] # "idle" ~> (pc[p] = "idle" \/ \E D \in SUBSET Procs : Deadlocked(D))
=============================================================================
