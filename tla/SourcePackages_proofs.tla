------------------------ MODULE SourcePackages_proofs ------------------------
(***************************************************************************)
(* Theorems about the database of source packages, for any number of       *)
(* packages, versions and processes, and without the bounds on operations  *)
(* and faults.                                                             *)
(***************************************************************************)
EXTENDS SourcePackages, SequenceTheorems, WellFoundedInduction, TLAPS

-----------------------------------------------------------------------------
(* The inductive invariant.                                                *)

Ops == {"idle", "graph", "update", "outdate", "build"} \cup ShellOps
Places ==
  {"idle", "names", "all", "list", "look", "editor", "ask", "open", "mount", "write", "versions",
   "row", "copy", "off", "answer", "old", "on", "done"}

\* Locks are taken for longer than a step only on the list and on packages.
Kept == {List} \cup Pkgs

DataTypes ==
  /\ there \subseteq Entities /\ on \subseteq Entities /\ fixed \subseteq Entities
  /\ frozen \subseteq Packages /\ lockMade \subseteq Packages
  /\ spaces \subseteq Vers /\ spaceLocks \subseteq Vers /\ adrift \subseteq Vers
  /\ ops \in Nat /\ faults \in Nat

ProcTypes ==
  /\ op \in [Procs -> Ops] /\ pc \in [Procs -> Places]
  /\ at \in [Procs -> Paths] /\ from \in [Procs -> Paths]
  /\ todo \in [Procs -> SUBSET Packages] /\ seen \in [Procs -> SUBSET Entities]
  /\ held \in [Procs -> SUBSET (Kept \X L!Modes)]

TypeOK == DataTypes /\ ProcTypes

\* The two places of a version that is copied, before it is there and since.
Copying == {"copy", "off", "answer", "old", "on"}

\* A package is open for writing.
Opened(q) ==
  \/ pc[q] \in {"versions", "mount", "row"} \cup Copying
  \/ pc[q] = "write" /\ op[q] # "outdate"

\* An operation is at a place of its own course ...
OnCourse(q) ==
  LET is == pc[q] IN
  CASE op[q] = "idle" -> is = "idle"
    [] op[q] = "graph" -> is \in {"names", "look", "done"}
    [] op[q] = "update" -> is \in {"names", "look", "ask", "open", "versions", "done"} \cup Copying
    [] op[q] = "outdate" -> is \in {"all", "write"}
    [] op[q] = "create" -> is = "list"
    [] op[q] = "edit" -> is \in {"look", "editor", "open", "write"}
    [] op[q] = "build" -> is \in {"open", "mount", "write"}
    [] op[q] = "delete" -> is \in {"open", "versions", "row"}
    [] op[q] = "copy" -> is \in {"open", "versions", "copy"}
    [] op[q] = "destroy" -> is \in {"open", "versions", "row", "list"}
    [] op[q] \in {"add", "hold", "unhold"} -> is \in {"open", "versions"}
    [] OTHER -> is \in {"open", "write"}

\* ... and is done to what it can be done to.
OnSubject(q) ==
  /\ pc[q] \in {"idle", "names", "all", "done"} <=> at[q] = List
  /\ op[q] \in {"graph", "update"} /\ pc[q] \in {"look", "ask"} => at[q] \in Pkgs
  /\ op[q] \in {"create", "hold", "unhold"} => at[q] \in Pkgs
  /\ op[q] \in {"add", "delete", "copy", "build"} => at[q] \in Vers
  /\ op[q] = "update" /\ pc[q] \in {"open", "versions"} \cup Copying => at[q] \in Vers
  /\ op[q] = "destroy" /\ pc[q] \in {"versions", "row"} => at[q] \in Vers
  /\ op[q] = "outdate" /\ pc[q] = "write" => at[q] \in seen[q]
  /\ pc[q] \in {"idle", "names"} => seen[q] = {}
  /\ op[q] = "edit" \/ seen[q] \subseteq Vers

\* Which locks a process has, and which it does not have.
Locked(q) ==
  /\ Opened(q) => <<Pkg(at[q]), "S+">> \in held[q]
  /\ pc[q] = "row" => <<Pkg(at[q]), "X">> \in held[q]
  /\ op[q] = "outdate" /\ pc[q] = "write" => <<List, "S+">> \in held[q]
  /\ op[q] = "graph" /\ pc[q] # "names" => <<List, "S">> \in held[q]
  /\ op[q] = "update" /\ pc[q] \in {"ask", "open"} => <<Pkg(at[q]), "S">> \in held[q]
  /\ \A l \in Kept : <<l, "X">> \in held[q] => pc[q] = "row" /\ l = Pkg(at[q])
  /\ \A l \in Kept : <<l, "S">> \in held[q] =>
       op[q] = "graph" \/ (op[q] = "update" /\ ~Opened(q))
  /\ \/ pc[q] \in {"idle", "names", "all", "editor"}
     \/ op[q] # "update" /\ pc[q] = "open"
     \/ op[q] = "create"
     \/ op[q] = "edit" /\ pc[q] = "look"
     => held[q] = {}

\* What an open package lets its owner count upon.
Assured(q) ==
  /\ Opened(q) => Pkg(at[q]) \in there
  /\ pc[q] \in {"mount"} \cup Copying \/ (pc[q] = "write" /\ op[q] # "outdate") =>
       at[q] \in there
  /\ op[q] \in {"copy", "update"} /\ pc[q] = "versions" => at[q] \notin there
  /\ op[q] = "update" /\ pc[q] = "open" => at[q] \notin there
  /\ pc[q] \in Copying => at[q] \notin fixed
  /\ pc[q] = "row" => at[q] \notin spaces
  /\ Opened(q) /\ op[q] \in {"add", "delete", "copy", "update", "destroy"} =>
       at[q][1] \notin frozen

\* What was read is still so (the parts of ReadStillHolds), and there is something.
Reads(q) ==
  /\ op[q] = "graph" /\ pc[q] # "names" => seen[q] = {e \in on \cap Vers : e[1] \notin todo[q]}
  /\ op[q] = "update" /\ Updating(q) => seen[q] = Enabled(Pkg(at[q])) \ {at[q]} /\ seen[q] # {}

Local(q) == OnCourse(q) /\ OnSubject(q) /\ Locked(q) /\ Assured(q) /\ Reads(q)

\* Whoever destroys a package takes versions that are there.  When it has come to the list
\* and has the package still, there is none left, or one whose space has no lock.
Victims(q) ==
  op[q] = "destroy" =>
    /\ pc[q] = "versions" => at[q] \in there
    /\ pc[q] = "list" /\ <<Pkg(at[q]), "S+">> \in held[q] =>
         LET left == VersionsIn(Pkg(at[q]))
         IN  left = {} \/ left \cap Lockless # {}

\* Attributes belong to what is there, and versions to packages.
Rooted ==
  /\ on \subseteq there /\ fixed \subseteq there
  /\ \A e \in there \cap Vers : Pkg(e) \in there

\* A lock on one path and a lock on the other bear on each other.
Near(l, w) == IsPrefix(l, w) \/ IsPrefix(w, l)

Exclusive ==
  \A p, q \in Procs : p # q =>
    \A h \in held[p], k \in held[q] : Near(h[1], k[1]) => <<h[2], k[2]>> \in L!Compatible

IInv ==
  /\ TypeOK /\ Rooted /\ Exclusive /\ SpacesHaveVersions
  /\ \A q \in Procs : Local(q) /\ Victims(q)

-----------------------------------------------------------------------------
(* What a step does to the processes.                                      *)

Step(q) ==
  \/ Begin(q) \/ ListNames(q) \/ Look(q) \/ Edited(q) \/ Ask(q) \/ Done(q)
  \/ Open(q) \/ Mount(q) \/ MountDies(q) \/ Write(q) \/ OutdateAll(q)
  \/ CreatePackage(q) \/ AddVersion(q) \/ HoldVersions(q)
  \/ DeleteSpace(q) \/ SpaceStays(q) \/ SpaceHasNoLock(q) \/ DeleteRow(q) \/ DeletePackage(q)
  \/ CopyAttributes(q) \/ DisableNew(q) \/ Answer(q) \/ DisableOld(q) \/ EnableNew(q)
  \/ Dies(q)

Keeps(q) ==
  /\ op'[q] = op[q] /\ pc'[q] = pc[q] /\ at'[q] = at[q] /\ from'[q] = from[q]
  /\ todo'[q] = todo[q] /\ seen'[q] = seen[q] /\ held'[q] = held[q]

\* A step of p is a step of its own, and is well-typed.
Own(p) == ProcTypes' /\ \A q \in Procs : q # p => Keeps(q)

\* Nothing is left of what a process had.
Empty(q) ==
  /\ pc[q] = "idle" /\ op[q] = "idle" /\ at[q] = List
  /\ seen[q] = {} /\ held[q] = {}

\* No other process has a lock that bears on this path.
Sole(p, w) ==
  \A q \in Procs : q # p =>
    \A n \in L!Modes : <<List, n>> \notin held[q] /\ <<Pkg(w), n>> \notin held[q]

\* What the database says of it does not change, and of this package alone it does.
Still(e) ==
  /\ e \in there' <=> e \in there
  /\ e \in on' <=> e \in on
  /\ e \in fixed' <=> e \in fixed
  /\ e[1] \in frozen' <=> e[1] \in frozen

Within(w) == \A e \in Entities : Pkg(e) # Pkg(w) => Still(e)

\* All the locks that others have go together with this one.
Granted(p, w, m) ==
  \A q \in Procs : q # p =>
    \A l \in Kept, n \in L!Modes :
      <<l, n>> \in held[q] /\ (l = List \/ w = List \/ l = Pkg(w)) => <<m, n>> \in L!Compatible

-----------------------------------------------------------------------------
(* Paths and locks.                                                        *)

\* The three kinds of paths are told apart.
LEMMA Shapes ==
  /\ \A e \in Entities : e # List /\ Pkg(e) \in Pkgs /\ Pkg(e) \in Entities /\ e[1] \in Packages
  /\ \A e \in Entities : Pkg(e) # List /\ Pkg(Pkg(e)) = Pkg(e) /\ Pkg(e)[1] = e[1]
  /\ \A e \in Pkgs : Pkg(e) = e /\ e \notin Vers /\ e \in Entities
  /\ \A e \in Vers : e \notin Pkgs /\ e \in Entities /\ e = <<e[1], e[2]>> /\ e[2] \in Nat
  /\ \A e, f \in Entities : Pkg(e) = Pkg(f) <=> e[1] = f[1]
<1>1. \A e \in Vers : e = <<e[1], e[2]>> /\ e[1] \in Packages /\ e[2] \in Nat
  BY SourcePackagesAssumption
<1>2. \A e \in Vers : Len(e) = 2
  BY <1>1
<1>3. \A e \in Pkgs : Len(e) = 1 /\ e[1] \in Packages /\ e = <<e[1]>>
  BY DEF Pkgs
<1>4. Len(List) = 0
  BY DEF List
<1>5. \A e \in Entities : e[1] \in Packages /\ e # List
  BY <1>1, <1>2, <1>3, <1>4 DEF Entities
<1>6. \A e \in Entities : Pkg(e) \in Pkgs /\ Pkg(e) \in Entities
  BY <1>5 DEF Pkg, Pkgs, Entities
<1>7. \A e \in Entities : Pkg(e)[1] = e[1]
  BY DEF Pkg
<1>. QED
  BY <1>1, <1>2, <1>3, <1>4, <1>5, <1>6, <1>7 DEF Pkg, Entities

\* What a path starts with.
LEMMA Starts ==
  ASSUME NEW s \in Seq(Nat)
  PROVE  /\ SubSeq(s, 1, 0) = <<>>
         /\ Len(s) >= 1 => SubSeq(s, 1, 1) = <<s[1]>>
<1>1. SubSeq(s, 1, 0) = <<>>
  BY SubSeqEmpty
<1>2. ASSUME Len(s) >= 1 PROVE SubSeq(s, 1, 1) = <<s[1]>>
  <2>1. \A i \in 1 .. 1 : s[i] \in Nat
    BY <1>2
  <2> DEFINE t == SubSeq(s, 1, 1)
  <2>2. t \in Seq(Nat) /\ Len(t) = 1 /\ t[1] = s[1]
    BY <2>1, SubSeqProperties
  <2> HIDE DEF t
  <2>3. t = <<t[1]>>
    BY <2>2
  <2>4. t = <<s[1]>>
    BY <2>2, <2>3
  <2>. QED BY <2>4 DEF t
<1>. QED BY <1>1, <1>2

\* A lock that is kept bears on a path if it is on the list, on the path or on its
\* package, or if the path is the list.
LEMMA Nearness ==
  ASSUME NEW l \in Kept, NEW w \in Paths
  PROVE  Near(l, w) <=> l = List \/ w = List \/ l = Pkg(w)
<1>1. \A s \in Paths : /\ s \in Seq(Nat)
                       /\ s = List <=> Len(s) = 0
                       /\ s \in Pkgs => Len(s) = 1 /\ s = <<s[1]>>
                       /\ s \in Vers => Len(s) = 2
  <2> SUFFICES ASSUME NEW s \in Paths
               PROVE  /\ s \in Seq(Nat)
                      /\ s = List <=> Len(s) = 0
                      /\ s \in Pkgs => Len(s) = 1 /\ s = <<s[1]>>
                      /\ s \in Vers => Len(s) = 2
    OBVIOUS
  <2>1. CASE s = List
    <3>1. s \notin Pkgs /\ s \notin Vers
      BY <2>1, Shapes DEF Entities
    <3>. QED BY <2>1, <3>1 DEF List
  <2>2. CASE s \in Pkgs
    <3>1. PICK i \in Packages : s = <<i>>
      BY <2>2 DEF Pkgs
    <3>2. i \in Nat /\ s \notin Vers /\ s # List
      BY <2>2, Shapes, SourcePackagesAssumption
    <3>. QED BY <3>1, <3>2
  <2>3. CASE s \in Vers
    <3>1. s = <<s[1], s[2]>> /\ s[1] \in Nat /\ s[2] \in Nat
      <4>1. s[1] \in Packages /\ s = <<s[1], s[2]>> /\ s[2] \in Nat
        BY <2>3, Shapes
      <4>. QED BY <4>1, SourcePackagesAssumption
    <3>2. s \notin Pkgs /\ s # List
      BY <2>3, Shapes
    <3>3. <<s[1], s[2]>> \in Seq(Nat) /\ Len(<<s[1], s[2]>>) = 2
      BY <3>1
    <3>4. s \in Seq(Nat) /\ Len(s) = 2
      BY <3>1, <3>3, Zenon
    <3>. QED BY <3>2, <3>4
  <2>. QED BY <2>1, <2>2, <2>3 DEF Paths, Entities
<1>2. l \in Paths
  BY DEF Kept, Paths, Entities
<1>3. ASSUME NEW s \in Paths PROVE IsPrefix(List, s)
  <2>1. Len(List) = 0 /\ SubSeq(List, 1, 0) = <<>>
    BY Starts DEF List
  <2>2. Len(s) \in Nat /\ SubSeq(s, 1, 0) = <<>>
    BY <1>1, <1>3, Starts
  <2>. QED BY <2>1, <2>2 DEF IsPrefix
<1>4. CASE l = List \/ w = List
  BY <1>2, <1>3, <1>4 DEF Near
<1>5. CASE l # List /\ w # List
  <2>1. l \in Pkgs /\ Len(l) = 1 /\ l = <<l[1]>>
    BY <1>1, <1>2, <1>5 DEF Kept
  <2>2. w \in Entities /\ Len(w) \in Nat /\ Len(w) >= 1 /\ Len(w) # 0
    BY <1>1, <1>5 DEF Paths, Entities
  <2>3. SubSeq(l, 1, 1) = l /\ SubSeq(w, 1, 1) = Pkg(w)
    BY <1>1, <1>2, <2>1, <2>2, Starts DEF Pkg
  <2>4. IsPrefix(l, w) <=> l = Pkg(w)
    BY <2>1, <2>2, <2>3 DEF IsPrefix
  <2>5. IsPrefix(w, l) => l = Pkg(w)
    BY <2>1, <2>2, <2>3 DEF IsPrefix
  <2>. QED BY <1>5, <2>4, <2>5 DEF Near
<1>. QED BY <1>4, <1>5

\* There is a newest one among some versions.
LEMMA NewestIsOne ==
  ASSUME NEW S \in SUBSET Vers, S # {}
  PROVE  Newest(S) \in S
<1>1. \E e \in S : \A f \in S : f[2] <= e[2]
  BY SourcePackagesAssumption
<1>. QED BY <1>1 DEF Newest

\* Some numbers have a least one.
LEMMA LeastIsOne ==
  ASSUME NEW S \in SUBSET Nat, S # {}
  PROVE  \E n \in S : \A k \in S : n <= k
<1> DEFINE R == OpToRel(<, Nat)
<1>1. PICK x \in S : \A y \in S : <<y, x>> \notin R
  <2> HIDE DEF R
  <2>1. IsWellFoundedOn(R, Nat)
    BY NatLessThanWellFounded DEF R
  <2>. QED BY <2>1, WFMin
<1>2. \A y \in S : ~(y < x)
  BY <1>1 DEF OpToRel
<1>3. \A y \in S : x <= y
  BY <1>2
<1>. QED BY <1>3

\* The first of some packages is one of them.
LEMMA MinIsOne ==
  ASSUME NEW S \in SUBSET Packages, S # {}
  PROVE  Min(S) \in S
<1>1. S \subseteq Nat
  BY SourcePackagesAssumption
<1>2. \E n \in S : \A k \in S : n <= k
  BY <1>1, LeastIsOne
<1>. QED BY <1>2 DEF Min

\* Each package that may have versions may have a first one.
LEMMA FirstOfEach ==
  ASSUME NEW e \in Vers
  PROVE  (CHOOSE f \in First : f[1] = e[1]) \in Vers
<1> DEFINE N == {n \in Nat : <<e[1], n>> \in Vers}
<1>1. e = <<e[1], e[2]>> /\ e[2] \in Nat
  BY SourcePackagesAssumption
<1>2. e[2] \in N
  BY <1>1
<1>3. PICK n \in N : \A k \in N : n <= k
  <2>1. N \in SUBSET Nat /\ N # {}
    BY <1>2
  <2>. HIDE DEF N
  <2>. QED BY <2>1, LeastIsOne
<1>4. <<e[1], n>> \in Vers
  BY <1>3
<1>5. ASSUME NEW f \in Vers, f[1] = e[1] PROVE n <= f[2]
  <2>1. f = <<f[1], f[2]>> /\ f[2] \in Nat
    BY SourcePackagesAssumption
  <2>2. f[2] \in N
    BY <1>5, <2>1
  <2>. QED BY <2>2, <1>3
<1>6. <<e[1], n>> \in First
  BY <1>4, <1>5 DEF First
<1>7. \E f \in First : f[1] = e[1]
  BY <1>6
<1>. QED BY <1>7 DEF First

\* Where a process may be.
LEMMA OverIsOwn ==
  ASSUME TypeOK, NEW p \in Procs, Over(p)
  PROVE  Own(p) /\ Empty(p)'
<1>1. ProcTypes'
  BY DEF TypeOK, ProcTypes, Over, Goes, Ops, Places, Paths
<1>2. \A q \in Procs : q # p => Keeps(q)
  BY DEF TypeOK, ProcTypes, Over, Goes, Keeps
<1>3. Empty(p)'
  BY DEF TypeOK, ProcTypes, Over, Goes, Empty
<1>. QED BY <1>1, <1>2, <1>3 DEF Own

\* What going on to the next package does.
LEMMA ContinueIsOwn ==
  ASSUME TypeOK, NEW p \in Procs, NEW rest \in SUBSET Packages, Continue(p, rest)
  PROVE  /\ todo' \in [Procs -> SUBSET Packages] /\ at' \in [Procs -> Paths]
         /\ pc' \in [Procs -> Places]
         /\ \A q \in Procs : q # p =>
              todo'[q] = todo[q] /\ at'[q] = at[q] /\ pc'[q] = pc[q]
         /\ todo'[p] = rest
         /\ \/ pc'[p] = "done" /\ at'[p] = List
            \/ pc'[p] = "look" /\ at'[p] \in Pkgs
<1>1. rest # {} => <<Min(rest)>> \in Pkgs
  BY MinIsOne DEF Pkgs
<1> DEFINE a == IF rest = {} THEN List ELSE <<Min(rest)>>
           c == IF rest = {} THEN "done" ELSE "look"
<1>2. a \in Paths /\ c \in Places /\ ((c = "done" /\ a = List) \/ (c = "look" /\ a \in Pkgs))
  <2>1. CASE rest = {}
    <3>1. a = List /\ c = "done"
      BY <2>1
    <3>. HIDE DEF a, c
    <3>. QED BY <3>1 DEF Paths, Places
  <2>2. CASE rest # {}
    <3>1. a \in Pkgs /\ c = "look"
      BY <1>1, <2>2
    <3>. HIDE DEF a, c
    <3>. QED BY <3>1 DEF Paths, Entities, Places
  <2>. QED BY <2>1, <2>2
<1>3. at' = [at EXCEPT ![p] = a] /\ pc' = [pc EXCEPT ![p] = c]
      /\ todo' = [todo EXCEPT ![p] = rest]
  BY DEF Continue, Goes
<1>. HIDE DEF a, c
<1>. QED BY <1>2, <1>3 DEF TypeOK, ProcTypes

\* What an operation starts with is well-typed.
LEMMA Starting ==
  ASSUME NEW o \in Ops \ {"idle"}, NEW e \in Subjects(o)
  PROVE  /\ FirstStep(o) \in Places /\ e \in Paths
         /\ (IF o = "copy" THEN CHOOSE f \in First : f[1] = e[1] ELSE List) \in Paths
<1>1. FirstStep(o) \in Places
  BY DEF FirstStep, Places
<1>2. e \in Paths
  BY DEF Subjects, Paths, Entities
<1>3. CASE o = "copy"
  <2>1. e \in Vers
    BY <1>3 DEF Subjects
  <2>2. (CHOOSE f \in First : f[1] = e[1]) \in Vers
    BY <2>1, FirstOfEach
  <2>. QED BY <1>1, <1>2, <1>3, <2>2 DEF Paths, Entities
<1>4. CASE o # "copy"
  BY <1>1, <1>2, <1>4 DEF Paths
<1>. QED BY <1>3, <1>4

\* An operation is one of those that there are.
LEMMA DoesOps ==
  ASSUME NEW p \in Procs, NEW o \in Does(p)
  PROVE  o \in Ops \ {"idle"}
BY DEF Does, Ops, ShellOps, Procs

\* A process starts an operation.
LEMMA BeginIsOwn ==
  ASSUME TypeOK, NEW p \in Procs, Begin(p)
  PROVE  /\ Own(p)
         /\ \E o \in Does(p) : \E e \in Subjects(o) :
              /\ op'[p] = o /\ pc'[p] = FirstStep(o) /\ at'[p] = e
              /\ seen'[p] = seen[p] /\ held'[p] = held[p]
<1>0. PICK o \in Does(p) : \E e \in Subjects(o) :
        /\ op' = [op EXCEPT ![p] = o]
        /\ pc' = [pc EXCEPT ![p] = FirstStep(o)]
        /\ at' = [at EXCEPT ![p] = e]
        /\ from' = [from EXCEPT ![p] =
             IF o = "copy" THEN CHOOSE f \in First : f[1] = e[1] ELSE List]
  BY DEF Begin, Goes
<1>1. PICK e \in Subjects(o) :
        /\ op' = [op EXCEPT ![p] = o]
        /\ pc' = [pc EXCEPT ![p] = FirstStep(o)]
        /\ at' = [at EXCEPT ![p] = e]
        /\ from' = [from EXCEPT ![p] =
             IF o = "copy" THEN CHOOSE f \in First : f[1] = e[1] ELSE List]
  BY <1>0
<1>2. o \in Ops \ {"idle"}
  BY DoesOps
<1> DEFINE s == IF o = "copy" THEN CHOOSE f \in First : f[1] = e[1] ELSE List
<1>3. FirstStep(o) \in Places /\ e \in Paths /\ s \in Paths
  BY <1>2, Starting
<1>4. from' = [from EXCEPT ![p] = s]
  BY <1>1
<1>5. UNCHANGED <<todo, seen, held>>
  BY DEF Begin
<1>. HIDE DEF s
<1>6. ProcTypes'
  BY <1>1, <1>2, <1>3, <1>4, <1>5 DEF TypeOK, ProcTypes
<1>7. \A q \in Procs : q # p => Keeps(q)
  BY <1>1, <1>2, <1>3, <1>4, <1>5 DEF TypeOK, ProcTypes, Keeps
<1>8. op'[p] = o /\ pc'[p] = FirstStep(o) /\ at'[p] = e
      /\ seen'[p] = seen[p] /\ held'[p] = held[p]
  BY <1>1, <1>5 DEF TypeOK, ProcTypes
<1>. QED BY <1>6, <1>7, <1>8 DEF Own

\* The versions of a package, and the newest of those that were read.
LEMMA VersionsAre ==
  ASSUME TypeOK, NEW e \in Entities
  PROVE  /\ VersionsIn(Pkg(e)) \subseteq Vers /\ VersionsIn(Pkg(e)) \subseteq there
         /\ \A f \in VersionsIn(Pkg(e)) : Pkg(f) = Pkg(e)
BY DEF VersionsIn

\* Removing locks, and adding one on the list or on a package.
LEMMA TradeTypes ==
  ASSUME TypeOK, NEW p \in Procs, NEW old, NEW new \in SUBSET (Kept \X L!Modes),
         held' = L!Trades(p, old, new)
  PROVE  /\ held' \in [Procs -> SUBSET (Kept \X L!Modes)]
         /\ \A q \in Procs : q # p => held'[q] = held[q]
         /\ held'[p] = (held[p] \ old) \cup new
<1>1. held \in [Procs -> SUBSET (Kept \X L!Modes)]
  BY DEF TypeOK, ProcTypes
<1>2. held' = [held EXCEPT ![p] = (held[p] \ old) \cup new]
  BY DEF L!Trades
<1>. QED BY <1>1, <1>2

\* The locks that there are.
LEMMA LockTypes ==
  /\ \A m \in {"S", "S+", "X"} : {<<List, m>>} \in SUBSET (Kept \X L!Modes)
  /\ \A m \in {"S", "S+", "X"} : \A e \in Entities :
       {<<Pkg(e), m>>} \in SUBSET (Kept \X L!Modes)
BY Shapes DEF Kept, L!Modes

\* The build master or the script gets the names of the packages.
LEMMA ListNamesIsOwn ==
  ASSUME TypeOK, NEW p \in Procs, ListNames(p)
  PROVE  Own(p)
<1> DEFINE rest == {o \in Packages : <<o>> \in there}
<1>1. Continue(p, rest) /\ rest \in SUBSET Packages
  BY DEF ListNames
<1>. HIDE DEF rest
<1>2. /\ todo' \in [Procs -> SUBSET Packages] /\ at' \in [Procs -> Paths]
      /\ pc' \in [Procs -> Places]
      /\ \A q \in Procs : q # p =>
           todo'[q] = todo[q] /\ at'[q] = at[q] /\ pc'[q] = pc[q]
  BY <1>1, ContinueIsOwn
<1>3. held' \in [Procs -> SUBSET (Kept \X L!Modes)]
      /\ \A q \in Procs : q # p => held'[q] = held[q]
  <2>1. CASE op[p] = "graph"
    <3>1. held' = L!Trades(p, {}, {<<List, "S">>})
      BY <2>1 DEF ListNames
    <3>. QED BY <3>1, LockTypes, TradeTypes
  <2>2. CASE op[p] # "graph"
    BY <2>2 DEF ListNames, TypeOK, ProcTypes
  <2>. QED BY <2>1, <2>2
<1>4. UNCHANGED <<op, from, seen>>
  BY DEF ListNames
<1>. QED BY <1>2, <1>3, <1>4 DEF Own, Keeps, TypeOK, ProcTypes

\* A process looks at a package.
LEMMA LookIsOwn ==
  ASSUME TypeOK, NEW p \in Procs, Look(p), OnSubject(p), OnCourse(p)
  PROVE  Own(p)
<1>1. pc[p] = "look"
  BY DEF Look, Gets
<1>2. at[p] \in Entities
  BY <1>1 DEF OnSubject, TypeOK, ProcTypes, Paths
<1> DEFINE rest == todo[p] \ {at[p][1]}
<1>3. rest \in SUBSET Packages
  BY DEF TypeOK, ProcTypes
<1>4. Enabled(at[p]) \subseteq Entities
  BY DEF Enabled, VersionsIn, Entities
<1>. HIDE DEF rest
<1>5. CASE Over(p)
  BY <1>5, OverIsOwn
<1>6. CASE op[p] = "graph" /\ ~Over(p)
  <2>1. LookForGraph(p) /\ ~Over(p)
    BY <1>6 DEF Look
  <2>2. Continue(p, rest) /\ seen' = [seen EXCEPT ![p] = @ \cup Enabled(at[p])]
        /\ UNCHANGED <<op, from, held>>
    BY <2>1 DEF LookForGraph, rest
  <2>3. /\ todo' \in [Procs -> SUBSET Packages] /\ at' \in [Procs -> Paths]
        /\ pc' \in [Procs -> Places]
        /\ \A q \in Procs : q # p =>
             todo'[q] = todo[q] /\ at'[q] = at[q] /\ pc'[q] = pc[q]
    BY <1>3, <2>2, ContinueIsOwn
  <2>. QED BY <1>4, <2>2, <2>3 DEF Own, Keeps, TypeOK, ProcTypes
<1>7. CASE op[p] = "update" /\ ~Over(p)
  <2>1. LookForUpdate(p)
    BY <1>6, <1>7 DEF Look
  <2>2. at[p] = Pkg(at[p])
    BY <1>1, <1>7, Shapes DEF OnSubject
  <2>3. held' = L!Trades(p, SpLocks(p), {<<Pkg(at[p]), "S">>})
        /\ seen' = [seen EXCEPT ![p] = Enabled(at[p])] /\ UNCHANGED <<op, from>>
    BY <2>1, <2>2 DEF LookForUpdate
  <2>4. /\ held' \in [Procs -> SUBSET (Kept \X L!Modes)]
        /\ \A q \in Procs : q # p => held'[q] = held[q]
    <3> DEFINE new == {<<Pkg(at[p]), "S">>}
    <3>1. new \in SUBSET (Kept \X L!Modes) /\ held' = L!Trades(p, SpLocks(p), new)
      BY <1>2, <2>3, LockTypes
    <3>. HIDE DEF new
    <3>. QED BY <3>1, TradeTypes
  <2>5. CASE Enabled(at[p]) = {}
    <3>1. Continue(p, rest)
      BY <2>1, <2>5 DEF LookForUpdate, rest
    <3>2. /\ todo' \in [Procs -> SUBSET Packages] /\ at' \in [Procs -> Paths]
          /\ pc' \in [Procs -> Places]
          /\ \A q \in Procs : q # p =>
               todo'[q] = todo[q] /\ at'[q] = at[q] /\ pc'[q] = pc[q]
      BY <1>3, <3>1, ContinueIsOwn
    <3>. QED BY <1>4, <2>3, <2>4, <3>2 DEF Own, Keeps, TypeOK, ProcTypes
  <2>6. CASE Enabled(at[p]) # {}
    <3>1. pc' = [pc EXCEPT ![p] = "ask"] /\ UNCHANGED <<at, todo>>
      BY <2>1, <2>6 DEF LookForUpdate, Goes
    <3>2. "ask" \in Places
      BY DEF Places
    <3>. QED BY <1>4, <2>3, <2>4, <3>1, <3>2 DEF Own, Keeps, TypeOK, ProcTypes
  <2>. QED BY <2>5, <2>6
<1>8. CASE op[p] = "edit" /\ ~Over(p)
  <2>1. LookForEdit(p) /\ ~Over(p)
    BY <1>8 DEF Look
  <2>2. seen' = [seen EXCEPT ![p] = {at[p]} \cap on] /\ pc' = [pc EXCEPT ![p] = "editor"]
        /\ UNCHANGED <<op, at, from, todo, held>>
    BY <2>1 DEF LookForEdit, Goes
  <2>3. "editor" \in Places /\ {at[p]} \cap on \in SUBSET Entities
    BY <1>2 DEF Places
  <2>. QED BY <2>2, <2>3 DEF Own, Keeps, TypeOK, ProcTypes
<1>. QED BY <1>1, <1>5, <1>6, <1>7, <1>8 DEF OnCourse

\* The script has found a new version.
LEMMA AskIsOwn ==
  ASSUME TypeOK, NEW p \in Procs, Ask(p), OnSubject(p), OnCourse(p), Reads(p)
  PROVE  Own(p)
<1>1. pc[p] = "ask"
  BY DEF Ask
<1>2. op[p] = "update" /\ at[p] \in Pkgs
  BY <1>1 DEF OnCourse, OnSubject
<1>3. seen[p] \subseteq VersionsIn(at[p]) /\ seen[p] # {}
  <2>1. seen[p] = Enabled(Pkg(at[p])) \ {at[p]} /\ seen[p] # {}
    BY <1>1, <1>2 DEF Reads, Updating
  <2>2. Pkg(at[p]) = at[p]
    BY <1>2, Shapes
  <2>. QED BY <2>1, <2>2 DEF Enabled
<1>4. VersionsIn(at[p]) \in SUBSET Vers /\ VersionsIn(at[p]) # {} /\ seen[p] \in SUBSET Vers
  BY <1>3 DEF VersionsIn
<1>5. Newest(seen[p]) \in Paths /\ Newest(VersionsIn(at[p])) \in Paths
  <2>1. Newest(seen[p]) \in seen[p]
    BY <1>3, <1>4, NewestIsOne
  <2>2. Newest(VersionsIn(at[p])) \in VersionsIn(at[p])
    BY <1>4, NewestIsOne
  <2>. QED BY <1>4, <2>1, <2>2 DEF Paths, Entities
<1> DEFINE rest == todo[p] \ {at[p][1]}
<1>6. rest \in SUBSET Packages
  BY DEF TypeOK, ProcTypes
<1>. HIDE DEF rest
<1>7. CASE Over(p)
  BY <1>7, OverIsOwn
<1>8. CASE Continue(p, rest) /\ UNCHANGED <<op, from, seen, held>>
  <2>1. /\ todo' \in [Procs -> SUBSET Packages] /\ at' \in [Procs -> Paths]
        /\ pc' \in [Procs -> Places]
        /\ \A q \in Procs : q # p =>
             todo'[q] = todo[q] /\ at'[q] = at[q] /\ pc'[q] = pc[q]
    BY <1>6, <1>8, ContinueIsOwn
  <2>. QED BY <1>8, <2>1 DEF Own, Keeps, TypeOK, ProcTypes
<1>9. ASSUME NEW v \in Vers, NEW s \in {Newest(seen[p]), Newest(VersionsIn(at[p]))},
             at' = [at EXCEPT ![p] = v], from' = [from EXCEPT ![p] = s],
             held' = [held EXCEPT ![p] = KeptForUpgrade(p)], Goes(p, "open"),
             UNCHANGED <<op, todo, seen>>
      PROVE  Own(p)
  <2>1. v \in Paths /\ s \in Paths /\ "open" \in Places
    BY <1>5, <1>9 DEF Paths, Entities, Places
  <2>2. held' = held
    BY <1>9 DEF KeptForUpgrade, TypeOK, ProcTypes
  <2>. QED BY <1>9, <2>1, <2>2 DEF Own, Keeps, TypeOK, ProcTypes, Goes
<1>. QED BY <1>7, <1>8, <1>9 DEF Ask, rest

\* What a process has after it has gone on with what it does, and which locks.
Moved(p, c, a) ==
  /\ pc'[p] = c /\ at'[p] = a /\ op'[p] = op[p] /\ seen'[p] = seen[p] /\ todo'[p] = todo[p]

\* A process goes on.
LEMMA GoesIsOwn ==
  ASSUME TypeOK, NEW p \in Procs, NEW c \in Places, Goes(p, c), UNCHANGED <<op, at, plan, held>>
  PROVE  Own(p) /\ Moved(p, c, at[p]) /\ held'[p] = held[p]
<1>1. pc' = [pc EXCEPT ![p] = c]
  BY DEF Goes
<1>. QED BY <1>1 DEF Own, Keeps, Moved, plan, TypeOK, ProcTypes

\* A process goes on and trades locks, and where it is then.
MovesTrading(p, c, a, old, new) ==
  /\ Goes(p, c) /\ UNCHANGED <<op, plan>>
  /\ at' = [at EXCEPT ![p] = a] /\ held' = L!Trades(p, old, new)

MovedTrading(p, c, a, old, new) ==
  /\ Moved(p, c, a)
  /\ held'[p] = (held[p] \ old) \cup new

\* A process goes on and trades locks.
LEMMA GoesAndTrades ==
  ASSUME TypeOK, NEW p \in Procs, NEW c \in Places, NEW a \in Paths,
         NEW old, NEW new \in SUBSET (Kept \X L!Modes), MovesTrading(p, c, a, old, new)
  PROVE  Own(p) /\ MovedTrading(p, c, a, old, new)
<1>1. pc' = [pc EXCEPT ![p] = c] /\ at' = [at EXCEPT ![p] = a] /\ UNCHANGED <<op, plan>>
  BY DEF MovesTrading, Goes
<1>2. held' = L!Trades(p, old, new)
  BY DEF MovesTrading
<1>3. /\ held' \in [Procs -> SUBSET (Kept \X L!Modes)]
      /\ \A q \in Procs : q # p => held'[q] = held[q]
      /\ held'[p] = (held[p] \ old) \cup new
  BY <1>2, TradeTypes
<1>. QED BY <1>1, <1>3 DEF Own, Keeps, Moved, plan, TypeOK, ProcTypes, MovedTrading

\* The next version of a package that is destroyed, if it has one left.
LEMMA NextVictimIs ==
  ASSUME TypeOK, NEW p \in Procs, NEW left \in SUBSET Vers, NextVictim(p, left)
  PROVE  \/ left = {} /\ Goes(p, "list") /\ at' = [at EXCEPT ![p] = at[p]]
         \/ \E e \in left : Goes(p, "versions") /\ at' = [at EXCEPT ![p] = e]
BY DEF NextVictim, TypeOK, ProcTypes

\* The place that a process comes to when it has opened a package.
LEMMA AfterOpenIs ==
  ASSUME NEW o \in Ops
  PROVE  AfterOpen(o) \in {"versions", "mount", "write"} /\ AfterOpen(o) \in Places
BY DEF AfterOpen, Places

\* How a package is opened.
Opening(p, c, a) ==
  /\ Moved(p, c, a)
  /\ held'[p] = (held[p] \ (SpLocks(p) \cup Sp2Locks(p))) \cup {<<Pkg(at[p]), "S+">>}

\* A package is opened, or it is refused, or has no lock.
LEMMA OpenIsOwn ==
  ASSUME TypeOK, NEW p \in Procs, Open(p), OnSubject(p), OnCourse(p)
  PROVE  /\ Own(p)
         /\ \/ Empty(p)'
            \/ /\ Opens(p) /\ ~Refused(p)
               /\ \/ /\ op[p] # "destroy" /\ Opening(p, AfterOpen(op[p]), at[p])
                  \/ /\ op[p] = "destroy"
                     /\ \/ VersionsIn(Pkg(at[p])) = {} /\ Opening(p, "list", at[p])
                        \/ \E e \in VersionsIn(Pkg(at[p])) : Opening(p, "versions", e)
            \/ op[p] = "destroy" /\ Moved(p, "list", at[p]) /\ held'[p] = held[p]
<1>1. pc[p] = "open"
  BY DEF Open, Gets
<1>2. at[p] \in Entities /\ op[p] \in Ops
  BY <1>1 DEF OnSubject, TypeOK, ProcTypes, Paths
<1>3. {"list", "versions"} \subseteq Places /\ at[p] \in Paths
  BY DEF Places, TypeOK, ProcTypes
<1> DEFINE old == SpLocks(p) \cup Sp2Locks(p)
           new == {<<Pkg(at[p]), "S+">>}
<1>4. new \in SUBSET (Kept \X L!Modes)
  BY <1>2, LockTypes
<1>. HIDE DEF old, new
<1>5. CASE Over(p)
  BY <1>5, OverIsOwn
<1>6. CASE ~Over(p) /\ Opens(p)
  <2>1. held' = L!Trades(p, old, new) /\ UNCHANGED <<op, plan>> /\ ~Refused(p)
    BY <1>6 DEF Open, old, new
  <2>2. CASE op[p] # "destroy"
    <3>1. Goes(p, AfterOpen(op[p])) /\ at' = [at EXCEPT ![p] = at[p]]
      BY <1>6, <2>2 DEF Open, TypeOK, ProcTypes
    <3>2. MovesTrading(p, AfterOpen(op[p]), at[p], old, new)
      BY <2>1, <3>1 DEF MovesTrading
    <3>3. AfterOpen(op[p]) \in Places
      BY <1>2, AfterOpenIs
    <3>4. Own(p) /\ MovedTrading(p, AfterOpen(op[p]), at[p], old, new)
      BY <1>3, <1>4, <3>2, <3>3, GoesAndTrades
    <3>. QED BY <1>6, <2>1, <2>2, <3>4 DEF Opening, MovedTrading, old, new
  <2>3. CASE op[p] = "destroy"
    <3> DEFINE left == VersionsIn(Pkg(at[p]))
    <3>1. left \in SUBSET Vers /\ NextVictim(p, left)
      BY <1>2, <1>6, <2>3, VersionsAre DEF Open
    <3>. HIDE DEF left
    <3>2. CASE left = {} /\ Goes(p, "list") /\ at' = [at EXCEPT ![p] = at[p]]
      <4>1. MovesTrading(p, "list", at[p], old, new)
        BY <2>1, <3>2 DEF MovesTrading
      <4>2. Own(p) /\ MovedTrading(p, "list", at[p], old, new)
        BY <1>3, <1>4, <4>1, GoesAndTrades
      <4>. QED BY <1>6, <2>1, <2>3, <3>2, <4>2 DEF Opening, MovedTrading, old, new, left
    <3>3. ASSUME NEW e \in left, Goes(p, "versions"), at' = [at EXCEPT ![p] = e]
          PROVE  Own(p) /\ Opening(p, "versions", e)
      <4>1. e \in Paths
        BY <3>1 DEF Paths, Entities
      <4>2. MovesTrading(p, "versions", e, old, new)
        BY <2>1, <3>3 DEF MovesTrading
      <4>3. Own(p) /\ MovedTrading(p, "versions", e, old, new)
        BY <1>3, <1>4, <4>1, <4>2, GoesAndTrades
      <4>. QED BY <4>3 DEF Opening, MovedTrading, old, new
    <3>4. \/ left = {} /\ Goes(p, "list") /\ at' = [at EXCEPT ![p] = at[p]]
          \/ \E e \in left : Goes(p, "versions") /\ at' = [at EXCEPT ![p] = e]
      BY <3>1, NextVictimIs
    <3>. QED BY <1>6, <2>1, <2>3, <3>2, <3>3, <3>4 DEF left
  <2>. QED BY <2>2, <2>3
<1>7. CASE ~Over(p) /\ ~Opens(p)
  <2>1. op[p] = "destroy" /\ Goes(p, "list") /\ UNCHANGED <<op, at, plan, held>>
    BY <1>7 DEF Open
  <2>2. Own(p) /\ Moved(p, "list", at[p]) /\ held'[p] = held[p]
    BY <1>3, <2>1, GoesIsOwn
  <2>. QED BY <2>1, <2>2
<1>. QED BY <1>5, <1>6, <1>7

\* A process has come to the next package or is done.
Continued(p, rest) ==
  /\ op'[p] = op[p] /\ seen'[p] = seen[p] /\ held'[p] = held[p] /\ todo'[p] = rest
  /\ \/ pc'[p] = "done" /\ at'[p] = List
     \/ pc'[p] = "look" /\ at'[p] \in Pkgs

\* The script comes to the next package, and keeps its locks.
LEMMA ContinuesIsOwn ==
  ASSUME TypeOK, NEW p \in Procs, NEW rest \in SUBSET Packages, Continue(p, rest),
         UNCHANGED <<op, from, seen, held>>
  PROVE  Own(p) /\ Continued(p, rest)
<1>1. /\ todo' \in [Procs -> SUBSET Packages] /\ at' \in [Procs -> Paths]
      /\ pc' \in [Procs -> Places]
      /\ \A q \in Procs : q # p =>
           todo'[q] = todo[q] /\ at'[q] = at[q] /\ pc'[q] = pc[q]
      /\ todo'[p] = rest
      /\ \/ pc'[p] = "done" /\ at'[p] = List
         \/ pc'[p] = "look" /\ at'[p] \in Pkgs
  BY ContinueIsOwn
<1>. QED BY <1>1 DEF Own, Keeps, Continued, TypeOK, ProcTypes

\* The next of the versions that are outdated.
Outdating(p) ==
  /\ op'[p] = op[p] /\ pc'[p] = "write" /\ at'[p] \in seen'[p]
  /\ seen'[p] \subseteq Vers

\* A version is written to; more follow if all are outdated.
LEMMA WriteIsOwn ==
  ASSUME TypeOK, NEW p \in Procs, Write(p), OnSubject(p)
  PROVE  /\ Own(p)
         /\ \/ Empty(p)'
            \/ op[p] = "outdate" /\ Outdating(p) /\ held'[p] = held[p]
<1>1. CASE Over(p)
  BY <1>1, OverIsOwn
<1>2. CASE ~Over(p)
  <2> DEFINE left == seen[p] \ {at[p]}
             a == CHOOSE e \in left : TRUE
  <2>1. op[p] = "outdate" /\ pc[p] = "write" /\ seen[p] # {at[p]}
    BY <1>2 DEF Write, Gets
  <2>2. at[p] \in seen[p] /\ seen[p] \subseteq Vers
    BY <2>1 DEF OnSubject
  <2>3. left # {} /\ left \subseteq Vers
    BY <2>1, <2>2
  <2>4. a \in left
    BY <2>3
  <2>5. seen' = [seen EXCEPT ![p] = left] /\ UNCHANGED <<op, pc, from, todo, held>>
        /\ at' = [at EXCEPT ![p] = CHOOSE e \in seen'[p] : TRUE]
    BY <1>2, <2>1 DEF Write
  <2>6. seen'[p] = left
    BY <2>5 DEF TypeOK, ProcTypes
  <2>7. at' = [at EXCEPT ![p] = a]
    BY <2>5, <2>6
  <2>. HIDE DEF left, a
  <2>8. left \in SUBSET Entities /\ a \in Paths
    BY <2>3, <2>4 DEF Entities, Paths
  <2>9. Own(p)
    BY <2>5, <2>7, <2>8 DEF Own, Keeps, TypeOK, ProcTypes
  <2>10. Outdating(p) /\ held'[p] = held[p]
    BY <2>1, <2>3, <2>4, <2>5, <2>6, <2>7 DEF Outdating, TypeOK, ProcTypes
  <2>. QED BY <2>1, <2>9, <2>10
<1>. QED BY <1>1, <1>2

\* All versions that are enabled are going to be outdated.
LEMMA OutdateAllIsOwn ==
  ASSUME TypeOK, NEW p \in Procs, OutdateAll(p)
  PROVE  /\ Own(p)
         /\ \/ Empty(p)'
            \/ Outdating(p) /\ held'[p] = held[p] \cup {<<List, "S+">>}
<1>1. CASE Over(p)
  BY <1>1, OverIsOwn
<1>2. CASE ~Over(p)
  <2> DEFINE all == on \cap Vers
             a == CHOOSE e \in all : TRUE
  <2>1. /\ all # {}
        /\ held' = L!Trades(p, {}, {<<List, "S+">>})
        /\ seen' = [seen EXCEPT ![p] = all]
        /\ at' = [at EXCEPT ![p] = a]
        /\ pc' = [pc EXCEPT ![p] = "write"]
        /\ UNCHANGED <<op, from, todo>>
    BY <1>2 DEF OutdateAll, Goes
  <2>2. a \in all /\ all \subseteq Vers
    BY <2>1
  <2>. HIDE DEF all, a
  <2>3. /\ held' \in [Procs -> SUBSET (Kept \X L!Modes)]
        /\ \A q \in Procs : q # p => held'[q] = held[q]
        /\ held'[p] = (held[p] \ {}) \cup {<<List, "S+">>}
    <3> DEFINE new == {<<List, "S+">>}
    <3>1. new \in SUBSET (Kept \X L!Modes) /\ held' = L!Trades(p, {}, new)
      BY <2>1, LockTypes
    <3>. HIDE DEF new
    <3>2. /\ held' \in [Procs -> SUBSET (Kept \X L!Modes)]
          /\ \A q \in Procs : q # p => held'[q] = held[q]
          /\ held'[p] = (held[p] \ {}) \cup new
      BY <3>1, TradeTypes
    <3>. QED BY <3>2 DEF new
  <2>4. all \in SUBSET Entities /\ a \in Paths /\ "write" \in Places
    BY <2>2 DEF Entities, Paths, Places
  <2>5. Own(p)
    BY <2>1, <2>3, <2>4 DEF Own, Keeps, TypeOK, ProcTypes
  <2>6. Outdating(p)
    BY <2>1, <2>2 DEF Outdating, TypeOK, ProcTypes
  <2>. QED BY <2>3, <2>5, <2>6
<1>. QED BY <1>1, <1>2

\* The row of a version is deleted, and then perhaps that of the next one.
LEMMA DeleteRowIsOwn ==
  ASSUME TypeOK, NEW p \in Procs, DeleteRow(p), OnSubject(p), OnCourse(p)
  PROVE  /\ Own(p) /\ at[p] \in Vers /\ op[p] \in {"delete", "destroy"}
         /\ \/ Empty(p)'
            \/ /\ op[p] = "destroy" /\ held'[p] = held[p] \ {<<Pkg(at[p]), "X">>}
               /\ \/ Moved(p, "list", at[p]) /\ VersionsIn(Pkg(at[p])) \ {at[p]} = {}
                  \/ \E e \in VersionsIn(Pkg(at[p])) \ {at[p]} : Moved(p, "versions", e)
<1>1. pc[p] = "row"
  BY DEF DeleteRow
<1>2. op[p] \in {"delete", "destroy"} /\ at[p] \in Vers
  <2>1. op[p] \in {"delete", "destroy"}
    BY <1>1 DEF OnCourse, Copying
  <2>. QED BY <1>1, <2>1 DEF OnSubject
<1>3. CASE Over(p)
  BY <1>2, <1>3, OverIsOwn
<1>4. CASE ~Over(p)
  <2> DEFINE left == VersionsIn(Pkg(at[p])) \ {at[p]}
             old == {<<Pkg(at[p]), "X">>}
  <2>1. at[p] \in Entities
    BY <1>2 DEF Entities
  <2>2. left \in SUBSET Vers
    BY <2>1, VersionsAre
  <2>3. /\ op[p] = "destroy" /\ NextVictim(p, left)
        /\ held' = L!Trades(p, old, {}) /\ UNCHANGED <<op, plan>>
    BY <1>2, <1>4 DEF DeleteRow
  <2>4. {"list", "versions"} \subseteq Places /\ at[p] \in Paths
        /\ {} \in SUBSET (Kept \X L!Modes)
    BY DEF Places, TypeOK, ProcTypes
  <2>. HIDE DEF left, old
  <2>5. CASE left = {} /\ Goes(p, "list") /\ at' = [at EXCEPT ![p] = at[p]]
    <3>1. MovesTrading(p, "list", at[p], old, {})
      BY <2>3, <2>5 DEF MovesTrading
    <3>2. Own(p) /\ MovedTrading(p, "list", at[p], old, {})
      BY <2>4, <3>1, GoesAndTrades
    <3>. QED BY <1>2, <2>3, <2>5, <3>2 DEF MovedTrading, old, left
  <2>6. ASSUME NEW e \in left, Goes(p, "versions"), at' = [at EXCEPT ![p] = e]
        PROVE  Own(p) /\ Moved(p, "versions", e) /\ held'[p] = held[p] \ old
    <3>1. e \in Paths
      BY <2>2 DEF Paths, Entities
    <3>2. MovesTrading(p, "versions", e, old, {})
      BY <2>3, <2>6 DEF MovesTrading
    <3>3. Own(p) /\ MovedTrading(p, "versions", e, old, {})
      BY <2>4, <3>1, <3>2, GoesAndTrades
    <3>. QED BY <3>3 DEF MovedTrading
  <2>7. \/ left = {} /\ Goes(p, "list") /\ at' = [at EXCEPT ![p] = at[p]]
        \/ \E e \in left : Goes(p, "versions") /\ at' = [at EXCEPT ![p] = e]
    BY <2>2, <2>3, NextVictimIs
  <2>. QED BY <1>2, <2>3, <2>5, <2>6, <2>7 DEF left, old
<1>. QED BY <1>3, <1>4

\* The scratch space of a version is removed.
LEMMA DeleteSpaceIsOwn ==
  ASSUME TypeOK, NEW p \in Procs, DeleteSpace(p), OnSubject(p)
  PROVE  /\ Own(p) /\ Moved(p, "row", at[p])
         /\ held'[p] = held[p] \cup {<<Pkg(at[p]), "X">>}
<1>1. pc[p] = "versions"
  BY DEF DeleteSpace, Gets
<1>2. at[p] \in Entities /\ "row" \in Places /\ at[p] \in Paths
  BY <1>1 DEF OnSubject, TypeOK, ProcTypes, Paths, Places
<1> DEFINE new == {<<Pkg(at[p]), "X">>}
<1>3. new \in SUBSET (Kept \X L!Modes)
  BY <1>2, LockTypes
<1>. HIDE DEF new
<1>4. MovesTrading(p, "row", at[p], {}, new)
  BY DEF DeleteSpace, MovesTrading, new, TypeOK, ProcTypes
<1>5. Own(p) /\ MovedTrading(p, "row", at[p], {}, new)
  BY <1>2, <1>3, <1>4, GoesAndTrades
<1>. QED BY <1>5 DEF MovedTrading, new

\* Which operations come to a place.
LEMMA WhoIsWhere ==
  ASSUME TypeOK, NEW p \in Procs, OnCourse(p)
  PROVE  /\ pc[p] = "names" => op[p] \in {"graph", "update"}
         /\ pc[p] = "all" => op[p] = "outdate"
         /\ pc[p] = "list" => op[p] \in {"create", "destroy"}
         /\ pc[p] = "look" => op[p] \in {"graph", "update", "edit"}
         /\ pc[p] = "editor" => op[p] = "edit"
         /\ pc[p] = "ask" => op[p] = "update"
         /\ pc[p] = "open" => op[p] \in {"update", "edit", "build", "delete", "copy", "destroy",
              "add", "hold", "unhold", "fix", "unfix", "enable", "disable"}
         /\ pc[p] = "mount" => op[p] = "build"
         /\ pc[p] = "write" => op[p] \in {"outdate", "edit", "build", "fix", "unfix", "enable",
              "disable"}
         /\ pc[p] = "versions" => op[p] \in {"update", "delete", "copy", "destroy", "add", "hold",
              "unhold"}
         /\ pc[p] = "row" => op[p] \in {"delete", "destroy"}
         /\ pc[p] = "copy" => op[p] \in {"copy", "update"}
         /\ pc[p] \in {"off", "answer", "old", "on"} => op[p] = "update"
         /\ pc[p] = "done" => op[p] \in {"graph", "update"}
<1>1. op[p] \in Ops
  BY DEF TypeOK, ProcTypes
<1>2. op[p] \in {"idle", "graph", "update", "outdate", "build", "create", "destroy", "add",
                 "delete", "copy", "hold", "unhold", "fix", "unfix", "enable", "disable", "edit"}
  BY <1>1 DEF Ops, ShellOps
<1>. QED BY <1>2 DEF OnCourse, Copying

\* Every step of a process leaves the others as they are.
LEMMA StepIsOwn ==
  ASSUME IInv, NEW p \in Procs, Step(p)
  PROVE  Own(p)
<1>1. TypeOK /\ OnCourse(p) /\ OnSubject(p) /\ Reads(p)
  BY DEF IInv, Local
<1>2. {"open", "list", "write", "copy", "off", "answer", "old", "on"} \subseteq Places
  BY DEF Places
<1>3. at[p] \in Paths
  BY <1>1 DEF TypeOK, ProcTypes
<1>4. todo[p] \ {at[p][1]} \in SUBSET Packages
  BY <1>1 DEF TypeOK, ProcTypes
<1>5. CASE Over(p)
  BY <1>1, <1>5, OverIsOwn
<1>6. ASSUME NEW c \in Places, Goes(p, c), UNCHANGED <<op, at, plan, held>> PROVE Own(p)
  BY <1>1, <1>6, GoesIsOwn
<1>7. CASE Begin(p)
  BY <1>1, <1>7, BeginIsOwn
<1>8. CASE ListNames(p)
  BY <1>1, <1>8, ListNamesIsOwn
<1>9. CASE Look(p)
  BY <1>1, <1>9, LookIsOwn
<1>10. CASE Edited(p)
  BY <1>2, <1>5, <1>6, <1>10 DEF Edited
<1>11. CASE Ask(p)
  BY <1>1, <1>11, AskIsOwn
<1>12. CASE Done(p)
  BY <1>5, <1>12 DEF Done
<1>13. CASE Open(p)
  BY <1>1, <1>13, OpenIsOwn
<1>14. CASE Mount(p) \/ MountDies(p)
  BY <1>2, <1>5, <1>6, <1>14 DEF Mount, MountDies
<1>15. CASE Write(p)
  BY <1>1, <1>15, WriteIsOwn
<1>16. CASE OutdateAll(p)
  BY <1>1, <1>16, OutdateAllIsOwn
<1>17. CASE CreatePackage(p)
  BY <1>5, <1>17 DEF CreatePackage
<1>18. CASE AddVersion(p)
  BY <1>2, <1>5, <1>6, <1>18 DEF AddVersion
<1>19. CASE HoldVersions(p)
  BY <1>5, <1>19 DEF HoldVersions
<1>20. CASE DeleteSpace(p)
  BY <1>1, <1>20, DeleteSpaceIsOwn
<1>21. CASE SpaceStays(p) \/ SpaceHasNoLock(p)
  BY <1>2, <1>5, <1>6, <1>21 DEF SpaceStays, SpaceHasNoLock
<1>22. CASE DeleteRow(p)
  BY <1>1, <1>22, DeleteRowIsOwn
<1>23. CASE DeletePackage(p)
  BY <1>5, <1>23 DEF DeletePackage
<1>24. CASE CopyAttributes(p)
  BY <1>2, <1>5, <1>6, <1>24 DEF CopyAttributes
<1>25. CASE DisableNew(p)
  BY <1>2, <1>6, <1>25 DEF DisableNew
<1>26. CASE Answer(p)
  <2>1. CASE Goes(p, "old") /\ UNCHANGED <<at, todo>>
    <3>1. UNCHANGED <<op, at, plan, held>>
      BY <1>26, <2>1 DEF Answer, plan
    <3>. QED BY <1>2, <1>6, <2>1, <3>1
  <2>2. CASE Continue(p, todo[p] \ {at[p][1]})
    <3>1. UNCHANGED <<op, from, seen, held>>
      BY <1>26 DEF Answer
    <3>. QED BY <1>1, <1>4, <2>2, <3>1, ContinuesIsOwn
  <2>. QED BY <1>26, <2>1, <2>2 DEF Answer
<1>27. CASE DisableOld(p)
  BY <1>2, <1>5, <1>6, <1>27 DEF DisableOld
<1>28. CASE EnableNew(p)
  <2>1. Continue(p, todo[p] \ {at[p][1]}) /\ UNCHANGED <<op, from, seen, held>>
    BY <1>28 DEF EnableNew
  <2>. QED BY <1>1, <1>4, <2>1, ContinuesIsOwn
<1>29. CASE Dies(p)
  BY <1>5, <1>29 DEF Dies
<1>. QED BY <1>7, <1>8, <1>9, <1>10, <1>11, <1>12, <1>13, <1>14, <1>15, <1>16, <1>17, <1>18,
            <1>19, <1>20, <1>21, <1>22, <1>23, <1>24, <1>25, <1>26, <1>27, <1>28, <1>29 DEF Step

-----------------------------------------------------------------------------
(* Locks that are granted, and what is written under them.                 *)

\* A lock is granted to a process that waits for none.
LEMMA Grants ==
  ASSUME TypeOK, NEW p \in Procs, WaitsFor(p) = {}, Waiting(p),
         NEW w \in Paths, NEW m, Wants(p) = <<w, m>>
  PROVE  Granted(p, w, m)
<1> SUFFICES ASSUME NEW q \in Procs, q # p, NEW l \in Kept, NEW n \in L!Modes,
                    <<l, n>> \in held[q], l = List \/ w = List \/ l = Pkg(w)
             PROVE  <<m, n>> \in L!Compatible
  BY DEF Granted
<1> DEFINE want == Wants(p)
<1>1. {o \in Procs \ {p} : \E h \in held[o] : /\ IsPrefix(h[1], want[1]) \/ IsPrefix(want[1], h[1])
                                              /\ <<want[2], h[2]>> \notin L!Compatible} = {}
  BY DEF WaitsFor
<1>2. \A h \in held[q] : Near(h[1], want[1]) => <<want[2], h[2]>> \in L!Compatible
  BY <1>1 DEF Near
<1>3. Near(l, w)
  BY Nearness
<1>4. want[1] = w /\ want[2] = m
  OBVIOUS
<1> DEFINE h == <<l, n>>
<1>5. h \in held[q] /\ h[1] = l /\ h[2] = n
  OBVIOUS
<1>. HIDE DEF h, want
<1>. QED BY <1>2, <1>3, <1>4, <1>5

\* The locks that processes wait for.
LEMMA Awaited ==
  ASSUME TypeOK, NEW p \in Procs, WaitsFor(p) = {}, OnSubject(p)
  PROVE  /\ pc[p] = "names" => Granted(p, List, "S")
         /\ pc[p] = "all" => Granted(p, List, "S+")
         /\ pc[p] = "list" => Granted(p, List, "X")
         /\ pc[p] = "look" => Granted(p, Pkg(at[p]), "S")
         /\ pc[p] = "open" => Granted(p, Pkg(at[p]), "S+")
         /\ pc[p] = "versions" => Granted(p, Pkg(at[p]), "X")
         /\ pc[p] \in {"write", "copy", "off", "on"} => Granted(p, at[p], "X")
         /\ pc[p] = "old" /\ Newest(seen[p]) \in Vers => Granted(p, Newest(seen[p]), "X")
<1>1. List \in Paths
  BY DEF Paths
<1>2. pc[p] \notin {"idle", "names", "all", "done"} =>
        at[p] \in Paths /\ Pkg(at[p]) \in Paths
  <2>1. pc[p] \notin {"idle", "names", "all", "done"} => at[p] \in Entities
    BY DEF OnSubject, TypeOK, ProcTypes, Paths
  <2>. QED BY <2>1, Shapes DEF Paths
<1>3. CASE pc[p] = "names"
  <2>1. Waiting(p) /\ Wants(p) = <<List, "S">>
    BY <1>3 DEF Waiting, Wants
  <2>. QED BY <1>1, <1>3, <2>1, Grants
<1>4. CASE pc[p] = "all"
  <2>1. Waiting(p) /\ Wants(p) = <<List, "S+">>
    BY <1>4 DEF Waiting, Wants
  <2>. QED BY <1>1, <1>4, <2>1, Grants
<1>5. CASE pc[p] = "list"
  <2>1. Waiting(p) /\ Wants(p) = <<List, "X">>
    BY <1>5 DEF Waiting, Wants
  <2>. QED BY <1>1, <1>5, <2>1, Grants
<1>6. CASE pc[p] = "look"
  <2>1. Waiting(p) /\ Wants(p) = <<Pkg(at[p]), "S">>
    BY <1>6 DEF Waiting, Wants
  <2>. QED BY <1>2, <1>6, <2>1, Grants
<1>7. CASE pc[p] = "open"
  <2>1. Waiting(p) /\ Wants(p) = <<Pkg(at[p]), "S+">>
    BY <1>7 DEF Waiting, Wants
  <2>. QED BY <1>2, <1>7, <2>1, Grants
<1>8. CASE pc[p] = "versions"
  <2>1. Waiting(p) /\ Wants(p) = <<Pkg(at[p]), "X">>
    BY <1>8 DEF Waiting, Wants
  <2>. QED BY <1>2, <1>8, <2>1, Grants
<1>9. CASE pc[p] \in {"write", "copy", "off", "on"}
  <2>1. Waiting(p) /\ Wants(p) = <<at[p], "X">>
    BY <1>9 DEF Waiting, Wants
  <2>. QED BY <1>2, <1>9, <2>1, Grants
<1>10. CASE pc[p] = "old" /\ Newest(seen[p]) \in Vers
  <2>1. Waiting(p) /\ Wants(p) = <<Newest(seen[p]), "X">>
    BY <1>10 DEF Waiting, Wants
  <2>2. Newest(seen[p]) \in Paths
    BY <1>10 DEF Paths, Entities
  <2>. QED BY <1>10, <2>1, <2>2, Grants
<1>. QED BY <1>3, <1>4, <1>5, <1>6, <1>7, <1>8, <1>9, <1>10

\* A lock for writing goes together with no other.
LEMMA WriterIsSole ==
  ASSUME TypeOK, NEW p \in Procs, NEW w \in Entities,
         Granted(p, w, "X") \/ Granted(p, Pkg(w), "X") \/ Granted(p, List, "X")
  PROVE  Sole(p, w)
<1>1. \A n \in L!Modes : <<"X", n>> \notin L!Compatible
  BY DEF L!Modes, L!Compatible
<1>2. List \in Kept /\ Pkg(w) \in Kept /\ Pkg(Pkg(w)) = Pkg(w)
  BY Shapes DEF Kept
<1>. QED BY <1>1, <1>2 DEF Granted, Sole

\* The same of a lock that is held.
LEMMA HolderIsSole ==
  ASSUME TypeOK, Exclusive, NEW p \in Procs, NEW w \in Entities, <<Pkg(w), "X">> \in held[p]
  PROVE  Sole(p, w)
<1>1. \A n \in L!Modes : <<"X", n>> \notin L!Compatible
  BY DEF L!Modes, L!Compatible
<1>2. List \in Kept /\ Pkg(w) \in Kept /\ Pkg(w) \in Paths /\ Pkg(Pkg(w)) = Pkg(w)
  BY Shapes DEF Kept, Paths
<1>3. Near(Pkg(w), List) /\ Near(Pkg(w), Pkg(w))
  BY <1>2, Nearness DEF Paths
<1>4. ASSUME NEW q \in Procs, q # p, NEW n \in L!Modes, NEW l \in {List, Pkg(w)},
             <<l, n>> \in held[q]
      PROVE  FALSE
  <2> DEFINE h == <<Pkg(w), "X">>
             k == <<l, n>>
  <2>1. h \in held[p] /\ k \in held[q] /\ h[1] = Pkg(w) /\ h[2] = "X" /\ k[1] = l /\ k[2] = n
    BY <1>4
  <2>. HIDE DEF h, k
  <2>2. <<h[2], k[2]>> \in L!Compatible
    BY <1>3, <1>4, <2>1 DEF Exclusive
  <2>. QED BY <1>1, <2>1, <2>2
<1>. QED BY <1>4 DEF Sole

\* The versions that the script has read are those of the package at hand.
LEMMA ReadOfPackage ==
  ASSUME TypeOK, NEW p \in Procs, OnCourse(p), OnSubject(p), Reads(p),
         op[p] = "update", Updating(p)
  PROVE  /\ Newest(seen[p]) \in seen[p] /\ Newest(seen[p]) \in Vers
         /\ at[p] \in Entities /\ Pkg(Newest(seen[p])) = Pkg(at[p])
         /\ Newest(seen[p]) \in there /\ Newest(seen[p]) # at[p]
<1>1. seen[p] = Enabled(Pkg(at[p])) \ {at[p]} /\ seen[p] # {}
  BY DEF Reads
<1>2. seen[p] \in SUBSET Vers
  BY <1>1 DEF Enabled, VersionsIn
<1>3. Newest(seen[p]) \in seen[p]
  BY <1>1, <1>2, NewestIsOne
<1>4. at[p] \in Entities
  BY DEF OnSubject, Updating, TypeOK, ProcTypes, Paths
<1>. QED BY <1>1, <1>2, <1>3, <1>4, VersionsAre DEF Enabled

\* What is written is in one package, on which nobody else has a lock.
LEMMA WrittenAlone ==
  ASSUME IInv, NEW p \in Procs, Step(p)
  PROVE  UNCHANGED database \/ \E w \in Entities : Sole(p, w) /\ Within(w)
<1> SUFFICES ASSUME ~ UNCHANGED database
             PROVE  \E w \in Entities : Sole(p, w) /\ Within(w)
  OBVIOUS
<1>1. TypeOK /\ Exclusive /\ OnCourse(p) /\ OnSubject(p) /\ Locked(p) /\ Reads(p)
  BY DEF IInv, Local
<1>2. pc[p] \notin {"idle", "names", "all", "done"} => at[p] \in Entities
  BY <1>1 DEF OnSubject, TypeOK, ProcTypes, Paths
<1>3. \A e, f \in Entities : Pkg(e) # Pkg(f) => e # f /\ e[1] # f[1]
  BY Shapes
<1>4. CASE Write(p)
  <2>1. pc[p] = "write" /\ WaitsFor(p) = {}
    BY <1>4 DEF Write, Gets
  <2>2. Sole(p, at[p])
    BY <1>1, <1>2, <2>1, Awaited, WriterIsSole
  <2>3. Within(at[p])
    <3>1. \A e \in Entities : e # at[p] => (e \in on' <=> e \in on)
      BY <1>4 DEF Write, ValueOf
    <3>2. \A e \in Entities : e # at[p] => (e \in fixed' <=> e \in fixed)
      BY <1>4 DEF Write
    <3>3. there' = there /\ frozen' = frozen
      BY <1>4 DEF Write
    <3>. QED BY <1>2, <1>3, <2>1, <3>1, <3>2, <3>3 DEF Within, Still
  <2>. QED BY <1>2, <2>1, <2>2, <2>3
<1>5. CASE CreatePackage(p)
  <2>1. pc[p] = "list" /\ WaitsFor(p) = {}
    BY <1>5 DEF CreatePackage, Gets
  <2>2. Sole(p, at[p])
    BY <1>1, <1>2, <2>1, Awaited, WriterIsSole
  <2>3. Within(at[p])
    BY <1>2, <1>3, <1>5, <2>1 DEF CreatePackage, Within, Still
  <2>. QED BY <1>2, <2>1, <2>2, <2>3
<1>6. CASE AddVersion(p)
  <2>1. pc[p] = "versions" /\ WaitsFor(p) = {}
    BY <1>6 DEF AddVersion, Gets
  <2>2. Sole(p, at[p])
    BY <1>1, <1>2, <2>1, Awaited, WriterIsSole
  <2>3. Within(at[p])
    BY <1>2, <1>3, <1>6, <2>1 DEF AddVersion, Within, Still
  <2>. QED BY <1>2, <2>1, <2>2, <2>3
<1>7. CASE HoldVersions(p)
  <2>1. pc[p] = "versions" /\ WaitsFor(p) = {}
    BY <1>7 DEF HoldVersions, Gets
  <2>2. Sole(p, at[p])
    BY <1>1, <1>2, <2>1, Awaited, WriterIsSole
  <2>3. Within(at[p])
    BY <1>2, <1>3, <1>7, <2>1 DEF HoldVersions, Within, Still
  <2>. QED BY <1>2, <2>1, <2>2, <2>3
<1>8. CASE DeleteRow(p)
  <2>1. pc[p] = "row" /\ <<Pkg(at[p]), "X">> \in held[p]
    BY <1>1, <1>8 DEF DeleteRow, Locked
  <2>2. Sole(p, at[p])
    BY <1>1, <1>2, <2>1, HolderIsSole
  <2>3. Within(at[p])
    BY <1>2, <1>3, <1>8, <2>1 DEF DeleteRow, Delete, Within, Still
  <2>. QED BY <1>2, <2>1, <2>2, <2>3
<1>9. CASE DeletePackage(p)
  <2>1. pc[p] = "list" /\ WaitsFor(p) = {}
    BY <1>9 DEF DeletePackage, Gets
  <2>2. Sole(p, at[p])
    BY <1>1, <1>2, <2>1, Awaited, WriterIsSole
  <2>3. Within(at[p])
    <3>1. \A e \in Entities : e \in {Pkg(at[p])} \cup VersionsIn(Pkg(at[p])) => Pkg(e) = Pkg(at[p])
      BY <1>2, <2>1, Shapes DEF VersionsIn
    <3>2. Pkg(at[p])[1] = at[p][1]
      BY <1>2, <2>1, Shapes
    <3>. QED BY <1>2, <1>3, <1>9, <2>1, <3>1, <3>2 DEF DeletePackage, Delete, Within, Still
  <2>. QED BY <1>2, <2>1, <2>2, <2>3
<1>10. CASE CopyAttributes(p)
  <2>1. pc[p] = "copy" /\ WaitsFor(p) = {}
    BY <1>10 DEF CopyAttributes, Gets
  <2>2. Sole(p, at[p])
    BY <1>1, <1>2, <2>1, Awaited, WriterIsSole
  <2>3. Within(at[p])
    BY <1>2, <1>3, <1>10, <2>1 DEF CopyAttributes, Within, Still
  <2>. QED BY <1>2, <2>1, <2>2, <2>3
<1>11. CASE DisableNew(p)
  <2>1. pc[p] = "off" /\ WaitsFor(p) = {}
    BY <1>11 DEF DisableNew, Gets
  <2>2. Sole(p, at[p])
    BY <1>1, <1>2, <2>1, Awaited, WriterIsSole
  <2>3. Within(at[p])
    BY <1>2, <1>3, <1>11, <2>1 DEF DisableNew, Within, Still
  <2>. QED BY <1>2, <2>1, <2>2, <2>3
<1>12. CASE DisableOld(p)
  <2>1. pc[p] = "old" /\ WaitsFor(p) = {}
    BY <1>12 DEF DisableOld, Gets
  <2> DEFINE w == Newest(seen[p])
  <2>2. op[p] = "update" /\ Updating(p)
    BY <1>1, <2>1, WhoIsWhere DEF Updating
  <2>3. w \in Vers /\ w \in Entities
    BY <1>1, <2>2, ReadOfPackage DEF Entities
  <2>4. Sole(p, w)
    BY <1>1, <2>1, <2>3, Awaited, WriterIsSole
  <2>5. Within(w)
    <3>1. (on' = on \/ on' = on \ {w}) /\ UNCHANGED <<there, fixed, frozen>>
      BY <1>12 DEF DisableOld
    <3>. HIDE DEF w
    <3>. QED BY <1>3, <2>3, <3>1 DEF Within, Still
  <2>. QED BY <2>3, <2>4, <2>5
<1>13. CASE EnableNew(p)
  <2>1. pc[p] = "on" /\ WaitsFor(p) = {}
    BY <1>13 DEF EnableNew, Gets
  <2>2. Sole(p, at[p])
    BY <1>1, <1>2, <2>1, Awaited, WriterIsSole
  <2>3. Within(at[p])
    BY <1>2, <1>3, <1>13, <2>1 DEF EnableNew, Within, Still
  <2>. QED BY <1>2, <2>1, <2>2, <2>3
<1>14. CASE Begin(p) \/ ListNames(p) \/ Look(p) \/ Edited(p) \/ Ask(p) \/ Done(p) \/ Open(p)
  BY <1>14 DEF Begin, ListNames, Look, Edited, Ask, Done, Open
<1>15. CASE Mount(p) \/ MountDies(p) \/ OutdateAll(p) \/ DeleteSpace(p) \/ SpaceStays(p)
            \/ SpaceHasNoLock(p) \/ Answer(p) \/ Dies(p)
  BY <1>15 DEF Mount, MountDies, OutdateAll, DeleteSpace, SpaceStays, SpaceHasNoLock, Answer, Dies
<1>. QED BY <1>4, <1>5, <1>6, <1>7, <1>8, <1>9, <1>10, <1>11, <1>12, <1>13, <1>14, <1>15 DEF Step

\* While another process has a lock on the list or on its package nothing about an entity
\* changes.
LEMMA Confined ==
  ASSUME IInv, NEW p \in Procs, Step(p), NEW q \in Procs, q # p, NEW e \in Entities,
         NEW m \in L!Modes, <<List, m>> \in held[q] \/ <<Pkg(e), m>> \in held[q]
  PROVE  Still(e)
<1>1. CASE UNCHANGED database
  BY <1>1 DEF database, Still
<1>2. ASSUME NEW w \in Entities, Sole(p, w), Within(w) PROVE Still(e)
  <2>1. Pkg(e) # Pkg(w)
    BY <1>2 DEF Sole
  <2>. QED BY <1>2, <2>1 DEF Within
<1>. QED BY <1>1, <1>2, WrittenAlone

-----------------------------------------------------------------------------
(* What the other processes count upon.                                    *)

\* A process that has a package open has it locked.
LEMMA OpenIsLocked ==
  ASSUME TypeOK, NEW q \in Procs, OnCourse(q), OnSubject(q), Locked(q),
         Opened(q) \/ (op[q] = "update" /\ Updating(q))
  PROVE  at[q] \in Entities /\ \E m \in L!Modes : <<Pkg(at[q]), m>> \in held[q]
<1>1. at[q] \in Entities
  BY DEF OnSubject, Opened, Copying, Updating, TypeOK, ProcTypes, Paths
<1>2. <<Pkg(at[q]), "S">> \in held[q] \/ <<Pkg(at[q]), "S+">> \in held[q]
  BY DEF Locked, Opened, Copying, Updating
<1>. QED BY <1>1, <1>2 DEF L!Modes

\* What another process has assured itself of is not disturbed.
LEMMA OthersAssured ==
  ASSUME IInv, NEW p \in Procs, Step(p), NEW q \in Procs, q # p, Keeps(q)
  PROVE  Assured(q)'
<1>1. TypeOK /\ Exclusive /\ OnCourse(q) /\ OnSubject(q) /\ Locked(q) /\ Assured(q)
  BY DEF IInv, Local
<1>2. Opened(q)' <=> Opened(q)
  BY DEF Keeps, Opened
<1>3. CASE Opened(q) \/ (op[q] = "update" /\ Updating(q))
  <2>1. PICK m \in L!Modes : at[q] \in Entities /\ <<Pkg(at[q]), m>> \in held[q]
    BY <1>1, <1>3, OpenIsLocked
  <2>2. Still(at[q])
    BY <2>1, Confined
  <2>3. Still(Pkg(at[q]))
    <3>1. Pkg(at[q]) \in Entities /\ Pkg(Pkg(at[q])) = Pkg(at[q])
      BY <2>1, Shapes
    <3>. QED BY <2>1, <3>1, Confined
  <2>4. pc[q] = "row" => at[q] \notin spaces'
    <3> SUFFICES ASSUME pc[q] = "row", at[q] \in spaces' PROVE FALSE
      OBVIOUS
    <3>1. at[q] \notin spaces
      BY <1>1 DEF Assured
    <3>2. Mount(p) \/ MountDies(p)
      BY <3>1 DEF Step, Begin, ListNames, Look, Edited, Ask, Done, Open, Write, OutdateAll,
        CreatePackage, AddVersion, HoldVersions, DeleteSpace, SpaceStays, SpaceHasNoLock,
        DeleteRow, DeletePackage, CopyAttributes, DisableNew, Answer, DisableOld, EnableNew, Dies, outside
    <3>3. at[q] = at[p] /\ pc[p] = "mount"
      BY <3>1, <3>2 DEF Mount, MountDies
    <3>4. <<Pkg(at[p]), "S+">> \in held[p] /\ <<Pkg(at[q]), "X">> \in held[q]
      BY <1>1, <3>3 DEF IInv, Local, Locked, Opened
    <3>5. Sole(q, at[q])
      BY <1>1, <2>1, <3>4, HolderIsSole
    <3>. QED BY <3>3, <3>4, <3>5 DEF Sole, L!Modes
  <2>5. at'[q] = at[q] /\ op'[q] = op[q] /\ pc'[q] = pc[q]
    BY DEF Keeps
  <2>6. Pkg(at[q]) \in there' <=> Pkg(at[q]) \in there
    BY <2>3 DEF Still
  <2>. QED BY <1>1, <1>2, <2>2, <2>4, <2>5, <2>6 DEF Assured, Still
<1>4. CASE ~(Opened(q) \/ (op[q] = "update" /\ Updating(q)))
  <2>1. at'[q] = at[q] /\ op'[q] = op[q] /\ pc'[q] = pc[q]
    BY DEF Keeps
  <2>. QED BY <1>2, <1>4, <2>1 DEF Assured, Opened, Copying, Updating
<1>. QED BY <1>3, <1>4

\* What another process has read is still so.
LEMMA OthersRead ==
  ASSUME IInv, NEW p \in Procs, Step(p), NEW q \in Procs, q # p, Keeps(q)
  PROVE  Reads(q)'
<1>1. TypeOK /\ OnCourse(q) /\ OnSubject(q) /\ Locked(q) /\ Reads(q)
  BY DEF IInv, Local
<1>2. at'[q] = at[q] /\ op'[q] = op[q] /\ pc'[q] = pc[q] /\ seen'[q] = seen[q]
      /\ todo'[q] = todo[q]
  BY DEF Keeps
<1>3. ASSUME op[q] = "graph", pc[q] # "names"
      PROVE  seen[q] = {e \in on' \cap Vers : e[1] \notin todo[q]}
  <2>1. <<List, "S">> \in held[q] /\ "S" \in L!Modes
    BY <1>1, <1>3 DEF Locked, L!Modes
  <2>2. \A e \in Vers : e \in on' <=> e \in on
    BY <2>1, Confined DEF Still, Entities
  <2>. QED BY <1>1, <1>3, <2>2 DEF Reads
<1>4. ASSUME op[q] = "update", Updating(q)
      PROVE  seen[q] = Enabled(Pkg(at[q]))' \ {at[q]} /\ seen[q] # {}
  <2>1. PICK m \in L!Modes : at[q] \in Entities /\ <<Pkg(at[q]), m>> \in held[q]
    BY <1>1, <1>4, OpenIsLocked
  <2>2. \A e \in Vers : Pkg(e) = Pkg(at[q]) =>
          (e \in on' <=> e \in on) /\ (e \in there' <=> e \in there)
    BY <2>1, Confined DEF Still, Entities
  <2>3. Enabled(Pkg(at[q])) = {e \in there \cap Vers : Pkg(e) = Pkg(at[q])} \cap on
    BY DEF Enabled, VersionsIn
  <2>4. Enabled(Pkg(at[q]))' = {e \in there' \cap Vers : Pkg(e) = Pkg(at[q])} \cap on'
    BY <1>2 DEF Enabled, VersionsIn, Pkg
  <2>5. Enabled(Pkg(at[q]))' = Enabled(Pkg(at[q]))
    BY <2>2, <2>3, <2>4
  <2>. QED BY <1>1, <1>4, <2>5 DEF Reads
<1>. QED BY <1>2, <1>3, <1>4 DEF Reads, Updating

\* A step of one process leaves all that is said of the others.
LEMMA OthersStay ==
  ASSUME IInv, NEW p \in Procs, Step(p), NEW q \in Procs, q # p
  PROVE  Local(q)'
<1>1. Keeps(q)
  BY StepIsOwn DEF Own
<1>2. OnCourse(q) /\ OnSubject(q) /\ Locked(q)
  BY DEF IInv, Local
<1>3. op'[q] = op[q] /\ pc'[q] = pc[q] /\ at'[q] = at[q] /\ seen'[q] = seen[q]
      /\ held'[q] = held[q]
  BY <1>1 DEF Keeps
<1>4. OnCourse(q)'
  BY <1>2, <1>3 DEF OnCourse
<1>5. OnSubject(q)'
  BY <1>2, <1>3 DEF OnSubject
<1>6. Locked(q)'
  BY <1>2, <1>3 DEF Locked, Opened, Pkg
<1>. QED BY <1>1, <1>4, <1>5, <1>6, OthersAssured, OthersRead DEF Local

-----------------------------------------------------------------------------
(* The database.                                                           *)

\* What a process that has a package open, or is about to write, is at.
LEMMA WhatItIsAt ==
  ASSUME IInv, NEW p \in Procs
  PROVE  /\ pc[p] \notin {"idle", "names", "all", "done"} => at[p] \in Entities /\ at[p] \in Paths
                                                            /\ at[p][1] \in Packages
         /\ op[p] \in {"add", "delete", "copy"} => at[p] \in Vers
         /\ pc[p] \in {"mount", "row", "copy", "off", "answer", "old", "on"} => at[p] \in Vers
         /\ pc[p] = "versions" /\ op[p] \in {"update", "destroy"} => at[p] \in Vers
         /\ pc[p] \in {"mount", "copy", "off", "answer", "old", "on"} => at[p] \in there
         /\ pc[p] = "write" /\ op[p] # "outdate" => at[p] \in there
         /\ pc[p] \in {"copy", "off", "answer", "old", "on"} => at[p] \notin fixed
         /\ pc[p] \in {"versions", "mount", "row", "copy", "off", "answer", "old", "on"} =>
              Pkg(at[p]) \in there /\ <<Pkg(at[p]), "S+">> \in held[p]
         /\ pc[p] \in {"idle", "names", "all", "editor"} => held[p] = {}
<1>1. TypeOK /\ OnCourse(p) /\ OnSubject(p) /\ Locked(p) /\ Assured(p)
  BY DEF IInv, Local
<1>2. pc[p] \notin {"idle", "names", "all", "done"} => at[p] \in Entities /\ at[p] \in Paths
                                                     /\ at[p][1] \in Packages
  BY <1>1, Shapes DEF OnSubject, TypeOK, ProcTypes, Paths
<1>3. op[p] \in {"add", "delete", "copy"} => at[p] \in Vers
  BY <1>1 DEF OnSubject
<1>4. pc[p] \in {"mount", "row", "copy", "off", "answer", "old", "on"} => at[p] \in Vers
  <2>1. pc[p] = "mount" => op[p] = "build"
    BY <1>1, WhoIsWhere
  <2>2. pc[p] = "row" => op[p] \in {"delete", "destroy"}
    BY <1>1, WhoIsWhere
  <2>3. pc[p] \in {"copy", "off", "answer", "old", "on"} => op[p] \in {"copy", "update"}
    BY <1>1, WhoIsWhere
  <2>. QED BY <1>1, <2>1, <2>2, <2>3 DEF OnSubject, Copying
<1>5. pc[p] = "versions" /\ op[p] \in {"update", "destroy"} => at[p] \in Vers
  BY <1>1 DEF OnSubject
<1>6. pc[p] \in {"mount", "copy", "off", "answer", "old", "on"} => at[p] \in there
  BY <1>1 DEF Assured, Copying
<1>7. pc[p] = "write" /\ op[p] # "outdate" => at[p] \in there
  BY <1>1 DEF Assured
<1>8. pc[p] \in {"copy", "off", "answer", "old", "on"} => at[p] \notin fixed
  BY <1>1 DEF Assured, Copying
<1>9. pc[p] \in {"versions", "mount", "row", "copy", "off", "answer", "old", "on"} =>
        Pkg(at[p]) \in there /\ <<Pkg(at[p]), "S+">> \in held[p]
  BY <1>1 DEF Assured, Locked, Opened, Copying
<1>10. pc[p] \in {"idle", "names", "all", "editor"} => held[p] = {}
  BY <1>1 DEF Locked
<1>. QED BY <1>2, <1>3, <1>4, <1>5, <1>6, <1>7, <1>8, <1>9, <1>10

\* The attributes, the versions and the scratch spaces.
Database == DataTypes /\ Rooted /\ SpacesHaveVersions

\* A fault is one more.
LEMMA FaultTypes ==
  ASSUME TypeOK, Fault
  PROVE  ops' \in Nat /\ faults' \in Nat
BY DEF Fault, TypeOK, DataTypes

\* No step leaves an attribute, a version or a scratch space behind.
LEMMA DatabaseStays ==
  ASSUME IInv, NEW p \in Procs, Step(p)
  PROVE  Database'
<1>1. TypeOK /\ Rooted /\ SpacesHaveVersions /\ OnCourse(p) /\ OnSubject(p) /\ Assured(p)
      /\ Reads(p)
  BY DEF IInv, Local
<1>2. CASE UNCHANGED <<database, outside>> /\ ops' \in Nat /\ faults' \in Nat
  BY <1>1, <1>2 DEF Database, TypeOK, DataTypes, Rooted, SpacesHaveVersions, database, outside,
    VersionsIn
<1>3. CASE Begin(p)
  BY <1>1, <1>2, <1>3 DEF Begin, TypeOK, DataTypes
<1>4. CASE ListNames(p) \/ Look(p) \/ Edited(p) \/ Ask(p) \/ Done(p) \/ Open(p) \/ OutdateAll(p)
           \/ SpaceHasNoLock(p) \/ Answer(p)
  <2>1. UNCHANGED <<database, outside, counters>>
    BY <1>4 DEF ListNames, Look, Edited, Ask, Done, Open, OutdateAll, SpaceHasNoLock, Answer
  <2>. QED BY <1>1, <1>2, <2>1 DEF TypeOK, DataTypes, counters
<1>5. CASE SpaceStays(p) \/ Dies(p)
  <2>1. UNCHANGED <<database, outside>> /\ Fault
    BY <1>5 DEF SpaceStays, Dies
  <2>. QED BY <1>1, <1>2, <2>1, FaultTypes
<1>6. CASE Mount(p)
  <2>1. pc[p] = "mount"
    BY <1>6 DEF Mount
  <2>2. at[p] \in Vers /\ at[p] \in there
    BY <2>1, WhatItIsAt
  <2>3. /\ UNCHANGED <<database, adrift, lockMade, counters>>
        /\ spaces' \subseteq spaces \cup {at[p]} /\ spaceLocks' \subseteq spaceLocks \cup {at[p]}
    BY <1>6 DEF Mount
  <2>. QED BY <1>1, <2>2, <2>3 DEF Database, TypeOK, DataTypes, Rooted, SpacesHaveVersions,
    database, counters
<1>17. CASE MountDies(p)
  <2>1. pc[p] = "mount" /\ Fault
    BY <1>17 DEF MountDies
  <2>2. at[p] \in Vers /\ at[p] \in there /\ ops' \in Nat /\ faults' \in Nat
    BY <1>1, <2>1, WhatItIsAt, FaultTypes
  <2>3. UNCHANGED <<database, spaceLocks, adrift, lockMade>> /\ spaces' = spaces \cup {at[p]}
    BY <1>17 DEF MountDies
  <2>. QED BY <1>1, <2>2, <2>3 DEF Database, TypeOK, DataTypes, Rooted, SpacesHaveVersions,
    database
<1>7. CASE Write(p)
  <2>1. pc[p] = "write"
    BY <1>7 DEF Write, Gets
  <2>2. at[p] \in Entities
    BY <2>1, WhatItIsAt
  <2>3. op[p] \in {"edit", "enable", "fix"} => at[p] \in there
    BY <2>1, WhatItIsAt
  <2>4. on' \subseteq on \cup {at[p]} /\ (op[p] \notin {"edit", "enable"} => on' \subseteq on)
    BY <1>7 DEF Write, ValueOf
  <2>5. fixed' \subseteq fixed \cup {at[p]} /\ (op[p] # "fix" => fixed' \subseteq fixed)
    BY <1>7 DEF Write
  <2>6. UNCHANGED <<there, frozen, outside, counters>>
    BY <1>7 DEF Write
  <2>7. on' \subseteq there' /\ fixed' \subseteq there'
    BY <1>1, <2>3, <2>4, <2>5, <2>6 DEF Rooted
  <2>. QED BY <1>1, <2>2, <2>4, <2>5, <2>6, <2>7 DEF Database, TypeOK, DataTypes, Rooted,
    SpacesHaveVersions, outside, counters
<1>8. CASE CreatePackage(p)
  <2>1. pc[p] = "list" /\ op[p] = "create"
    BY <1>8 DEF CreatePackage, Gets
  <2>2. at[p] \in Pkgs /\ at[p] \in Entities /\ at[p][1] \in Packages /\ at[p] \notin Vers
    BY <1>1, <2>1, Shapes DEF OnSubject
  <2>. QED BY <1>1, <1>8, <2>2 DEF CreatePackage, Database, TypeOK, DataTypes, Rooted,
    SpacesHaveVersions, counters
<1>9. CASE AddVersion(p)
  <2>1. pc[p] = "versions" /\ op[p] \in {"add", "copy", "update"}
    BY <1>9 DEF AddVersion, Gets
  <2>2. at[p] \in Vers /\ at[p] \in Entities /\ Pkg(at[p]) \in there
    BY <2>1, WhatItIsAt
  <2>. QED BY <1>1, <1>9, <2>2 DEF AddVersion, Database, TypeOK, DataTypes, Rooted,
    SpacesHaveVersions, counters, outside
<1>10. CASE HoldVersions(p)
  <2>1. pc[p] = "versions"
    BY <1>10 DEF HoldVersions, Gets
  <2>2. at[p][1] \in Packages
    BY <2>1, WhatItIsAt
  <2>. QED BY <1>1, <1>10, <2>2 DEF HoldVersions, Database, TypeOK, DataTypes, Rooted,
    SpacesHaveVersions, counters, outside
<1>11. CASE DeleteSpace(p)
  BY <1>1, <1>11 DEF DeleteSpace, Database, TypeOK, DataTypes, Rooted,
    SpacesHaveVersions, counters, database
<1>12. CASE DeleteRow(p)
  <2>1. pc[p] = "row"
    BY <1>12 DEF DeleteRow
  <2>2. at[p] \in Vers /\ at[p] \notin spaces
    BY <1>1, <2>1, WhatItIsAt DEF Assured
  <2>3. \A e \in there \cap Vers : Pkg(e) # at[p]
    BY <2>2, Shapes
  <2>. QED BY <1>1, <1>12, <2>2, <2>3 DEF DeleteRow, Delete, Database, TypeOK, DataTypes, Rooted,
    SpacesHaveVersions, counters, outside
<1>13. CASE DeletePackage(p)
  <2> DEFINE g == Pkg(at[p])
             gone == {g} \cup VersionsIn(g)
  <2>1. pc[p] = "list"
    BY <1>13 DEF DeletePackage, Gets
  <2>2. at[p] \in Entities
    BY <2>1, WhatItIsAt
  <2>3. g \in Pkgs /\ g \notin Vers
    BY <2>2, Shapes
  <2>4. VersionsIn(g) = {e \in there \cap Vers : Pkg(e) = g}
    BY DEF VersionsIn
  <2>5. /\ there' = there \ gone /\ on' = on \ gone /\ fixed' = fixed \ gone
        /\ adrift' = adrift \cup LeftBehind(p)
        /\ frozen' \subseteq frozen /\ UNCHANGED <<spaces, spaceLocks, lockMade, counters>>
    BY <1>13 DEF DeletePackage, Delete
  <2>8. spaces \cap VersionsIn(g) \subseteq LeftBehind(p) /\ LeftBehind(p) \subseteq Vers
    <3>1. op[p] = "destroy" /\ Victims(p)
      BY <1>13 DEF DeletePackage, IInv
    <3>. QED BY <2>1, <3>1 DEF Victims, LeftBehind, VersionsIn
  <2>. HIDE DEF g
  <2>6. \A e \in there' \cap Vers : Pkg(e) \in there'
    <3> SUFFICES ASSUME NEW e \in there' \cap Vers PROVE Pkg(e) \in there'
      OBVIOUS
    <3>1. Pkg(e) \in there /\ Pkg(e) # g
      BY <1>1, <2>4, <2>5 DEF Rooted
    <3>2. Pkg(e) \notin VersionsIn(g)
      BY <2>4, Shapes
    <3>. QED BY <2>5, <3>1, <3>2
  <2>7. spaces' \subseteq there' \cup adrift'
    BY <1>1, <2>3, <2>5, <2>8 DEF SpacesHaveVersions, TypeOK, DataTypes
  <2>. QED BY <1>1, <2>5, <2>6, <2>7, <2>8 DEF Database, TypeOK, DataTypes, Rooted, SpacesHaveVersions,
    counters
<1>14. CASE CopyAttributes(p)
  <2>1. pc[p] = "copy"
    BY <1>14 DEF CopyAttributes, Gets
  <2>2. at[p] \in Entities /\ at[p] \in there
    BY <2>1, WhatItIsAt
  <2>. QED BY <1>1, <1>14, <2>2 DEF CopyAttributes, Database, TypeOK, DataTypes, Rooted,
    SpacesHaveVersions, counters, outside
<1>15. CASE DisableNew(p) \/ DisableOld(p)
  <2>1. on' \subseteq on /\ UNCHANGED <<there, fixed, frozen, outside, counters>>
    BY <1>15 DEF DisableNew, DisableOld
  <2>. QED BY <1>1, <2>1 DEF Database, TypeOK, DataTypes, Rooted, SpacesHaveVersions, counters,
    outside
<1>16. CASE EnableNew(p)
  <2>1. pc[p] = "on"
    BY <1>16 DEF EnableNew, Gets
  <2>2. at[p] \in Entities /\ at[p] \in there
    BY <2>1, WhatItIsAt
  <2>. QED BY <1>1, <1>16, <2>2 DEF EnableNew, Database, TypeOK, DataTypes, Rooted,
    SpacesHaveVersions, counters, outside
<1>. QED BY <1>3, <1>4, <1>5, <1>6, <1>7, <1>8, <1>9, <1>10, <1>11, <1>12, <1>13, <1>14, <1>15,
            <1>16, <1>17 DEF Step

-----------------------------------------------------------------------------
(* The locks.                                                              *)

\* A process gets a lock only if those of the others go together with it.
Gains(p, l, m) == Granted(p, l, m) /\ held'[p] \subseteq held[p] \cup {<<l, m>>}

\* A step takes one lock at most, and a lock that is granted.
LEMMA OneIsGained ==
  ASSUME IInv, NEW p \in Procs, Step(p)
  PROVE  held'[p] \subseteq held[p] \/ \E l \in Kept, m \in L!Modes : Gains(p, l, m)
<1>1. TypeOK /\ OnCourse(p) /\ OnSubject(p) /\ Reads(p)
  BY DEF IInv, Local
<1>2. {"S", "S+", "X"} \subseteq L!Modes /\ List \in Kept
  BY DEF L!Modes, Kept
<1>3. pc[p] \notin {"idle", "names", "all", "done"} =>
        at[p] \in Entities /\ Pkg(at[p]) \in Kept
  BY WhatItIsAt, Shapes DEF Kept
<1>4. ASSUME Empty(p)' PROVE held'[p] \subseteq held[p]
  BY <1>4 DEF Empty
<1>5. ASSUME held' = held PROVE held'[p] \subseteq held[p]
  BY <1>5
<1>6. ASSUME Over(p) PROVE held'[p] \subseteq held[p]
  BY <1>1, <1>4, <1>6, OverIsOwn
<1>7. CASE Begin(p)
  BY <1>5, <1>7 DEF Begin
<1>8. CASE ListNames(p)
  <2>1. CASE op[p] = "graph"
    <3>1. Granted(p, List, "S")
      BY <1>1, <1>8, Awaited DEF ListNames, Gets
    <3>2. held'[p] \subseteq held[p] \cup {<<List, "S">>}
      BY <1>1, <1>8, <2>1 DEF ListNames, L!Trades, TypeOK, ProcTypes
    <3>. QED BY <1>2, <3>1, <3>2 DEF Gains
  <2>2. CASE op[p] # "graph"
    BY <1>5, <1>8, <2>2 DEF ListNames
  <2>. QED BY <2>1, <2>2
<1>9. CASE Look(p)
  <2>1. CASE op[p] # "update" \/ Over(p)
    <3>1. held' = held \/ Over(p)
      BY <1>1, <1>9, <2>1, WhoIsWhere DEF Look, Gets, LookForGraph, LookForEdit
    <3>. QED BY <1>5, <1>6, <3>1
  <2>2. CASE op[p] = "update" /\ ~Over(p)
    <3>1. pc[p] = "look" /\ WaitsFor(p) = {} /\ LookForUpdate(p)
      BY <1>9, <2>2 DEF Look, Gets
    <3>2. at[p] \in Pkgs /\ Pkg(at[p]) = at[p]
      BY <1>1, <2>2, <3>1, Shapes DEF OnSubject
    <3>3. Granted(p, at[p], "S")
      BY <1>1, <3>1, <3>2, Awaited
    <3>4. held'[p] \subseteq held[p] \cup {<<at[p], "S">>}
      BY <1>1, <3>1 DEF LookForUpdate, L!Trades, TypeOK, ProcTypes
    <3>. QED BY <1>2, <1>3, <3>1, <3>2, <3>3, <3>4 DEF Gains
  <2>. QED BY <2>1, <2>2
<1>10. CASE Edited(p)
  BY <1>5, <1>6, <1>10 DEF Edited
<1>11. CASE Ask(p)
  <2>1. held' = [held EXCEPT ![p] = KeptForUpgrade(p)] => held' = held
    BY <1>1 DEF KeptForUpgrade, TypeOK, ProcTypes
  <2>. QED BY <1>5, <1>6, <1>11, <2>1 DEF Ask
<1>12. CASE Done(p)
  BY <1>6, <1>12 DEF Done
<1>13. CASE Open(p)
  <2>1. Granted(p, Pkg(at[p]), "S+") /\ Pkg(at[p]) \in Kept
    BY <1>1, <1>3, <1>13, Awaited DEF Open, Gets
  <2>2. held'[p] \subseteq held[p] \cup {<<Pkg(at[p]), "S+">>}
    BY <1>1, <1>13, OpenIsOwn DEF Empty, Opening
  <2>. QED BY <1>2, <2>1, <2>2 DEF Gains
<1>14. CASE Mount(p) \/ MountDies(p) \/ SpaceHasNoLock(p)
  BY <1>5, <1>6, <1>14 DEF Mount, MountDies, SpaceHasNoLock
<1>15. CASE Write(p)
  BY <1>1, <1>4, <1>15, WriteIsOwn
<1>16. CASE OutdateAll(p)
  <2>1. Granted(p, List, "S+")
    BY <1>1, <1>16, Awaited DEF OutdateAll, Gets
  <2>2. held'[p] \subseteq held[p] \cup {<<List, "S+">>}
    BY <1>1, <1>16, OutdateAllIsOwn DEF Empty
  <2>. QED BY <1>2, <2>1, <2>2 DEF Gains
<1>17. CASE CreatePackage(p) \/ HoldVersions(p) \/ SpaceStays(p) \/ DeletePackage(p) \/ Dies(p)
  BY <1>6, <1>17 DEF CreatePackage, HoldVersions, SpaceStays, DeletePackage, Dies
<1>18. CASE AddVersion(p) \/ CopyAttributes(p) \/ DisableNew(p) \/ Answer(p) \/ DisableOld(p)
            \/ EnableNew(p)
  BY <1>5, <1>6, <1>18 DEF AddVersion, CopyAttributes, DisableNew, Answer, DisableOld, EnableNew
<1>19. CASE DeleteSpace(p)
  <2>1. Granted(p, Pkg(at[p]), "X") /\ Pkg(at[p]) \in Kept
    BY <1>1, <1>3, <1>19, Awaited DEF DeleteSpace, Gets
  <2>2. held'[p] \subseteq held[p] \cup {<<Pkg(at[p]), "X">>}
    BY <1>1, <1>19, DeleteSpaceIsOwn
  <2>. QED BY <1>2, <2>1, <2>2 DEF Gains
<1>20. CASE DeleteRow(p)
  BY <1>1, <1>4, <1>20, DeleteRowIsOwn
<1>. QED BY <1>7, <1>8, <1>9, <1>10, <1>11, <1>12, <1>13, <1>14, <1>15, <1>16, <1>17, <1>18,
            <1>19, <1>20 DEF Step

\* A lock goes together with another whichever was there first.
LEMMA CompatibleIsSymmetric ==
  ASSUME NEW m, NEW n, <<m, n>> \in L!Compatible
  PROVE  <<n, m>> \in L!Compatible
BY DEF L!Compatible

\* The locks that processes have go together.
LEMMA ExclusiveStays ==
  ASSUME IInv, NEW p \in Procs, Step(p)
  PROVE  Exclusive'
<1>1. TypeOK /\ Exclusive
  BY DEF IInv
<1>2. \A q \in Procs : q # p => held'[q] = held[q]
  BY StepIsOwn DEF Own, Keeps
<1>3. held' \in [Procs -> SUBSET (Kept \X L!Modes)]
  BY StepIsOwn DEF Own, ProcTypes
<1>4. ASSUME NEW q \in Procs, q # p, NEW h \in held'[p], NEW k \in held[q], Near(h[1], k[1])
      PROVE  <<h[2], k[2]>> \in L!Compatible
  <2>1. CASE h \in held[p]
    BY <1>1, <1>4, <2>1 DEF Exclusive
  <2>2. ASSUME NEW l \in Kept, NEW m \in L!Modes, Gains(p, l, m), h \notin held[p]
        PROVE  <<h[2], k[2]>> \in L!Compatible
    <3>1. h = <<l, m>>
      BY <1>4, <2>2 DEF Gains
    <3>2. h[1] = l /\ h[2] = m
      BY <3>1
    <3>3. k \in Kept \X L!Modes
      BY <1>1, <1>4 DEF TypeOK, ProcTypes
    <3>4. k = <<k[1], k[2]>> /\ k[1] \in Kept /\ k[2] \in L!Modes
      BY <3>3
    <3>5. k[1] \in Paths /\ l \in Paths
      BY <3>4 DEF Kept, Paths, Entities
    <3>6. l = List \/ k[1] = List \/ l = Pkg(k[1])
      BY <1>4, <3>2, <3>5, Nearness
    <3>7. k[1] = List \/ l = List \/ k[1] = Pkg(l)
      BY <3>4, <3>6, Shapes DEF Kept
    <3>8. <<k[1], k[2]>> \in held[q]
      BY <1>4, <3>4
    <3>9. <<m, k[2]>> \in L!Compatible
      BY <1>4, <2>2, <3>4, <3>7, <3>8 DEF Gains, Granted
    <3>. QED BY <3>2, <3>9
  <2>. QED BY <1>4, <2>1, <2>2, OneIsGained
<1>5. ASSUME NEW q \in Procs, NEW r \in Procs, q # r, NEW h \in held'[q], NEW k \in held'[r],
             Near(h[1], k[1])
      PROVE  <<h[2], k[2]>> \in L!Compatible
  <2>1. CASE q = p
    BY <1>2, <1>4, <1>5, <2>1
  <2>2. CASE r = p
    <3>1. Near(k[1], h[1])
      BY <1>5 DEF Near
    <3>2. <<k[2], h[2]>> \in L!Compatible
      BY <1>2, <1>4, <1>5, <2>2, <3>1
    <3>. QED BY <3>2, CompatibleIsSymmetric
  <2>3. CASE q # p /\ r # p
    BY <1>1, <1>2, <1>5, <2>3 DEF Exclusive
  <2>. QED BY <2>1, <2>2, <2>3
<1>. QED BY <1>5 DEF Exclusive, Near

-----------------------------------------------------------------------------
(* The process that takes the step.                                        *)

\* All that is said of a process is true when it is over.
LEMMA EmptyIsLocal ==
  ASSUME NEW p \in Procs, Empty(p)'
  PROVE  Local(p)'
<1>1. pc'[p] = "idle" /\ op'[p] = "idle" /\ at'[p] = List /\ seen'[p] = {} /\ held'[p] = {}
  BY DEF Empty
<1>2. OnCourse(p)'
  BY <1>1 DEF OnCourse
<1>3. OnSubject(p)'
  BY <1>1 DEF OnSubject, Copying
<1>4. Locked(p)'
  BY <1>1 DEF Locked, Opened, Copying
<1>5. Assured(p)'
  BY <1>1 DEF Assured, Opened, Copying
<1>6. Reads(p)'
  BY <1>1 DEF Reads, Updating
<1>. QED BY <1>2, <1>3, <1>4, <1>5, <1>6 DEF Local

\* The locks of a process that has nothing open and is the script or the build master.
LEMMA LocksOfOthers ==
  ASSUME IInv, NEW p \in Procs
  PROVE  /\ \A l \in Kept : <<l, "X">> \in held[p] => pc[p] = "row" /\ l = Pkg(at[p])
         /\ \A l \in Kept : <<l, "S">> \in held[p] =>
              op[p] = "graph" \/ (op[p] = "update" /\ ~Opened(p))
BY DEF IInv, Local, Locked

\* A process starts an operation.
LEMMA BeginIsLocal ==
  ASSUME IInv, NEW p \in Procs, Begin(p)
  PROVE  Local(p)'
<1>1. TypeOK /\ OnSubject(p) /\ pc[p] = "idle"
  BY DEF IInv, Local, Begin
<1>2. PICK o \in Does(p) : \E e \in Subjects(o) :
        /\ op'[p] = o /\ pc'[p] = FirstStep(o) /\ at'[p] = e
        /\ seen'[p] = seen[p] /\ held'[p] = held[p]
  BY <1>1, BeginIsOwn
<1>3. o \in Ops \ {"idle"}
  BY DoesOps
<1>4. at'[p] \in Subjects(o) /\ op'[p] = o /\ pc'[p] = FirstStep(o)
      /\ seen'[p] = {} /\ held'[p] = {}
  BY <1>1, <1>2, WhatItIsAt DEF OnSubject
<1>5. o \in {"graph", "update", "outdate", "build", "create", "destroy", "add", "delete", "copy",
             "hold", "unhold", "fix", "unfix", "enable", "disable", "edit"}
  BY <1>3 DEF Ops, ShellOps
<1>6. /\ o \in {"graph", "update"} => pc'[p] = "names" /\ at'[p] = List
      /\ o = "outdate" => pc'[p] = "all" /\ at'[p] = List
      /\ o = "create" => pc'[p] = "list" /\ at'[p] \in Pkgs
      /\ o = "edit" => pc'[p] = "look" /\ at'[p] \in Entities
      /\ o \in {"destroy", "hold", "unhold"} => pc'[p] = "open" /\ at'[p] \in Pkgs
      /\ o \in {"add", "delete", "copy", "build"} => pc'[p] = "open" /\ at'[p] \in Vers
      /\ o \in {"fix", "unfix", "enable", "disable"} => pc'[p] = "open" /\ at'[p] \in Entities
  BY <1>4, <1>5 DEF FirstStep, Subjects
<1>7. o \notin {"graph", "update", "outdate"} => at'[p] \in Entities /\ at'[p] # List
  BY <1>5, <1>6, Shapes
<1>8. OnCourse(p)'
  BY <1>4, <1>5, <1>6 DEF OnCourse
<1>9. OnSubject(p)'
  BY <1>4, <1>5, <1>6, <1>7 DEF OnSubject, Copying
<1>10. Locked(p)'
  BY <1>4, <1>5, <1>6 DEF Locked, Opened, Copying
<1>11. Assured(p)'
  BY <1>4, <1>5, <1>6 DEF Assured, Opened, Copying
<1>12. Reads(p)'
  BY <1>4, <1>5, <1>6 DEF Reads, Updating
<1>. QED BY <1>8, <1>9, <1>10, <1>11, <1>12 DEF Local

\* The script or the build master comes to the next package.  What is to be shown is that the
\* build master has seen all that is enabled in the packages that it has come to.
LEMMA ContinuedIsLocal ==
  ASSUME TypeOK, NEW p \in Procs, op'[p] = op[p], op[p] \in {"graph", "update"},
         \/ pc'[p] = "done" /\ at'[p] = List
         \/ pc'[p] = "look" /\ at'[p] \in Pkgs,
         seen'[p] \subseteq Vers,
         \A l \in Kept : <<l, "X">> \notin held'[p],
         op[p] = "graph" => /\ <<List, "S">> \in held'[p]
                            /\ seen'[p] = {e \in on' \cap Vers : e[1] \notin todo'[p]}
  PROVE  Local(p)'
<1>1. at'[p] \in Pkgs => at'[p] # List
  BY Shapes
<1>2. OnCourse(p)'
  BY DEF OnCourse
<1>3. OnSubject(p)'
  BY <1>1 DEF OnSubject, Copying
<1>4. Locked(p)'
  BY DEF Locked, Opened, Copying
<1>5. Assured(p)'
  BY DEF Assured, Opened, Copying
<1>6. Reads(p)'
  BY DEF Reads, Updating
<1>. QED BY <1>2, <1>3, <1>4, <1>5, <1>6 DEF Local

\* The build master or the script gets the names of the packages.
LEMMA ListNamesIsLocal ==
  ASSUME IInv, NEW p \in Procs, ListNames(p)
  PROVE  Local(p)'
<1>1. TypeOK /\ Rooted /\ OnCourse(p) /\ OnSubject(p) /\ pc[p] = "names"
  BY DEF IInv, Local, ListNames, Gets
<1>2. op[p] \in {"graph", "update"} /\ seen[p] = {} /\ held[p] = {}
  BY <1>1, WhoIsWhere, WhatItIsAt DEF OnSubject
<1> DEFINE rest == {o \in Packages : <<o>> \in there}
<1>3. Continue(p, rest) /\ rest \in SUBSET Packages /\ UNCHANGED <<op, from, seen, on>>
  BY DEF ListNames, database
<1>4. /\ todo'[p] = rest
      /\ \/ pc'[p] = "done" /\ at'[p] = List
         \/ pc'[p] = "look" /\ at'[p] \in Pkgs
  <2>. HIDE DEF rest
  <2>. QED BY <1>1, <1>3, ContinueIsOwn
<1>5. op'[p] = op[p] /\ seen'[p] = {} /\ on' = on
  BY <1>2, <1>3
<1>6. held'[p] = IF op[p] = "graph" THEN {<<List, "S">>} ELSE {}
  BY <1>1, <1>2 DEF ListNames, L!Trades, TypeOK, ProcTypes
<1>7. \A e \in on \cap Vers : e[1] \in rest
  <2> SUFFICES ASSUME NEW e \in on \cap Vers PROVE e[1] \in rest
    OBVIOUS
  <2>1. Pkg(e) \in there /\ e[1] \in Packages
    BY <1>1, Shapes DEF Rooted
  <2>. QED BY <2>1 DEF Pkg
<1>8. seen'[p] = {e \in on' \cap Vers : e[1] \notin todo'[p]}
  BY <1>4, <1>5, <1>7
<1>9. \A l \in Kept : <<l, "X">> \notin held'[p]
  BY <1>6
<1>10. seen'[p] \subseteq Vers /\ (op[p] = "graph" => <<List, "S">> \in held'[p])
  BY <1>5, <1>6
<1>. QED BY <1>1, <1>2, <1>4, <1>5, <1>8, <1>9, <1>10, ContinuedIsLocal

\* The versions that are enabled in a package.
LEMMA EnabledAre ==
  ASSUME TypeOK, Rooted, NEW e \in Entities
  PROVE  Enabled(Pkg(e)) = {f \in on \cap Vers : f[1] = e[1]}
<1>1. \A f \in Vers : Pkg(f) = Pkg(e) <=> f[1] = e[1]
  BY Shapes
<1>. QED BY <1>1 DEF Enabled, VersionsIn, Rooted

\* A process looks at a package.
LEMMA LookIsLocal ==
  ASSUME IInv, NEW p \in Procs, Look(p)
  PROVE  Local(p)'
<1>1. TypeOK /\ Rooted /\ OnCourse(p) /\ OnSubject(p) /\ Locked(p) /\ Reads(p)
  BY DEF IInv, Local
<1>2. pc[p] = "look" /\ UNCHANGED database /\ op[p] \in {"graph", "update", "edit"}
  BY <1>1, WhoIsWhere DEF Look, Gets
<1>3. at[p] \in Entities /\ (op[p] # "edit" => at[p] \in Pkgs /\ Pkg(at[p]) = at[p])
  BY <1>1, <1>2, WhatItIsAt, Shapes DEF OnSubject
<1>4. \A l \in Kept : <<l, "X">> \notin held[p]
  BY <1>2, LocksOfOthers
<1> DEFINE rest == todo[p] \ {at[p][1]}
<1>5. rest \in SUBSET Packages
  BY <1>1 DEF TypeOK, ProcTypes
<1>6. on' = on /\ there' = there
  BY <1>2 DEF database
<1>7. op[p] # "edit" => seen[p] \subseteq Vers
  BY <1>1 DEF OnSubject
<1>. HIDE DEF rest
<1>8. CASE Over(p)
  BY <1>1, <1>8, OverIsOwn, EmptyIsLocal
<1>9. CASE op[p] = "graph" /\ ~Over(p)
  <2>1. LookForGraph(p)
    BY <1>9 DEF Look
  <2>2. Continue(p, rest) /\ seen' = [seen EXCEPT ![p] = @ \cup Enabled(at[p])]
        /\ UNCHANGED <<op, from, held>>
    BY <1>9, <2>1 DEF LookForGraph, rest
  <2>3. /\ todo'[p] = rest
        /\ \/ pc'[p] = "done" /\ at'[p] = List
           \/ pc'[p] = "look" /\ at'[p] \in Pkgs
    BY <1>1, <1>5, <2>2, ContinueIsOwn
  <2>4. op'[p] = op[p] /\ held'[p] = held[p] /\ seen'[p] = seen[p] \cup Enabled(at[p])
    BY <1>1, <2>2 DEF TypeOK, ProcTypes
  <2>5. Enabled(at[p]) = {f \in on \cap Vers : f[1] = at[p][1]}
    BY <1>1, <1>3, <1>9, EnabledAre
  <2>6. seen[p] = {e \in on \cap Vers : e[1] \notin todo[p]} /\ <<List, "S">> \in held[p]
    BY <1>1, <1>2, <1>9 DEF Reads, Locked
  <2>7. seen'[p] = {e \in on' \cap Vers : e[1] \notin todo'[p]}
    BY <1>6, <2>3, <2>4, <2>5, <2>6 DEF rest
  <2>8. seen'[p] \subseteq Vers
    BY <2>7
  <2>. QED BY <1>1, <1>4, <1>9, <2>3, <2>4, <2>6, <2>7, <2>8, ContinuedIsLocal
<1>10. CASE op[p] = "update" /\ ~Over(p)
  <2>1. LookForUpdate(p)
    BY <1>10 DEF Look
  <2>2. op'[p] = op[p] /\ seen'[p] = Enabled(at[p])
        /\ held'[p] = (held[p] \ SpLocks(p)) \cup {<<at[p], "S">>}
    BY <1>1, <2>1 DEF LookForUpdate, L!Trades, TypeOK, ProcTypes
  <2>3. seen'[p] \subseteq Vers /\ \A l \in Kept : <<l, "X">> \notin held'[p]
    BY <1>4, <2>2 DEF Enabled, VersionsIn
  <2>4. CASE Enabled(at[p]) = {}
    <3>1. Continue(p, rest)
      BY <2>1, <2>4 DEF LookForUpdate, rest
    <3>2. \/ pc'[p] = "done" /\ at'[p] = List
          \/ pc'[p] = "look" /\ at'[p] \in Pkgs
      BY <1>1, <1>5, <3>1, ContinueIsOwn
    <3>. QED BY <1>1, <1>10, <2>2, <2>3, <3>2, ContinuedIsLocal
  <2>5. CASE Enabled(at[p]) # {}
    <3>1. pc'[p] = "ask" /\ at'[p] = at[p]
      BY <1>1, <2>1, <2>5 DEF LookForUpdate, Goes, TypeOK, ProcTypes
    <3>2. OnCourse(p)'
      BY <1>10, <2>2, <3>1 DEF OnCourse
    <3>3. OnSubject(p)'
      BY <1>3, <1>10, <2>2, <2>3, <3>1, Shapes DEF OnSubject, Copying
    <3>4. Locked(p)'
      BY <1>3, <1>10, <2>2, <2>3, <3>1 DEF Locked, Opened, Copying, Pkg
    <3>5. Assured(p)'
      BY <1>10, <2>2, <3>1 DEF Assured, Opened, Copying
    <3>6. Enabled(Pkg(at[p]))' = Enabled(at[p]) /\ at[p] \notin Enabled(at[p])
      BY <1>3, <1>6, <1>10, <3>1, Shapes DEF Enabled, VersionsIn, Pkg
    <3>7. Reads(p)'
      BY <1>10, <2>2, <2>5, <3>1, <3>6 DEF Reads, Updating
    <3>. QED BY <3>2, <3>3, <3>4, <3>5, <3>7 DEF Local
  <2>. QED BY <2>4, <2>5
<1>11. CASE op[p] = "edit" /\ ~Over(p)
  <2>1. LookForEdit(p)
    BY <1>11 DEF Look
  <2>2. op'[p] = "edit" /\ pc'[p] = "editor" /\ at'[p] = at[p] /\ held'[p] = held[p]
    BY <1>1, <1>11, <2>1 DEF LookForEdit, Goes, TypeOK, ProcTypes
  <2>3. held[p] = {}
    BY <1>1, <1>2, <1>11 DEF Locked
  <2>4. at[p] # List
    BY <1>3, Shapes
  <2>5. OnCourse(p)'
    BY <2>2 DEF OnCourse
  <2>6. OnSubject(p)'
    BY <2>2, <2>4 DEF OnSubject, Copying
  <2>7. Locked(p)'
    BY <2>2, <2>3 DEF Locked, Opened, Copying
  <2>8. Assured(p)'
    BY <2>2 DEF Assured, Opened, Copying
  <2>9. Reads(p)'
    BY <2>2 DEF Reads, Updating
  <2>. QED BY <2>5, <2>6, <2>7, <2>8, <2>9 DEF Local
<1>. QED BY <1>2, <1>8, <1>9, <1>10, <1>11

\* The user leaves the editor.
LEMMA EditedIsLocal ==
  ASSUME IInv, NEW p \in Procs, Edited(p)
  PROVE  Local(p)'
<1>1. TypeOK /\ OnCourse(p) /\ OnSubject(p) /\ Locked(p) /\ pc[p] = "editor"
  BY DEF IInv, Local, Edited
<1>2. op[p] = "edit" /\ at[p] \in Entities /\ at[p] # List /\ held[p] = {}
  BY <1>1, WhoIsWhere, WhatItIsAt, Shapes
<1>3. CASE Over(p)
  BY <1>1, <1>3, OverIsOwn, EmptyIsLocal
<1>4. CASE ~Over(p)
  <2>1. op'[p] = "edit" /\ pc'[p] = "open" /\ at'[p] = at[p] /\ held'[p] = {}
    BY <1>1, <1>2, <1>4 DEF Edited, Goes, TypeOK, ProcTypes
  <2>2. OnCourse(p)'
    BY <2>1 DEF OnCourse
  <2>3. OnSubject(p)'
    BY <1>2, <2>1 DEF OnSubject, Copying
  <2>4. Locked(p)'
    BY <2>1 DEF Locked, Opened, Copying
  <2>5. Assured(p)'
    BY <2>1 DEF Assured, Opened, Copying
  <2>6. Reads(p)'
    BY <2>1 DEF Reads, Updating
  <2>. QED BY <2>2, <2>3, <2>4, <2>5, <2>6 DEF Local
<1>. QED BY <1>3, <1>4

\* The script stops, goes on to the next package, or has found a new version.
LEMMA AskIsLocal ==
  ASSUME IInv, NEW p \in Procs, Ask(p)
  PROVE  Local(p)'
<1>1. TypeOK /\ Rooted /\ OnCourse(p) /\ OnSubject(p) /\ Locked(p) /\ Reads(p) /\ pc[p] = "ask"
  BY DEF IInv, Local, Ask
<1>2. op[p] = "update" /\ at[p] \in Pkgs /\ Pkg(at[p]) = at[p] /\ UNCHANGED database
  BY <1>1, WhoIsWhere, Shapes DEF OnSubject, Ask
<1>3. seen[p] = Enabled(at[p]) \ {at[p]} /\ seen[p] # {} /\ seen[p] \subseteq Vers
  BY <1>1, <1>2 DEF Reads, Updating, OnSubject
<1>4. \A l \in Kept : <<l, "X">> \notin held[p]
  BY <1>1, LocksOfOthers
<1> DEFINE rest == todo[p] \ {at[p][1]}
<1>5. rest \in SUBSET Packages
  BY <1>1 DEF TypeOK, ProcTypes
<1>. HIDE DEF rest
<1>6. CASE Over(p)
  BY <1>1, <1>6, OverIsOwn, EmptyIsLocal
<1>7. CASE Continue(p, rest) /\ UNCHANGED <<op, from, seen, held>>
  <2>1. Continued(p, rest)
    BY <1>1, <1>5, <1>7, ContinuesIsOwn
  <2>. QED BY <1>1, <1>2, <1>3, <1>4, <2>1, ContinuedIsLocal DEF Continued
<1>8. ASSUME NEW v \in Vers, Pkg(v) = at[p], \A e \in VersionsIn(at[p]) : e[2] < v[2],
             at' = [at EXCEPT ![p] = v],
             held' = [held EXCEPT ![p] = KeptForUpgrade(p)], Goes(p, "open"),
             UNCHANGED <<op, todo, seen>>
      PROVE  Local(p)'
  <2>1. op'[p] = "update" /\ pc'[p] = "open" /\ at'[p] = v /\ held'[p] = held[p]
        /\ seen'[p] = seen[p]
    BY <1>1, <1>2, <1>8 DEF KeptForUpgrade, Goes, TypeOK, ProcTypes
  <2>2. v \notin there
    <3>1. v[2] \in Nat
      BY Shapes
    <3>. QED BY <1>8, <3>1 DEF VersionsIn
  <2>3. there' = there /\ on' = on
    BY <1>2 DEF database
  <2>4. <<Pkg(v), "S">> \in held[p]
    BY <1>1, <1>2, <1>8 DEF Locked
  <2>5. OnCourse(p)'
    BY <2>1 DEF OnCourse
  <2>6. OnSubject(p)'
    BY <1>3, <2>1, Shapes DEF OnSubject, Copying
  <2>7. Locked(p)'
    BY <1>4, <2>1, <2>4 DEF Locked, Opened, Copying, Pkg
  <2>8. Assured(p)'
    BY <2>1, <2>2, <2>3 DEF Assured, Opened, Copying
  <2>9. Enabled(Pkg(at[p]))' = Enabled(at[p]) /\ at[p] \notin Enabled(at[p])
        /\ v \notin Enabled(at[p])
    BY <1>2, <1>8, <2>1, <2>2, <2>3, Shapes DEF Enabled, VersionsIn, Pkg
  <2>10. Reads(p)'
    BY <1>3, <2>1, <2>9 DEF Reads, Updating
  <2>. QED BY <2>5, <2>6, <2>7, <2>8, <2>10 DEF Local
<1>. QED BY <1>6, <1>7, <1>8 DEF Ask, rest

\* What is known of a process that has opened its package, and what the lemma below asks for.
OpenedAs(p, c, a) ==
  /\ op'[p] = op[p] /\ pc'[p] = c /\ at'[p] = a /\ seen'[p] = seen[p]
  /\ <<Pkg(a), "S+">> \in held'[p]
  /\ \A l \in Kept : <<l, "S">> \notin held'[p] /\ <<l, "X">> \notin held'[p]

\* A process is at a place where it has a package open.
LEMMA OpenedIsLocal ==
  ASSUME TypeOK, NEW p \in Procs, NEW c, NEW a \in Entities, OpenedAs(p, c, a),
         c \in {"versions", "mount"} \cup Copying \/ (c = "write" /\ op[p] # "outdate"),
         OnCourse(p)', seen[p] \subseteq Vers \/ op[p] = "edit",
         op[p] \in {"hold", "unhold"} => a \in Pkgs,
         op[p] \in {"add", "delete", "copy", "build", "update"} => a \in Vers,
         op[p] = "destroy" /\ c = "versions" => a \in Vers,
         Assured(p)',
         op[p] = "update" /\ c # "on" =>
           seen[p] = {f \in (there' \cap Vers) \cap on' : Pkg(f) = Pkg(a)} \ {a} /\ seen[p] # {}
  PROVE  Local(p)'
<1>1. op'[p] = op[p] /\ pc'[p] = c /\ at'[p] = a /\ seen'[p] = seen[p]
  BY DEF OpenedAs
<1>2. a # List
  BY Shapes
<1>3. op[p] \notin {"idle", "graph", "outdate", "create"}
  BY <1>1 DEF OnCourse, Copying
<1>4. OnSubject(p)'
  BY <1>1, <1>2, <1>3 DEF OnSubject, Copying
<1>5. Locked(p)'
  BY <1>1, <1>3 DEF Locked, Opened, Copying, OpenedAs, Pkg
<1>6. Enabled(Pkg(at[p]))' = {f \in (there' \cap Vers) \cap on' : Pkg(f) = Pkg(a)}
  BY <1>1 DEF Enabled, VersionsIn, Pkg
<1>7. op[p] = "update" /\ c = "on" => ~Updating(p)'
  BY <1>1 DEF Updating
<1>8. Reads(p)'
  BY <1>1, <1>3, <1>6, <1>7 DEF Reads
<1>. QED BY <1>4, <1>5, <1>8 DEF Local

\* A process opens a package.
LEMMA OpenIsLocal ==
  ASSUME IInv, NEW p \in Procs, Open(p)
  PROVE  Local(p)'
<1>1. TypeOK /\ Rooted /\ OnCourse(p) /\ OnSubject(p) /\ Locked(p) /\ Reads(p) /\ Assured(p)
  BY DEF IInv, Local
<1>2. pc[p] = "open" /\ UNCHANGED database
  BY DEF Open, Gets
<1>3. op[p] \in {"update", "edit", "build", "delete", "copy", "destroy", "add", "hold", "unhold",
                 "fix", "unfix", "enable", "disable"}
  BY <1>1, <1>2, WhoIsWhere
<1>4. at[p] \in Entities /\ at[p] # List
  BY <1>2, WhatItIsAt, Shapes
<1>5. /\ \A l \in Kept : <<l, "X">> \notin held[p]
      /\ \A l \in Kept : <<l, "S">> \notin held[p] \ (SpLocks(p) \cup Sp2Locks(p))
  BY <1>2, LocksOfOthers DEF SpLocks
<1>6. there' = there /\ on' = on /\ fixed' = fixed /\ frozen' = frozen
  BY <1>2 DEF database
<1>7. op[p] # "edit" => seen[p] \subseteq Vers
  BY <1>1 DEF OnSubject
<1>8. op[p] = "update" => seen[p] = {f \in (there' \cap Vers) \cap on' : Pkg(f) = Pkg(at[p])}
                                      \ {at[p]} /\ seen[p] # {}
  BY <1>1, <1>2, <1>6 DEF Reads, Updating, Enabled, VersionsIn
<1>9. CASE Empty(p)'
  BY <1>9, EmptyIsLocal
<1>10. CASE Opens(p) /\ ~Refused(p) /\ op[p] # "destroy" /\ Opening(p, AfterOpen(op[p]), at[p])
  <2> DEFINE c == AfterOpen(op[p])
  <2>1. /\ op[p] \in {"add", "delete", "copy", "update", "hold", "unhold"} => c = "versions"
        /\ op[p] = "build" => c = "mount"
        /\ op[p] \in {"edit", "fix", "unfix", "enable", "disable"} => c = "write"
    BY DEF AfterOpen
  <2>. HIDE DEF c
  <2>2. OpenedAs(p, c, at[p])
    BY <1>5, <1>10 DEF OpenedAs, Opening, Moved, c
  <2>3. pc'[p] = c /\ op'[p] = op[p] /\ at'[p] = at[p]
    BY <2>2 DEF OpenedAs
  <2>4. OnCourse(p)'
    BY <1>3, <1>10, <2>1, <2>3 DEF OnCourse
  <2>5. op[p] \in {"add", "delete", "copy", "build", "update"} => at[p] \in Vers
    BY <1>1, <1>2 DEF OnSubject
  <2>6. op[p] \in {"hold", "unhold"} => at[p] \in Pkgs
    BY <1>1 DEF OnSubject
  <2>7. /\ op[p] \in {"add", "delete", "copy", "update"} => at[p][1] \notin frozen
        /\ op[p] = "copy" => at[p] \notin there
        /\ op[p] \in {"build", "enable", "disable", "edit", "fix", "unfix"} => at[p] \in there
        /\ Pkg(at[p]) \in there
    BY <1>10 DEF Refused, Opens
  <2>8. op[p] = "update" => at[p] \notin there
    BY <1>1, <1>2 DEF Assured
  <2>9. Assured(p)'
    BY <1>3, <1>6, <1>10, <2>1, <2>3, <2>7, <2>8 DEF Assured, Opened, Copying, Pkg
  <2>10. c \in {"versions", "mount"} \cup Copying \/ (c = "write" /\ op[p] # "outdate")
    BY <1>3, <1>10, <2>1
  <2>. QED BY <1>1, <1>4, <1>7, <1>8, <1>10, <2>2, <2>4, <2>5, <2>6, <2>9, <2>10, OpenedIsLocal
<1>11. ASSUME NEW e \in VersionsIn(Pkg(at[p])), Opens(p), ~Refused(p), op[p] = "destroy",
              Opening(p, "versions", e)
       PROVE  Local(p)'
  <2>1. e \in Vers /\ e \in Entities /\ Pkg(e) = Pkg(at[p]) /\ e[1] = at[p][1]
    BY <1>4, Shapes DEF VersionsIn
  <2>2. OpenedAs(p, "versions", e)
    BY <1>5, <1>11, <2>1 DEF OpenedAs, Opening, Moved
  <2>3. pc'[p] = "versions" /\ op'[p] = "destroy" /\ at'[p] = e
    BY <1>11, <2>2 DEF OpenedAs
  <2>4. OnCourse(p)'
    BY <2>3 DEF OnCourse
  <2>5. at[p][1] \notin frozen /\ Pkg(e) \in there
    BY <1>11, <2>1 DEF Refused, Opens
  <2>6. Assured(p)'
    BY <1>6, <2>1, <2>3, <2>5 DEF Assured, Opened, Copying, Pkg
  <2>. QED BY <1>1, <1>7, <1>11, <2>1, <2>2, <2>4, <2>6, OpenedIsLocal
<1>12. CASE op[p] = "destroy" /\ (Opening(p, "list", at[p])
                                  \/ (Moved(p, "list", at[p]) /\ held'[p] = held[p]))
  <2>1. op'[p] = "destroy" /\ pc'[p] = "list" /\ at'[p] = at[p] /\ seen'[p] = seen[p]
    BY <1>12 DEF Opening, Moved
  <2>2. \A l \in Kept : <<l, "S">> \notin held'[p] /\ <<l, "X">> \notin held'[p]
    <3>1. \A l \in Kept : <<l, "S">> \notin held[p]
      BY <1>12, LocksOfOthers
    <3>2. \A l \in Kept : <<l, "X">> \notin held[p]
      BY <1>5
    <3>3. held'[p] \subseteq held[p] \cup {<<Pkg(at[p]), "S+">>}
      BY <1>12 DEF Opening
    <3>. QED BY <3>1, <3>2, <3>3
  <2>3. OnCourse(p)'
    BY <2>1 DEF OnCourse
  <2>4. OnSubject(p)'
    BY <1>4, <1>7, <1>12, <2>1 DEF OnSubject, Copying
  <2>5. Locked(p)'
    BY <2>1, <2>2 DEF Locked, Opened, Copying
  <2>6. Assured(p)'
    BY <2>1 DEF Assured, Opened, Copying
  <2>7. Reads(p)'
    BY <2>1 DEF Reads, Updating
  <2>. QED BY <2>3, <2>4, <2>5, <2>6, <2>7 DEF Local
<1>. QED BY <1>1, <1>9, <1>10, <1>11, <1>12, OpenIsOwn

\* What is assured of a process that has a package open does not depend on a step that
\* leaves these as they are.
LEMMA OpenedBefore ==
  ASSUME IInv, NEW p \in Procs,
         pc[p] \in {"versions", "mount", "row"} \cup Copying
  PROVE  /\ at[p] \in Entities
         /\ <<Pkg(at[p]), "S+">> \in held[p] /\ Pkg(at[p]) \in there
         /\ pc[p] # "row" =>
              \A l \in Kept : <<l, "S">> \notin held[p] /\ <<l, "X">> \notin held[p]
         /\ op[p] \in {"add", "delete", "copy", "update", "destroy"} => at[p][1] \notin frozen
         /\ op[p] # "edit" /\ seen[p] \subseteq Vers
         /\ op[p] = "update" /\ pc[p] # "on" =>
              seen[p] = {f \in (there \cap Vers) \cap on : Pkg(f) = Pkg(at[p])} \ {at[p]}
              /\ seen[p] # {}
<1>1. TypeOK /\ OnCourse(p) /\ OnSubject(p) /\ Assured(p) /\ Locked(p) /\ Reads(p) /\ Opened(p)
  BY DEF IInv, Local, Opened
<1>2. at[p] \in Entities /\ <<Pkg(at[p]), "S+">> \in held[p] /\ Pkg(at[p]) \in there
  BY WhatItIsAt DEF Copying
<1>3. op[p] # "graph" /\ op[p] # "edit"
  BY <1>1, WhoIsWhere DEF Copying
<1>4. pc[p] # "row" => \A l \in Kept : <<l, "S">> \notin held[p] /\ <<l, "X">> \notin held[p]
  BY <1>1, <1>3, LocksOfOthers
<1>5. op[p] \in {"add", "delete", "copy", "update", "destroy"} => at[p][1] \notin frozen
  BY <1>1 DEF Assured
<1>6. seen[p] \subseteq Vers
  BY <1>1, <1>3 DEF OnSubject
<1>7. op[p] = "update" /\ pc[p] # "on" => Updating(p)
  <2>1. op[p] = "update" => pc[p] \notin {"mount", "row"}
    BY <1>1, WhoIsWhere
  <2>. QED BY <2>1 DEF Updating, Copying
<1>8. op[p] = "update" /\ pc[p] # "on" =>
        seen[p] = {f \in (there \cap Vers) \cap on : Pkg(f) = Pkg(at[p])} \ {at[p]}
        /\ seen[p] # {}
  BY <1>1, <1>7 DEF Reads, Enabled, VersionsIn
<1>. QED BY <1>2, <1>3, <1>4, <1>5, <1>6, <1>8

\* A build has mounted the scratch space.
LEMMA MountIsLocal ==
  ASSUME IInv, NEW p \in Procs, Mount(p), ~Over(p)
  PROVE  Local(p)'
<1>1. TypeOK /\ OnCourse(p) /\ OnSubject(p) /\ Assured(p) /\ pc[p] = "mount"
  BY DEF IInv, Local, Mount
<1>2. op[p] = "build" /\ at[p] \in Vers /\ at[p] \in there
  BY <1>1, WhoIsWhere, WhatItIsAt
<1>3. op'[p] = "build" /\ pc'[p] = "write" /\ at'[p] = at[p] /\ seen'[p] = seen[p]
      /\ held'[p] = held[p] /\ UNCHANGED database
  BY <1>1, <1>2 DEF Mount, Goes, plan, TypeOK, ProcTypes
<1>4. OpenedAs(p, "write", at[p])
  BY <1>1, <1>2, <1>3, OpenedBefore DEF OpenedAs
<1>5. OnCourse(p)'
  BY <1>3 DEF OnCourse
<1>6. Assured(p)'
  BY <1>1, <1>2, <1>3, OpenedBefore DEF Assured, Opened, Copying, Pkg, database
<1>. QED BY <1>1, <1>2, <1>4, <1>5, <1>6, OpenedBefore, OpenedIsLocal

\* A process is about to outdate a version.
LEMMA OutdatingIsLocal ==
  ASSUME TypeOK, NEW p \in Procs, Outdating(p), op[p] = "outdate", <<List, "S+">> \in held'[p],
         \A l \in Kept : <<l, "S">> \notin held'[p] /\ <<l, "X">> \notin held'[p]
  PROVE  Local(p)'
<1>1. op'[p] = "outdate" /\ pc'[p] = "write" /\ at'[p] \in seen'[p] /\ seen'[p] \subseteq Vers
  BY DEF Outdating
<1>2. at'[p] # List
  BY <1>1, Shapes
<1>3. OnCourse(p)'
  BY <1>1 DEF OnCourse
<1>4. OnSubject(p)'
  BY <1>1, <1>2 DEF OnSubject, Copying
<1>5. Locked(p)'
  BY <1>1 DEF Locked, Opened, Copying
<1>6. Assured(p)'
  BY <1>1 DEF Assured, Opened, Copying
<1>7. Reads(p)'
  BY <1>1 DEF Reads, Updating
<1>. QED BY <1>3, <1>4, <1>5, <1>6, <1>7 DEF Local

\* A version is written to.
LEMMA WriteIsLocal ==
  ASSUME IInv, NEW p \in Procs, Write(p)
  PROVE  Local(p)'
<1>1. TypeOK /\ OnCourse(p) /\ OnSubject(p) /\ Locked(p) /\ pc[p] = "write"
  BY DEF IInv, Local, Write, Gets
<1>2. CASE Empty(p)'
  BY <1>2, EmptyIsLocal
<1>3. CASE op[p] = "outdate" /\ Outdating(p) /\ held'[p] = held[p]
  <2>1. <<List, "S+">> \in held[p]
    BY <1>1, <1>3 DEF Locked
  <2>2. \A l \in Kept : <<l, "S">> \notin held[p] /\ <<l, "X">> \notin held[p]
    BY <1>1, <1>3, LocksOfOthers
  <2>. QED BY <1>1, <1>3, <2>1, <2>2, OutdatingIsLocal
<1>. QED BY <1>1, <1>2, <1>3, WriteIsOwn

\* All versions are going to be outdated.
LEMMA OutdateAllIsLocal ==
  ASSUME IInv, NEW p \in Procs, OutdateAll(p)
  PROVE  Local(p)'
<1>1. TypeOK /\ OnCourse(p) /\ Locked(p) /\ pc[p] = "all"
  BY DEF IInv, Local, OutdateAll, Gets
<1>2. op[p] = "outdate" /\ held[p] = {}
  BY <1>1, WhoIsWhere, WhatItIsAt
<1>3. CASE Empty(p)'
  BY <1>3, EmptyIsLocal
<1>4. CASE Outdating(p) /\ held'[p] = held[p] \cup {<<List, "S+">>}
  BY <1>1, <1>2, <1>4, OutdatingIsLocal
<1>. QED BY <1>1, <1>3, <1>4, OutdateAllIsOwn

\* A version is there, and is about to be copied to.
LEMMA AddVersionIsLocal ==
  ASSUME IInv, NEW p \in Procs, AddVersion(p)
  PROVE  Local(p)'
<1>1. TypeOK /\ Rooted /\ OnCourse(p) /\ OnSubject(p) /\ Assured(p) /\ pc[p] = "versions"
  BY DEF IInv, Local, AddVersion, Gets
<1>2. op[p] \in {"add", "copy", "update"} /\ at[p] \in Vers
  BY <1>1, WhatItIsAt DEF AddVersion
<1>3. CASE Over(p)
  BY <1>1, <1>3, OverIsOwn, EmptyIsLocal
<1>4. CASE ~Over(p)
  <2>1. op'[p] = op[p] /\ pc'[p] = "copy" /\ at'[p] = at[p] /\ seen'[p] = seen[p]
        /\ held'[p] = held[p] /\ op[p] \in {"copy", "update"}
    BY <1>1, <1>2, <1>4 DEF AddVersion, Goes, plan, TypeOK, ProcTypes
  <2>2. there' = there \cup {at[p]} /\ on' = on /\ fixed' = fixed /\ frozen' = frozen
    BY <1>4 DEF AddVersion
  <2>3. at[p] \notin there
    BY <1>1, <2>1 DEF Assured
  <2>4. at[p] \notin fixed
    BY <1>1, <2>3 DEF Rooted
  <2>5. OpenedAs(p, "copy", at[p])
    BY <1>1, <2>1, OpenedBefore DEF OpenedAs
  <2>6. OnCourse(p)'
    BY <2>1 DEF OnCourse, Copying
  <2>7. Assured(p)'
    BY <1>1, <2>1, <2>2, <2>4, OpenedBefore DEF Assured, Opened, Copying, Pkg
  <2>8. op[p] = "update" =>
          seen[p] = {f \in (there' \cap Vers) \cap on' : Pkg(f) = Pkg(at[p])} \ {at[p]}
          /\ seen[p] # {}
    <3>1. op[p] = "update" =>
            seen[p] = {f \in (there \cap Vers) \cap on : Pkg(f) = Pkg(at[p])} \ {at[p]}
            /\ seen[p] # {}
      BY <1>1, OpenedBefore
    <3>. QED BY <2>2, <3>1
  <2>. QED BY <1>1, <1>2, <2>1, <2>5, <2>6, <2>7, <2>8, OpenedBefore, OpenedIsLocal DEF Copying
<1>. QED BY <1>3, <1>4

\* The scratch space is gone, and the version is about to go.
LEMMA DeleteSpaceIsLocal ==
  ASSUME IInv, NEW p \in Procs, DeleteSpace(p)
  PROVE  Local(p)'
<1>1. TypeOK /\ OnCourse(p) /\ OnSubject(p) /\ pc[p] = "versions"
  BY DEF IInv, Local, DeleteSpace, Gets
<1>2. op[p] \in {"delete", "destroy"} /\ at[p] \in Vers /\ at[p] # List
  BY <1>1, WhatItIsAt, Shapes DEF DeleteSpace
<1>3. op'[p] = op[p] /\ pc'[p] = "row" /\ at'[p] = at[p] /\ seen'[p] = seen[p]
      /\ held'[p] = held[p] \cup {<<Pkg(at[p]), "X">>}
  BY <1>1, DeleteSpaceIsOwn DEF Moved
<1>4. <<Pkg(at[p]), "S+">> \in held[p] /\ Pkg(at[p]) \in there /\ at[p][1] \notin frozen
      /\ seen[p] \subseteq Vers
  BY <1>1, <1>2, OpenedBefore
<1>5. \A l \in Kept : <<l, "S">> \notin held[p] /\ <<l, "X">> \notin held[p]
  BY <1>1, OpenedBefore
<1>6. OnCourse(p)'
  BY <1>2, <1>3 DEF OnCourse
<1>7. OnSubject(p)'
  BY <1>2, <1>3, <1>4 DEF OnSubject, Copying
<1>8. Locked(p)'
  <2>1. \A l \in Kept : <<l, "S">> \notin held'[p]
    BY <1>3, <1>5
  <2>2. \A l \in Kept : <<l, "X">> \in held'[p] => l = Pkg(at[p])
    BY <1>3, <1>5
  <2>3. <<Pkg(at[p]), "S+">> \in held'[p] /\ <<Pkg(at[p]), "X">> \in held'[p]
    BY <1>3, <1>4
  <2>. QED BY <1>2, <1>3, <2>1, <2>2, <2>3 DEF Locked, Opened, Copying, Pkg
<1>9. Assured(p)'
  <2>1. there' = there /\ frozen' = frozen /\ at[p] \notin spaces'
    BY DEF DeleteSpace, database
  <2>. QED BY <1>2, <1>3, <1>4, <2>1 DEF Assured, Opened, Copying, Pkg
<1>10. Reads(p)'
  BY <1>2, <1>3 DEF Reads
<1>. QED BY <1>6, <1>7, <1>8, <1>9, <1>10 DEF Local

\* A space that has no lock stops the destruction of the package.
LEMMA SpaceHasNoLockIsLocal ==
  ASSUME IInv, NEW p \in Procs, SpaceHasNoLock(p), ~Over(p)
  PROVE  Local(p)'
<1>1. TypeOK /\ OnCourse(p) /\ OnSubject(p) /\ Locked(p) /\ pc[p] = "versions"
  BY DEF IInv, Local, SpaceHasNoLock, Gets
<1>2. /\ op[p] = "destroy" /\ Goes(p, "list") /\ UNCHANGED <<op, at, plan, held>>
  BY DEF SpaceHasNoLock
<1>3. at[p] \in Vers /\ at[p] # List
  BY <1>1, <1>2, WhatItIsAt, Shapes
<1>4. op'[p] = "destroy" /\ pc'[p] = "list" /\ at'[p] = at[p] /\ seen'[p] \subseteq Vers
      /\ held'[p] = held[p]
  BY <1>1, <1>2, OpenedBefore DEF Goes, plan, TypeOK, ProcTypes
<1>5. OnCourse(p)'
  BY <1>4 DEF OnCourse
<1>6. OnSubject(p)'
  BY <1>3, <1>4 DEF OnSubject, Copying
<1>7. Locked(p)'
  BY <1>1, <1>4, OpenedBefore DEF Locked, Opened, Copying
<1>8. Assured(p)'
  BY <1>4 DEF Assured, Opened, Copying
<1>9. Reads(p)'
  BY <1>4 DEF Reads
<1>. QED BY <1>5, <1>6, <1>7, <1>8, <1>9 DEF Local

\* A version is gone, and the next one or the package is about to go.
LEMMA DeleteRowIsLocal ==
  ASSUME IInv, NEW p \in Procs, DeleteRow(p)
  PROVE  Local(p)'
<1>1. TypeOK /\ OnCourse(p) /\ OnSubject(p) /\ Locked(p) /\ pc[p] = "row"
  BY DEF IInv, Local, DeleteRow
<1>2. at[p] \in Vers /\ at[p] \in Entities /\ at[p] # List
  BY <1>1, WhatItIsAt, Shapes
<1>3. CASE Empty(p)'
  BY <1>3, EmptyIsLocal
<1>4. ASSUME op[p] = "destroy", held'[p] = held[p] \ {<<Pkg(at[p]), "X">>}
      PROVE  /\ \A l \in Kept : <<l, "S">> \notin held'[p] /\ <<l, "X">> \notin held'[p]
             /\ <<Pkg(at[p]), "S+">> \in held'[p]
  <2>1. \A l \in Kept : <<l, "X">> \in held[p] => l = Pkg(at[p])
    BY <1>1, LocksOfOthers
  <2>2. \A l \in Kept : <<l, "S">> \notin held[p]
    BY <1>4, LocksOfOthers
  <2>3. <<Pkg(at[p]), "S+">> \in held[p]
    BY <1>1, OpenedBefore
  <2>4. <<Pkg(at[p]), "S+">> # <<Pkg(at[p]), "X">>
    OBVIOUS
  <2>. QED BY <1>4, <2>1, <2>2, <2>3, <2>4
<1>5. CASE op[p] = "destroy" /\ held'[p] = held[p] \ {<<Pkg(at[p]), "X">>}
           /\ Moved(p, "list", at[p])
  <2>1. op'[p] = "destroy" /\ pc'[p] = "list" /\ at'[p] = at[p] /\ seen'[p] \subseteq Vers
    BY <1>1, <1>5, OpenedBefore DEF Moved
  <2>2. OnCourse(p)'
    BY <2>1 DEF OnCourse
  <2>3. OnSubject(p)'
    BY <1>2, <2>1 DEF OnSubject, Copying
  <2>4. Locked(p)'
    BY <1>4, <1>5, <2>1 DEF Locked, Opened, Copying
  <2>5. Assured(p)'
    BY <2>1 DEF Assured, Opened, Copying
  <2>6. Reads(p)'
    BY <2>1 DEF Reads
  <2>. QED BY <2>2, <2>3, <2>4, <2>5, <2>6 DEF Local
<1>6. ASSUME op[p] = "destroy", held'[p] = held[p] \ {<<Pkg(at[p]), "X">>},
             NEW e \in VersionsIn(Pkg(at[p])) \ {at[p]}, Moved(p, "versions", e)
      PROVE  Local(p)'
  <2>1. e \in Vers /\ e \in Entities /\ Pkg(e) = Pkg(at[p]) /\ e[1] = at[p][1]
    BY <1>2, Shapes DEF VersionsIn
  <2>2. op'[p] = "destroy" /\ pc'[p] = "versions" /\ at'[p] = e
    BY <1>6 DEF Moved
  <2>3. OpenedAs(p, "versions", e)
    BY <1>4, <1>6, <2>1 DEF OpenedAs, Moved
  <2>4. OnCourse(p)'
    BY <2>2 DEF OnCourse
  <2>5. Pkg(e) \in there' /\ e[1] \notin frozen'
    <3>1. there' = there \ {at[p]} /\ frozen' = frozen
      BY DEF DeleteRow, Delete
    <3>2. Pkg(e) \in Pkgs /\ Pkg(e) # at[p]
      BY <1>2, <2>1, Shapes
    <3>3. Pkg(e) \in there /\ e[1] \notin frozen
      BY <1>1, <1>6, <2>1, OpenedBefore
    <3>. QED BY <3>1, <3>2, <3>3
  <2>6. Assured(p)'
    BY <2>2, <2>5 DEF Assured, Opened, Copying, Pkg
  <2>7. seen[p] \subseteq Vers
    BY <1>1, OpenedBefore
  <2>. QED BY <1>1, <1>6, <2>1, <2>3, <2>4, <2>6, <2>7, OpenedIsLocal
<1>. QED BY <1>1, <1>3, <1>5, <1>6, DeleteRowIsOwn

\* Going on at a place of the copying.  What is asked for is that the attribute of the version
\* at hand is all that has changed.
LEMMA CopyingIsLocal ==
  ASSUME IInv, NEW p \in Procs, pc[p] \in Copying, NEW c \in Copying \ {"copy"},
         op[p] = "update", op'[p] = op[p], pc'[p] = c, at'[p] = at[p], seen'[p] = seen[p],
         held'[p] = held[p], there' = there, fixed' = fixed, frozen' = frozen,
         c # "on" => pc[p] # "on" /\ \A e \in Vers : e # at[p] => (e \in on' <=> e \in on)
  PROVE  Local(p)'
<1>1. TypeOK /\ OnCourse(p) /\ OnSubject(p) /\ Assured(p)
  BY DEF IInv, Local
<1>2. at[p] \in Vers /\ at[p] \in there /\ at[p] \notin fixed /\ at[p] \in Entities
  BY <1>1, WhatItIsAt DEF Copying
<1>3. OpenedAs(p, c, at[p])
  BY OpenedBefore DEF OpenedAs, Copying
<1>4. OnCourse(p)'
  BY DEF OnCourse, Copying
<1>5. Pkg(at[p]) \in there /\ at[p][1] \notin frozen /\ seen[p] \subseteq Vers
  BY OpenedBefore
<1>6. Assured(p)'
  BY <1>2, <1>5 DEF Assured, Opened, Copying, Pkg
<1>7. c # "on" => seen[p] = {f \in (there' \cap Vers) \cap on' : Pkg(f) = Pkg(at[p])} \ {at[p]}
                  /\ seen[p] # {}
  <2> SUFFICES ASSUME c # "on"
               PROVE  seen[p] = {f \in (there' \cap Vers) \cap on' : Pkg(f) = Pkg(at[p])} \ {at[p]}
                      /\ seen[p] # {}
    OBVIOUS
  <2>1. seen[p] = {f \in (there \cap Vers) \cap on : Pkg(f) = Pkg(at[p])} \ {at[p]}
        /\ seen[p] # {}
    BY OpenedBefore
  <2>. QED BY <2>1
<1>. QED BY <1>1, <1>2, <1>3, <1>4, <1>5, <1>6, <1>7, OpenedIsLocal

\* The steps of the copying.
LEMMA CopyStepsAreLocal ==
  ASSUME IInv, NEW p \in Procs,
         CopyAttributes(p) \/ DisableNew(p) \/ Answer(p) \/ DisableOld(p) \/ EnableNew(p)
  PROVE  Local(p)'
<1>1. TypeOK /\ OnCourse(p) /\ OnSubject(p)
  BY DEF IInv, Local
<1>2. CASE Over(p)
  BY <1>1, <1>2, OverIsOwn, EmptyIsLocal
<1> DEFINE rest == todo[p] \ {at[p][1]}
<1>3. rest \in SUBSET Packages
  BY <1>1 DEF TypeOK, ProcTypes
<1>. HIDE DEF rest
<1>4. ASSUME Continue(p, rest), UNCHANGED <<op, from, seen, held>>,
             pc[p] \in {"answer", "on"}
      PROVE  Local(p)'
  <2>1. Continued(p, rest)
    BY <1>1, <1>3, <1>4, ContinuesIsOwn
  <2>2. op[p] = "update"
    BY <1>1, <1>4, WhoIsWhere
  <2>3. seen[p] \subseteq Vers /\ \A l \in Kept : <<l, "X">> \notin held[p]
    BY <1>4, OpenedBefore DEF Copying
  <2>. QED BY <1>1, <2>1, <2>2, <2>3, ContinuedIsLocal DEF Continued
<1>5. CASE CopyAttributes(p) /\ ~Over(p)
  <2>1. pc[p] = "copy" /\ op[p] = "update"
    BY <1>1, <1>5, WhoIsWhere DEF CopyAttributes, Gets
  <2>2. op'[p] = op[p] /\ pc'[p] = "off" /\ at'[p] = at[p] /\ seen'[p] = seen[p]
        /\ held'[p] = held[p] /\ there' = there /\ fixed' = fixed /\ frozen' = frozen
    BY <1>1, <1>5, <2>1 DEF CopyAttributes, Goes, plan, TypeOK, ProcTypes
  <2>3. \A e \in Vers : e # at[p] => (e \in on' <=> e \in on)
    BY <1>5 DEF CopyAttributes
  <2>4. pc[p] \in Copying /\ "off" \in Copying \ {"copy"}
    BY <2>1 DEF Copying
  <2>. QED BY <2>1, <2>2, <2>3, <2>4, CopyingIsLocal
<1>6. CASE DisableNew(p)
  <2>1. pc[p] = "off" /\ op[p] = "update"
    BY <1>1, <1>6, WhoIsWhere DEF DisableNew, Gets
  <2>2. op'[p] = op[p] /\ pc'[p] = "answer" /\ at'[p] = at[p] /\ seen'[p] = seen[p]
        /\ held'[p] = held[p] /\ there' = there /\ fixed' = fixed /\ frozen' = frozen
    BY <1>1, <1>6, <2>1 DEF DisableNew, Goes, plan, TypeOK, ProcTypes
  <2>3. \A e \in Vers : e # at[p] => (e \in on' <=> e \in on)
    BY <1>6 DEF DisableNew
  <2>4. pc[p] \in Copying /\ "answer" \in Copying \ {"copy"}
    BY <2>1 DEF Copying
  <2>. QED BY <2>1, <2>2, <2>3, <2>4, CopyingIsLocal
<1>7. CASE Answer(p)
  <2>1. pc[p] = "answer" /\ op[p] = "update"
    BY <1>1, <1>7, WhoIsWhere DEF Answer
  <2>2. CASE Continue(p, rest)
    <3>1. UNCHANGED <<op, from, seen, held>>
      BY <1>7 DEF Answer
    <3>. QED BY <1>4, <2>1, <2>2, <3>1
  <2>3. CASE Goes(p, "old") /\ UNCHANGED <<at, todo>>
    <3>1. op'[p] = op[p] /\ pc'[p] = "old" /\ at'[p] = at[p] /\ seen'[p] = seen[p]
          /\ held'[p] = held[p] /\ there' = there /\ fixed' = fixed /\ frozen' = frozen
          /\ on' = on
      BY <1>1, <1>7, <2>1, <2>3 DEF Answer, Goes, database, TypeOK, ProcTypes
    <3>2. pc[p] \in Copying /\ "old" \in Copying \ {"copy"}
      BY <2>1 DEF Copying
    <3>. QED BY <2>1, <3>1, <3>2, CopyingIsLocal
  <2>. QED BY <1>7, <2>2, <2>3 DEF Answer, rest
<1>8. CASE DisableOld(p) /\ ~Over(p)
  <2>1. pc[p] = "old" /\ op[p] = "update"
    BY <1>1, <1>8, WhoIsWhere DEF DisableOld, Gets
  <2>2. op'[p] = op[p] /\ pc'[p] = "on" /\ at'[p] = at[p] /\ seen'[p] = seen[p]
        /\ held'[p] = held[p] /\ there' = there /\ fixed' = fixed /\ frozen' = frozen
    BY <1>1, <1>8, <2>1 DEF DisableOld, Goes, plan, TypeOK, ProcTypes
  <2>3. pc[p] \in Copying /\ "on" \in Copying \ {"copy"}
    BY <2>1 DEF Copying
  <2>. QED BY <2>1, <2>2, <2>3, CopyingIsLocal
<1>9. CASE EnableNew(p)
  <2>1. pc[p] = "on" /\ Continue(p, rest) /\ UNCHANGED <<op, from, seen, held>>
    BY <1>9 DEF EnableNew, Gets, rest
  <2>. QED BY <1>4, <2>1
<1>. QED BY <1>2, <1>5, <1>6, <1>7, <1>8, <1>9

\* A step leaves all that is said of the process that takes it.
LEMMA ActorStays ==
  ASSUME IInv, NEW p \in Procs, Step(p)
  PROVE  Local(p)'
<1>1. CASE Over(p)
  <2>1. TypeOK
    BY DEF IInv
  <2>. QED BY <1>1, <2>1, OverIsOwn, EmptyIsLocal
<1>2. CASE Begin(p) \/ ListNames(p) \/ Look(p) \/ Edited(p) \/ Ask(p)
  BY <1>2, BeginIsLocal, ListNamesIsLocal, LookIsLocal, EditedIsLocal, AskIsLocal
<1>3. CASE Open(p) \/ Mount(p) \/ Write(p) \/ OutdateAll(p) \/ AddVersion(p) \/ DeleteSpace(p)
           \/ SpaceHasNoLock(p) \/ DeleteRow(p)
  BY <1>1, <1>3, OpenIsLocal, MountIsLocal, WriteIsLocal, OutdateAllIsLocal, AddVersionIsLocal,
     DeleteSpaceIsLocal, SpaceHasNoLockIsLocal, DeleteRowIsLocal
<1>4. CASE CopyAttributes(p) \/ DisableNew(p) \/ Answer(p) \/ DisableOld(p) \/ EnableNew(p)
  BY <1>4, CopyStepsAreLocal
<1>5. CASE Done(p) \/ CreatePackage(p) \/ HoldVersions(p) \/ SpaceStays(p) \/ DeletePackage(p)
           \/ MountDies(p) \/ Dies(p)
  BY <1>1, <1>5 DEF Done, CreatePackage, HoldVersions, SpaceStays, DeletePackage, MountDies, Dies
<1>. QED BY <1>2, <1>3, <1>4, <1>5 DEF Step

-----------------------------------------------------------------------------
(* The destruction of packages.                                            *)

\* Which steps of a destruction lead to the list or to the next version.
LEMMA ComesToVictim ==
  ASSUME IInv, NEW p \in Procs, Step(p), op'[p] = "destroy", pc'[p] \in {"versions", "list"}
  PROVE  Open(p) \/ DeleteRow(p) \/ SpaceHasNoLock(p)
<1>1. TypeOK /\ OnCourse(p)
  BY DEF IInv, Local
<1>2. ~Over(p)
  BY <1>1 DEF Over, TypeOK, ProcTypes
<1>3. ~Begin(p)
  BY <1>1 DEF Begin, Goes, FirstStep, TypeOK, ProcTypes
<1>4. ~ListNames(p) /\ ~Edited(p) /\ ~Ask(p) /\ ~Done(p)
  BY <1>1, <1>2 DEF ListNames, Edited, Ask, Done, Continue, Goes, TypeOK, ProcTypes
<1>10. ~Look(p)
  <2>1. ASSUME NEW c \in {"done", "look", "ask", "editor"}, pc' = [pc EXCEPT ![p] = c]
        PROVE  FALSE
    BY <1>1, <2>1 DEF TypeOK, ProcTypes
  <2>2. ASSUME Look(p)
        PROVE  \E c \in {"done", "look", "ask", "editor"} : pc' = [pc EXCEPT ![p] = c]
    <3>1. op[p] \in {"graph", "update", "edit"} /\ pc[p] = "look"
      BY <1>1, <2>2, WhoIsWhere DEF Look, Gets
    <3>2. LookForGraph(p) \/ LookForUpdate(p) \/ LookForEdit(p)
      BY <1>2, <2>2, <3>1 DEF Look
    <3>. QED BY <1>2, <3>1, <3>2 DEF LookForGraph, LookForUpdate, LookForEdit, Continue, Goes
  <2>. QED BY <2>1, <2>2
<1>5. ~Mount(p) /\ ~MountDies(p) /\ ~OutdateAll(p)
  BY <1>1, <1>2 DEF Mount, MountDies, OutdateAll, Goes, TypeOK, ProcTypes
<1>6. ~Write(p)
  <2>1. pc[p] = "write" /\ Write(p) => pc' = pc \/ Over(p)
    BY DEF Write
  <2>2. Write(p) => pc[p] = "write"
    BY DEF Write, Gets
  <2>. QED BY <1>2, <2>1, <2>2
<1>7. ~CreatePackage(p) /\ ~HoldVersions(p) /\ ~SpaceStays(p) /\ ~DeletePackage(p) /\ ~Dies(p)
  BY <1>2 DEF CreatePackage, HoldVersions, SpaceStays, DeletePackage, Dies
<1>8. ~AddVersion(p) /\ ~DeleteSpace(p)
  BY <1>1, <1>2 DEF AddVersion, DeleteSpace, Goes, TypeOK, ProcTypes
<1>9. ~CopyAttributes(p) /\ ~DisableNew(p) /\ ~Answer(p) /\ ~DisableOld(p) /\ ~EnableNew(p)
  BY <1>1, <1>2 DEF CopyAttributes, DisableNew, Answer, DisableOld, EnableNew, Continue, Goes,
    TypeOK, ProcTypes
<1>. QED BY <1>3, <1>4, <1>5, <1>6, <1>7, <1>8, <1>9, <1>10 DEF Step

\* What a destroyer counts upon is so after its own steps ...
LEMMA DestroyerStays ==
  ASSUME IInv, NEW p \in Procs, Step(p)
  PROVE  Victims(p)'
<1> SUFFICES ASSUME op'[p] = "destroy", pc'[p] \in {"versions", "list"} PROVE Victims(p)'
  BY DEF Victims
<1>1. TypeOK /\ OnCourse(p) /\ OnSubject(p) /\ Locked(p)
  BY DEF IInv, Local
<1>2. Open(p) \/ DeleteRow(p) \/ SpaceHasNoLock(p)
  BY ComesToVictim
<1>3. CASE Open(p)
  <2>1. pc[p] = "open" /\ there' = there
    BY <1>3 DEF Open, Gets, database
  <2>2. ~Empty(p)'
    BY DEF Empty
  <2>3. CASE Opening(p, "list", at[p]) /\ VersionsIn(Pkg(at[p])) = {}
    <3>1. at'[p] = at[p] /\ pc'[p] = "list"
      BY <2>3 DEF Opening, Moved
    <3>2. VersionsIn(Pkg(at[p]))' = {}
      BY <2>1, <2>3, <3>1 DEF VersionsIn, Pkg
    <3>. QED BY <3>1, <3>2 DEF Victims
  <2>4. ASSUME NEW e \in VersionsIn(Pkg(at[p])), Opening(p, "versions", e) PROVE Victims(p)'
    <3>1. at'[p] = e /\ pc'[p] = "versions" /\ e \in there'
      BY <2>1, <2>4 DEF Opening, Moved, VersionsIn
    <3>. QED BY <3>1 DEF Victims
  <2>5. CASE op[p] = "destroy" /\ Moved(p, "list", at[p]) /\ held'[p] = held[p]
    <3>1. held'[p] = {} /\ pc'[p] = "list"
      BY <1>1, <2>1, <2>5 DEF Locked, Moved
    <3>. QED BY <3>1 DEF Victims
  <2>6. op[p] = "destroy"
    BY <1>1, <1>3, <2>2, OpenIsOwn DEF Opening, Moved
  <2>. QED BY <1>1, <1>3, <2>2, <2>3, <2>4, <2>5, <2>6, OpenIsOwn
<1>4. CASE DeleteRow(p)
  <2>1. there' = there \ {at[p]}
    BY <1>4 DEF DeleteRow, Delete
  <2>2. ~Empty(p)'
    BY DEF Empty
  <2>3. CASE Moved(p, "list", at[p]) /\ VersionsIn(Pkg(at[p])) \ {at[p]} = {}
    <3>1. at'[p] = at[p] /\ pc'[p] = "list"
      BY <2>3 DEF Moved
    <3>2. VersionsIn(Pkg(at[p]))' = {}
      BY <2>1, <2>3, <3>1 DEF VersionsIn, Pkg
    <3>. QED BY <3>1, <3>2 DEF Victims
  <2>4. ASSUME NEW e \in VersionsIn(Pkg(at[p])) \ {at[p]}, Moved(p, "versions", e)
        PROVE  Victims(p)'
    <3>1. at'[p] = e /\ pc'[p] = "versions" /\ e \in there'
      BY <2>1, <2>4 DEF Moved, VersionsIn
    <3>. QED BY <3>1 DEF Victims
  <2>. QED BY <1>1, <1>4, <2>2, <2>3, <2>4, DeleteRowIsOwn
<1>5. CASE SpaceHasNoLock(p)
  <2>1. ~Over(p)
    BY <1>1 DEF Over, TypeOK, ProcTypes
  <2>2. /\ op[p] = "destroy" /\ pc[p] = "versions" /\ Goes(p, "list")
        /\ UNCHANGED <<op, at, held, there, spaces, spaceLocks>> /\ at[p] \in Lockless
    BY <1>5, <2>1 DEF SpaceHasNoLock, Gets, database, outside
  <2>3. at[p] \in there /\ at[p] \in Vers
    BY <2>2, WhatItIsAt DEF IInv, Victims
  <2>4. pc'[p] = "list"
    BY <1>1, <2>2 DEF Goes, TypeOK, ProcTypes
  <2>5. at[p] \in VersionsIn(Pkg(at[p]))' /\ at[p] \in Lockless'
    BY <2>2, <2>3 DEF VersionsIn, Lockless, Pkg
  <2>. QED BY <2>2, <2>4, <2>5 DEF Victims
<1>. QED BY <1>2, <1>3, <1>4, <1>5

\* Two processes do not have a package for writing.
LEMMA OneOpens ==
  ASSUME TypeOK, Exclusive, NEW p \in Procs, NEW q \in Procs, p # q, NEW g \in Pkgs,
         <<g, "S+">> \in held[p], <<g, "S+">> \in held[q]
  PROVE  FALSE
<1> DEFINE h == <<g, "S+">>
<1>1. h \in held[p] /\ h \in held[q] /\ h[1] = g /\ h[2] = "S+"
  OBVIOUS
<1>2. Near(g, g)
  <2>1. g \in Kept /\ g \in Paths /\ g = Pkg(g)
    BY Shapes DEF Kept, Paths
  <2>. QED BY <2>1, Nearness
<1>. HIDE DEF h
<1>3. <<h[2], h[2]>> \in L!Compatible
  BY <1>1, <1>2 DEF Exclusive
<1>. QED BY <1>1, <1>3 DEF L!Compatible

\* ... and after those of others.
LEMMA OthersVictimsStay ==
  ASSUME IInv, NEW p \in Procs, Step(p), NEW q \in Procs, q # p
  PROVE  Victims(q)'
<1>1. op'[q] = op[q] /\ pc'[q] = pc[q] /\ at'[q] = at[q] /\ held'[q] = held[q]
  BY StepIsOwn DEF Own, Keeps
<1>2. TypeOK /\ Exclusive /\ Victims(q) /\ "S+" \in L!Modes
  BY DEF IInv, L!Modes
<1>3. pc[q] \in {"versions", "list"} => at[q] \in Entities
  BY WhatItIsAt
<1>4. CASE pc[q] = "versions"
  <2>1. Still(at[q])
    BY <1>2, <1>3, <1>4, WhatItIsAt, Confined
  <2>. QED BY <1>1, <1>2, <1>4, <2>1 DEF Victims, Still
<1>5. CASE pc[q] = "list" /\ <<Pkg(at[q]), "S+">> \in held[q] /\ op[q] = "destroy"
  <2> DEFINE left == VersionsIn(Pkg(at[q]))
  <2>1. \A e \in Vers : Pkg(e) = Pkg(at[q]) => (e \in there' <=> e \in there)
    BY <1>2, <1>5, Confined DEF Still, Entities
  <2>2. VersionsIn(Pkg(at[q]))' = left
    BY <1>1, <2>1 DEF VersionsIn, Pkg
  <2>3. ASSUME NEW e \in left, e \in Lockless PROVE e \in Lockless'
    <3>1. CASE UNCHANGED <<spaces, spaceLocks>>
      BY <2>3, <3>1 DEF Lockless
    <3>2. CASE MountDies(p)
      BY <2>3, <3>2 DEF MountDies, Lockless
    <3>3. CASE DeleteSpace(p)
      BY <2>3, <3>3 DEF DeleteSpace, Lockless
    <3>4. CASE Mount(p)
      <4>1. pc[p] = "mount" /\ <<Pkg(at[p]), "S+">> \in held[p]
        BY <3>4, WhatItIsAt DEF Mount
      <4>2. Pkg(at[q]) \in Pkgs /\ Pkg(e) = Pkg(at[q])
        BY <1>3, <1>5, Shapes DEF VersionsIn
      <4>3. e # at[p]
        BY <1>2, <1>5, <4>1, <4>2, OneOpens
      <4>. QED BY <2>3, <3>4, <4>3 DEF Mount, Lockless
    <3>. QED BY <3>1, <3>2, <3>3, <3>4 DEF Step, Begin, ListNames, Look, Edited, Ask, Done, Open,
      Write, OutdateAll, CreatePackage, AddVersion, HoldVersions, SpaceStays, SpaceHasNoLock,
      DeleteRow, DeletePackage, CopyAttributes, DisableNew, Answer, DisableOld, EnableNew, Dies,
      outside
  <2>4. left = {} \/ \E e \in left : e \in Lockless
    BY <1>2, <1>5 DEF Victims
  <2>5. VersionsIn(Pkg(at[q]))' = {} \/ VersionsIn(Pkg(at[q]))' \cap Lockless' # {}
    BY <2>2, <2>3, <2>4
  <2>. QED BY <1>1, <1>5, <2>5 DEF Victims
<1>. QED BY <1>1, <1>4, <1>5 DEF Victims, Pkg

-----------------------------------------------------------------------------
(* The invariant and what follows from it.                                 *)

\* It is true at first.
LEMMA InitIInv ==
  ASSUME Init
  PROVE  IInv
<1>1. First \subseteq Vers /\ Pkgs \subseteq Entities /\ Vers \subseteq Entities
  BY DEF First, Entities
<1>2. Max(Packages) \in Packages
  <2>1. \E p \in Packages : \A o \in Packages : p >= o
    BY SourcePackagesAssumption
  <2>. QED BY <2>1 DEF Max
<1>3. DataTypes
  BY <1>1, <1>2 DEF Init, DataTypes
<1>4. /\ op = [q \in Procs |-> "idle"] /\ pc = [q \in Procs |-> "idle"]
      /\ at = [q \in Procs |-> List] /\ from = [q \in Procs |-> List]
      /\ todo = [q \in Procs |-> {}] /\ seen = [q \in Procs |-> {}]
      /\ held = [q \in Procs |-> {}]
  BY DEF Init, L!NoLocks
<1>5. "idle" \in Ops /\ "idle" \in Places /\ List \in Paths
  BY DEF Ops, Places, Paths
<1>6. ProcTypes
  BY <1>4, <1>5 DEF ProcTypes
<1>7. Rooted
  <2>1. \A e \in Vers : Pkg(e) \in Pkgs
    BY Shapes
  <2>2. there = Pkgs \cup First /\ on = First /\ fixed \subseteq on
    BY DEF Init
  <2>. QED BY <2>1, <2>2 DEF Rooted
<1>8. SpacesHaveVersions
  BY DEF Init, SpacesHaveVersions
<1>9. Exclusive
  BY <1>4 DEF Exclusive
<1>10. ASSUME NEW q \in Procs PROVE Local(q)
  <2>1. op[q] = "idle" /\ pc[q] = "idle" /\ at[q] = List /\ seen[q] = {} /\ held[q] = {}
    BY <1>4
  <2>2. OnCourse(q)
    BY <2>1 DEF OnCourse
  <2>3. OnSubject(q)
    BY <2>1 DEF OnSubject, Copying
  <2>4. Locked(q)
    BY <2>1 DEF Locked, Opened, Copying
  <2>5. Assured(q)
    BY <2>1 DEF Assured, Opened, Copying
  <2>6. Reads(q)
    BY <2>1 DEF Reads, Updating
  <2>. QED BY <2>2, <2>3, <2>4, <2>5, <2>6 DEF Local
<1>11. \A q \in Procs : Victims(q)
  BY <1>4 DEF Victims
<1>. QED BY <1>3, <1>6, <1>7, <1>8, <1>9, <1>10, <1>11 DEF IInv, TypeOK

\* A step of the system is a step of a process.
LEMMA NextIsStep ==
  ASSUME Next
  PROVE  \E p \in Procs : Step(p)
BY DEF Next, Step

\* No step disturbs it.
LEMMA NextIInv ==
  ASSUME IInv, [Next]_vars
  PROVE  IInv'
<1>1. ASSUME NEW p \in Procs, Step(p) PROVE IInv'
  <2>1. Database' /\ Exclusive'
    BY <1>1, DatabaseStays, ExclusiveStays
  <2>2. ProcTypes'
    BY <1>1, StepIsOwn DEF Own
  <2>3. \A q \in Procs : Local(q)' /\ Victims(q)'
    BY <1>1, ActorStays, OthersStay, DestroyerStays, OthersVictimsStay
  <2>. QED BY <2>1, <2>2, <2>3 DEF IInv, TypeOK, Database
<1>2. CASE UNCHANGED vars
  <2>1. UNCHANGED <<database, outside, op, pc, at, plan, held, counters>>
    BY <1>2 DEF vars
  <2>2. DataTypes' /\ ProcTypes'
    BY <2>1 DEF IInv, TypeOK, DataTypes, ProcTypes, database, outside, plan, counters
  <2>3. Rooted' /\ SpacesHaveVersions' /\ Exclusive'
    BY <2>1 DEF IInv, Rooted, SpacesHaveVersions, Exclusive, Near, database, outside
  <2>4. ASSUME NEW q \in Procs PROVE Local(q)'
    <3>1. OnCourse(q) /\ OnSubject(q) /\ Locked(q) /\ Assured(q) /\ Reads(q)
      BY DEF IInv, Local
    <3>2. OnCourse(q)' /\ OnSubject(q)' /\ Locked(q)'
      BY <2>1, <3>1 DEF OnCourse, OnSubject, Locked, Opened, Copying, plan
    <3>3. Assured(q)'
      BY <2>1, <3>1 DEF Assured, Opened, Copying, database, outside
    <3>4. Reads(q)'
      BY <2>1, <3>1 DEF Reads, Updating, Enabled, VersionsIn, database, plan
    <3>. QED BY <3>2, <3>3, <3>4 DEF Local
  <2>5. ASSUME NEW q \in Procs PROVE Victims(q)'
    <3>1. Victims(q)
      BY DEF IInv
    <3>. QED BY <2>1, <3>1 DEF Victims, VersionsIn, Lockless, database, outside
  <2>. QED BY <2>2, <2>3, <2>4, <2>5 DEF IInv, TypeOK
<1>. QED BY <1>1, <1>2, NextIsStep

\* What each process has read, has locked and counts upon is so in every state.
THEOREM Inductive == Spec => []IInv
<1>. QED BY InitIInv, NextIInv, PTL DEF Spec

\* Every variable has a value of its type: packages, versions, the places of the operations
\* and the locks of TCLM.
THEOREM TypeCorrect == Spec => []TypeOK
<1>1. IInv => TypeOK
  BY DEF IInv
<1>. QED BY <1>1, Inductive, PTL

\* The graph that the build master computes is that of one state of the database, and the
\* script disables and copies the version that it found to be the newest one (get_packages
\* in build_master and update_package): nobody writes in between.
THEOREM GraphOfOneState == Spec => []ReadStillHolds
<1>1. ASSUME IInv PROVE ReadStillHolds
  <2>1. ASSUME NEW q \in Procs PROVE Reads(q)
    BY <1>1 DEF IInv, Local
  <2>. QED BY <2>1 DEF Reads, ReadStillHolds
<1>. QED BY <1>1, Inductive, PTL

\* A scratch space belongs to a version in the database (delete_version removes the space
\* first and the row afterwards), except for those that the destruction of a package leaves
\* behind: it had no lock, it was not there when its destroyer looked for it, or the space of
\* a version that was left had no lock (destroy_source_package takes the one for the other).
THEOREM NoSpaceIsLost == Spec => []SpacesHaveVersions
<1>1. IInv => SpacesHaveVersions
  BY DEF IInv
<1>. QED BY <1>1, Inductive, PTL

\* What the steps do that change the value of an attribute or the versions.
LEMMA WhatIsHeldStays ==
  ASSUME IInv, NEW p \in Procs, Step(p)
  PROVE  /\ \A o \in frozen \cap frozen' : VersionsIn(<<o>>)' = VersionsIn(<<o>>)
         /\ \A e \in fixed \cap fixed' : e \in on <=> e \in on'
<1>1. TypeOK /\ Rooted /\ OnCourse(p) /\ OnSubject(p) /\ Reads(p)
  BY DEF IInv, Local
<1>2. ASSUME NEW w \in Vers, w[1] \notin frozen \/ w[1] \notin frozen',
             there' \cap Vers = (there \cap Vers) \cup {w}
             \/ there' \cap Vers = (there \cap Vers) \ {w}
      PROVE  \A o \in frozen \cap frozen' : VersionsIn(<<o>>)' = VersionsIn(<<o>>)
  BY <1>2 DEF VersionsIn, Pkg
<1>3. ASSUME there' \cap Vers = there \cap Vers
      PROVE  \A o \in frozen \cap frozen' : VersionsIn(<<o>>)' = VersionsIn(<<o>>)
  BY <1>3 DEF VersionsIn
<1>4. CASE UNCHANGED database
  BY <1>3, <1>4 DEF database
<1>5. CASE Write(p)
  <2>1. there' = there
    BY <1>5 DEF Write
  <2>2. \A e \in fixed \cap fixed' : e \in on <=> e \in on'
    BY <1>5 DEF Write, ValueOf, MaySet
  <2>. QED BY <1>3, <2>1, <2>2
<1>6. CASE CreatePackage(p)
  <2>1. at[p] \in Pkgs /\ at[p] \notin Vers
    BY <1>1, <1>6, Shapes DEF CreatePackage, OnSubject
  <2>2. there' \cap Vers = there \cap Vers /\ on' = on
    BY <1>6, <2>1 DEF CreatePackage
  <2>. QED BY <1>3, <2>2
<1>7. CASE AddVersion(p)
  <2>1. pc[p] = "versions" /\ op[p] \in {"add", "copy", "update"}
    BY <1>7 DEF AddVersion, Gets
  <2>2. at[p] \in Vers /\ at[p][1] \notin frozen
    BY <2>1, WhatItIsAt, OpenedBefore
  <2>3. there' \cap Vers = (there \cap Vers) \cup {at[p]} /\ on' = on
    BY <1>7, <2>2 DEF AddVersion
  <2>. QED BY <1>2, <2>2, <2>3
<1>8. CASE HoldVersions(p)
  <2>1. there' = there /\ on' = on
    BY <1>8 DEF HoldVersions
  <2>. QED BY <1>3, <2>1
<1>9. CASE DeleteRow(p)
  <2>1. pc[p] = "row" /\ op[p] \in {"delete", "destroy"}
    BY <1>1, <1>9, WhoIsWhere DEF DeleteRow
  <2>2. at[p] \in Vers /\ at[p][1] \notin frozen
    BY <2>1, WhatItIsAt, OpenedBefore
  <2>3. there' = there \ {at[p]} /\ on' = on \ {at[p]} /\ fixed' = fixed \ {at[p]}
    BY <1>9 DEF DeleteRow, Delete
  <2>4. there' \cap Vers = (there \cap Vers) \ {at[p]}
    BY <2>3
  <2>. QED BY <1>2, <2>2, <2>3, <2>4
<1>10. CASE DeletePackage(p)
  <2> DEFINE g == Pkg(at[p])
  <2>1. pc[p] = "list"
    BY <1>10 DEF DeletePackage, Gets
  <2>2. g \notin Vers /\ g = <<at[p][1]>>
    BY <2>1, WhatItIsAt, Shapes DEF Pkg
  <2>3. there' = there \ ({g} \cup VersionsIn(g)) /\ on' = on \ ({g} \cup VersionsIn(g))
        /\ fixed' = fixed \ ({g} \cup VersionsIn(g)) /\ frozen' = frozen \ {g[1]}
    BY <1>10 DEF DeletePackage, Delete
  <2>4. VersionsIn(g) = {e \in there \cap Vers : Pkg(e) = g}
    BY DEF VersionsIn
  <2>5. \A o \in frozen' : <<o>> # g
    BY <2>2, <2>3
  <2>. HIDE DEF g
  <2>6. ASSUME NEW o \in frozen \cap frozen' PROVE VersionsIn(<<o>>)' = VersionsIn(<<o>>)
    BY <2>2, <2>3, <2>4, <2>5 DEF VersionsIn
  <2>. QED BY <2>3, <2>6
<1>11. CASE CopyAttributes(p) \/ DisableNew(p) \/ EnableNew(p)
  <2>1. pc[p] \in {"copy", "off", "on"}
    BY <1>11 DEF CopyAttributes, DisableNew, EnableNew, Gets
  <2>2. at[p] \notin fixed
    BY <2>1, WhatItIsAt
  <2>3. there' = there /\ \A e \in fixed : e \in on <=> e \in on'
    BY <1>11, <2>2 DEF CopyAttributes, DisableNew, EnableNew
  <2>. QED BY <1>3, <2>3
<1>12. CASE DisableOld(p)
  <2>1. there' = there /\ \A e \in fixed : e \in on <=> e \in on'
    BY <1>12 DEF DisableOld
  <2>. QED BY <1>3, <2>1
<1>13. CASE Begin(p) \/ ListNames(p) \/ Look(p) \/ Edited(p) \/ Ask(p) \/ Done(p) \/ Open(p)
  BY <1>4, <1>13 DEF Begin, ListNames, Look, Edited, Ask, Done, Open
<1>14. CASE Mount(p) \/ MountDies(p) \/ OutdateAll(p) \/ DeleteSpace(p) \/ SpaceStays(p)
            \/ SpaceHasNoLock(p) \/ Answer(p) \/ Dies(p)
  BY <1>4, <1>14 DEF Mount, MountDies, OutdateAll, DeleteSpace, SpaceStays, SpaceHasNoLock, Answer,
    Dies
<1>. QED BY <1>5, <1>6, <1>7, <1>8, <1>9, <1>10, <1>11, <1>12, <1>13, <1>14 DEF Step

\* No step adds or deletes a version of a package whose versions are held, nor changes an
\* attribute that is held (add_version, delete_version, set_attribute and what calls them
\* without looking: the copying of a version, and the script).
THEOREM WhatIsHeldIsKept == Spec => HeldStays
<1>1. ASSUME IInv, [Next]_vars
      PROVE  [/\ \A p \in frozen \cap frozen' :
                   VersionsIn(<<p>>)' = VersionsIn(<<p>>)
              /\ \A e \in fixed \cap fixed' : e \in on <=> e \in on']_vars
  BY <1>1, NextIsStep, WhatIsHeldStays
<1>. QED BY <1>1, Inductive, PTL DEF Spec, HeldStays

-----------------------------------------------------------------------------
(* Deadlocks.                                                              *)

\* The two operations that may take part in a deadlock.
Exempt(q) ==
  \/ op[q] = "update" /\ pc[q] = "open"
  \/ op[q] = "destroy" /\ pc[q] = "list"

\* A process waits for another that has a lock near the one it wants, which do not go together.
LEMMA WaitingFor ==
  ASSUME TypeOK, NEW q \in Procs, NEW r \in WaitsFor(q), NEW w \in Paths, NEW m,
         Wants(q) = <<w, m>>
  PROVE  /\ r \in Procs /\ r # q
         /\ \E l \in Kept, n \in L!Modes :
              <<l, n>> \in held[r] /\ (l = List \/ w = List \/ l = Pkg(w))
              /\ <<m, n>> \notin L!Compatible
<1>1. PICK h \in held[r] : /\ IsPrefix(h[1], w) \/ IsPrefix(w, h[1])
                           /\ <<m, h[2]>> \notin L!Compatible
  BY DEF WaitsFor
<1>2. r \in Procs /\ r # q
  BY DEF WaitsFor
<1>3. h \in Kept \X L!Modes
  BY <1>1, <1>2 DEF TypeOK, ProcTypes
<1>4. h = <<h[1], h[2]>> /\ h[1] \in Kept /\ h[2] \in L!Modes
  BY <1>3
<1>5. h[1] = List \/ w = List \/ h[1] = Pkg(w)
  BY <1>1, <1>4, Nearness DEF Near
<1>. QED BY <1>1, <1>2, <1>4, <1>5

\* Who waits for a lock, for which, and what it has then.
LEMMA WaitersHave ==
  ASSUME IInv, NEW q \in Procs, Waiting(q), ~Exempt(q)
  PROVE  \/ /\ \E w \in Paths : Wants(q) = <<w, "S">>
            /\ pc[q] \in {"names", "look"}
         \/ held[q] = {}
         \/ /\ \E w \in Entities : /\ Wants(q) = <<w, "X">>
                                   /\ <<Pkg(w), "S+">> \in held[q] \/ <<List, "S+">> \in held[q]
            /\ pc[q] \in {"versions", "write", "copy", "off", "old", "on"}
<1>1. TypeOK /\ OnCourse(q) /\ OnSubject(q) /\ Locked(q) /\ Reads(q)
  BY DEF IInv, Local
<1>2. CASE pc[q] = "names"
  <2>1. Wants(q) = <<List, "S">> /\ List \in Paths
    BY <1>2 DEF Wants, Paths
  <2>. QED BY <1>2, <2>1
<1>3. CASE pc[q] = "look"
  <2>1. Wants(q) = <<Pkg(at[q]), "S">>
    BY <1>3 DEF Wants
  <2>2. Pkg(at[q]) \in Paths
    BY <1>3, WhatItIsAt, Shapes DEF Paths
  <2>. QED BY <1>3, <2>1, <2>2
<1>4. CASE pc[q] \in {"all", "list", "open"}
  <2>1. pc[q] = "list" => op[q] = "create"
    BY <1>1, WhoIsWhere DEF Exempt
  <2>2. pc[q] = "open" => op[q] # "update"
    BY DEF Exempt
  <2>3. held[q] = {}
    BY <1>1, <1>4, <2>1, <2>2 DEF Locked
  <2>. QED BY <2>3
<1>5. CASE pc[q] = "versions"
  <2>1. Wants(q) = <<Pkg(at[q]), "X">>
    BY <1>5 DEF Wants
  <2>2. <<Pkg(at[q]), "S+">> \in held[q] /\ at[q] \in Entities
    BY <1>5, WhatItIsAt
  <2>3. Pkg(at[q]) \in Entities /\ Pkg(Pkg(at[q])) = Pkg(at[q])
    BY <2>2, Shapes
  <2>. QED BY <1>5, <2>1, <2>2, <2>3
<1>6. CASE pc[q] \in {"write", "copy", "off", "on"}
  <2>1. Wants(q) = <<at[q], "X">>
    BY <1>6 DEF Wants
  <2>2. at[q] \in Entities
    BY <1>6, WhatItIsAt
  <2>3. <<Pkg(at[q]), "S+">> \in held[q] \/ <<List, "S+">> \in held[q]
    BY <1>1, <1>6 DEF Locked, Opened, Copying
  <2>. QED BY <1>6, <2>1, <2>2, <2>3
<1>7. CASE pc[q] = "old"
  <2> DEFINE w == Newest(seen[q])
  <2>1. Wants(q) = <<w, "X">>
    BY <1>7 DEF Wants
  <2>2. op[q] = "update" /\ Updating(q)
    BY <1>1, <1>7, WhoIsWhere DEF Updating
  <2>3. w \in Entities /\ Pkg(w) = Pkg(at[q])
    BY <1>1, <2>2, ReadOfPackage DEF Entities
  <2>4. <<Pkg(at[q]), "S+">> \in held[q]
    BY <1>7, WhatItIsAt
  <2>. HIDE DEF w
  <2>. QED BY <1>7, <2>1, <2>3, <2>4
<1>. QED BY <1>2, <1>3, <1>4, <1>5, <1>6, <1>7 DEF Waiting

\* An operation that wants to write waits for none of those that want to write.
LEMMA WritersDoNotMeet ==
  ASSUME IInv, NEW q \in Procs, NEW r \in WaitsFor(q), NEW w \in Entities,
         Wants(q) = <<w, "X">>, <<Pkg(w), "S+">> \in held[q] \/ <<List, "S+">> \in held[q]
  PROVE  \E l \in Kept : <<l, "S">> \in held[r]
<1>1. TypeOK /\ Exclusive
  BY DEF IInv
<1>2. w \in Paths /\ w # List
  BY Shapes DEF Paths
<1>3. PICK l \in Kept, n \in L!Modes : <<l, n>> \in held[r] /\ (l = List \/ l = Pkg(w))
  BY <1>1, <1>2, WaitingFor
<1>4. r \in Procs /\ r # q
  BY <1>1, <1>2, WaitingFor
<1>5. PICK k \in {List, Pkg(w)} : <<k, "S+">> \in held[q]
  OBVIOUS
<1>6. Near(k, l)
  <2>1. l \in Paths /\ k \in Kept /\ Pkg(Pkg(w)) = Pkg(w)
    BY Shapes DEF Kept, Paths
  <2>. QED BY <1>3, <2>1, Nearness
<1> DEFINE a == <<k, "S+">>
           b == <<l, n>>
<1>7. a \in held[q] /\ b \in held[r] /\ a[1] = k /\ a[2] = "S+" /\ b[1] = l /\ b[2] = n
  BY <1>3, <1>5
<1>. HIDE DEF a, b
<1>8. <<"S+", n>> \in L!Compatible
  BY <1>1, <1>4, <1>6, <1>7 DEF Exclusive
<1>9. n = "S"
  BY <1>8 DEF L!Compatible
<1>. QED BY <1>3, <1>9

\* Operations that take locks in the order that they are meant to do not wait for each other,
\* however many there are: the lock for writing comes first (S+), and one more is only ever
\* wanted by its owner.  What is left are the script and the destruction of a package.
THEOREM OrderPreventsDeadlock == Spec => []OnlyTheseDeadlock
<1> SUFFICES ASSUME IInv PROVE OnlyTheseDeadlock
  BY Inductive, PTL
<1> SUFFICES ASSUME NEW D \in SUBSET {q \in Procs : WaitsFor(q) # {}}, Deadlocked(D),
                    \A q \in D : ~Exempt(q)
             PROVE  FALSE
  BY DEF OnlyTheseDeadlock, Exempt
<1>1. TypeOK
  BY DEF IInv
<1>2. \A q \in D : q \in Procs /\ Waiting(q)
  BY DEF WaitsFor
\* Nobody who waits has a lock for writing, ...
<1>3. \A q \in D, l \in Kept : <<l, "X">> \notin held[q]
  BY <1>2, LocksOfOthers DEF Waiting
\* ... so that nobody waits who only reads, ...
<1>4. \A q \in D : pc[q] \notin {"names", "look"}
  <2> SUFFICES ASSUME NEW q \in D, pc[q] \in {"names", "look"} PROVE FALSE
    OBVIOUS
  <2>1. PICK r \in WaitsFor(q) : r \in D
    BY DEF Deadlocked
  <2>2. PICK w \in Paths : Wants(q) = <<w, "S">>
    <3>1. pc[q] = "names" => Wants(q) = <<List, "S">> /\ List \in Paths
      BY DEF Wants, Paths
    <3>2. pc[q] = "look" => Wants(q) = <<Pkg(at[q]), "S">>
      BY DEF Wants
    <3>3. pc[q] = "look" => Pkg(at[q]) \in Paths
      BY <1>2, WhatItIsAt, Shapes DEF Paths
    <3>. QED BY <3>1, <3>2, <3>3
  <2>3. PICK l \in Kept, n \in L!Modes : <<l, n>> \in held[r] /\ <<"S", n>> \notin L!Compatible
    BY <1>1, <1>2, <2>1, <2>2, WaitingFor
  <2>4. n = "X"
    BY <2>3 DEF L!Modes, L!Compatible
  <2>. QED BY <1>3, <2>1, <2>3, <2>4
\* ... and no lock for reading is held.
<1>5. \A q \in D, l \in Kept : <<l, "S">> \notin held[q]
  <2> SUFFICES ASSUME NEW q \in D, NEW l \in Kept, <<l, "S">> \in held[q] PROVE FALSE
    OBVIOUS
  <2>1. q \in Procs /\ Waiting(q) /\ ~Exempt(q) /\ OnCourse(q)
    BY <1>2 DEF IInv, Local
  <2>2. op[q] = "graph" \/ (op[q] = "update" /\ ~Opened(q))
    BY <2>1, LocksOfOthers
  <2>3. pc[q] \in {"names", "look"}
    BY <2>1, <2>2 DEF OnCourse, Copying, Opened, Waiting, Exempt
  <2>. QED BY <1>4, <2>3
\* Whoever has a lock has it for writing, and waits only for readers.
<1>6. \A q \in D : held[q] = {}
  <2> SUFFICES ASSUME NEW q \in D, held[q] # {} PROVE FALSE
    OBVIOUS
  <2>1. PICK r \in WaitsFor(q) : r \in D
    BY DEF Deadlocked
  <2>2. PICK w \in Entities : Wants(q) = <<w, "X">>
                              /\ (<<Pkg(w), "S+">> \in held[q] \/ <<List, "S+">> \in held[q])
    BY <1>2, <1>4, WaitersHave
  <2>3. \E l \in Kept : <<l, "S">> \in held[r]
    BY <1>2, <2>1, <2>2, WritersDoNotMeet
  <2>. QED BY <1>5, <2>1, <2>3
<1>7. PICK q \in D, r \in D : r \in WaitsFor(q)
  BY DEF Deadlocked
<1>8. \E h \in held[r] : TRUE
  BY <1>7 DEF WaitsFor
<1>. QED BY <1>6, <1>7, <1>8

=============================================================================
