------------------------ MODULE BinaryPackages_proofs ------------------------
(***************************************************************************)
(* Theorems about binary packages, for any parts and any number of         *)
(* versions, outdated stages and incidents: what is published is published *)
(* with its parts, and what others choose can be installed.                *)
(*                                                                         *)
(* The argument: all versions that exist are at most the one that the last *)
(* run of the split made, and the stages after a split that succeeded work *)
(* on this one only.  Of this one All comes into place last, and from then *)
(* on what it depends on is computed again as it was.                      *)
(***************************************************************************)
EXTENDS BinaryPackages, FiniteSetTheorems, TLAPS

-----------------------------------------------------------------------------
(* The inductive invariant.                                                *)

Places == {"idle", "split", "split done", "rdeps", "pack", "move"}
States == {Absent, Part, Whole}

TypeOK ==
  /\ rows \subseteq Forms /\ current \subseteq Names /\ files \subseteq Forms
  /\ rdeps \in [Versions -> SUBSET Forms]
  /\ ahead \in SplitStage .. Complete
  /\ newest \in {0} \cup Versions /\ complete \in {0} \cup Versions /\ complete <= newest
  /\ space \subseteq Forms /\ saved \subseteq Forms
  /\ pc \in Places /\ todo \subseteq Names /\ copying \subseteq Names /\ packed \in BOOLEAN
  /\ fresh \in [Forms -> States] /\ repo \in [Forms -> States]
  /\ chosen \in {0} \cup Versions /\ needed \in {0} \cup Versions
  /\ outdates \in 0 .. MaxOutdates /\ trouble \in 0 .. MaxTrouble

\* What Versions says: it takes an incident or an outdated stage to have one more.
Counted ==
  /\ newest <= outdates + trouble + 1
  /\ pc = "idle" /\ ahead = SplitStage => newest <= outdates + trouble

\* The stage that the builder is in is the first one ahead.
OnCourse ==
  /\ pc \in {"split", "split done"} => ahead = SplitStage /\ newest # 0
  /\ pc = "rdeps" => ahead = RdepsStage
  /\ pc \in {"pack", "move"} => ahead = PackStage
  /\ pc # "pack" => copying = {}
  /\ pc \in {"rdeps", "pack", "move"} => todo \subseteq current
  /\ copying \subseteq current \ todo
  /\ pc = "split" => All \in todo \/ <<All, newest>> \in rows

\* Where the split has succeeded, its packages are the current ones and the latest ones.
HasSplit == ahead # SplitStage \/ pc = "split done"
NewParts == {<<n, newest>> : n \in current \ {All}}

TheSplit ==
  /\ \A b \in rows : b[2] <= newest
  /\ HasSplit => newest # 0 /\ All \in current /\ \A n \in current : <<n, newest>> \in rows
  /\ ahead \in {PackStage, Complete} => rdeps[newest] = NewParts

\* Versions that have not been packed are in no form.
Unpacked ==
  \A f \in Forms :
    f[2] > newest \/ (f[2] = newest /\ pc \in {"split", "split done"}) =>
      fresh[f] = Absent /\ repo[f] = Absent

\* What is in place of the newest version, and of the one that was complete.
Placed ==
  /\ newest # 0 /\ InPlace(<<All, newest>>) => rdeps[newest] = NewParts
  /\ pc = "move" => \A n \in current \ todo : InPlace(<<n, newest>>)
  /\ complete # 0 =>
       /\ InPlace(<<All, complete>>)
       /\ (\E v \in Versions : v <= complete /\ <<All, v>> \in rows) => <<All, complete>> \in rows

\* It takes an incident to leave a part of a package, and another one not to pack it again.
Torn ==
  /\ trouble = 0 =>
       \A f \in Forms : fresh[f] = Part => f[1] \in copying /\ f[2] = newest
  /\ trouble < 2 =>
       /\ \A f \in Forms : repo[f] # Part
       /\ pc = "pack" => \A n \in current : fresh[<<n, newest>>] = Part => n \in copying \cup todo
       /\ pc = "move" => \A n \in current : fresh[<<n, newest>>] # Part

IInv ==
  /\ TypeOK /\ Counted /\ OnCourse /\ TheSplit /\ Unpacked /\ Placed /\ Torn
  /\ PublishedWithParts /\ ChosenInstallable

-----------------------------------------------------------------------------
(* Versions.                                                               *)

\* The numbers that there are.
LEMMA Numbers ==
  /\ Versions \subseteq Nat \ {0} /\ {0} \cup Versions \subseteq Nat
  /\ MaxOutdates \in Nat /\ MaxTrouble \in Nat
  /\ \A n \in Nat : n < 1 + MaxOutdates + MaxTrouble => n + 1 \in Versions
  /\ \A n \in Names, v \in Versions : <<n, v>> \in Forms
BY BinaryPackagesAssumption DEF Versions, Forms

\* A form is its name and its version.
LEMMA PairsOf == \A f \in Forms : f = <<f[1], f[2]>>
BY DEF Forms

\* The stages that can be ahead.
LEMMA Stages ==
  /\ \A st \in SplitStage .. PackStage : st \in {1, 2, 3}
  /\ SplitStage \notin {PackStage, Complete} /\ RdepsStage \notin {PackStage, Complete}
  /\ SplitStage # RdepsStage /\ SplitStage # PackStage
  /\ {SplitStage, RdepsStage, PackStage, Complete} \subseteq SplitStage .. Complete
BY DEF SplitStage, RdepsStage, PackStage, Complete

\* The greatest of some versions.
LEMMA MaxIsGreatest ==
  ASSUME NEW S \in SUBSET Versions, NEW v \in S, \A w \in S : w <= v
  PROVE  Max(S) = v
<1>1. \A w \in S : w \in Nat
  BY Numbers
<1>2. \A x \in S : (\A y \in S : x >= y) => x = v
  BY <1>1
<1>3. \A y \in S : v >= y
  BY <1>1
<1>. QED BY <1>2, <1>3 DEF Max

\* What the stages after the split find is what the split has made.
LEMMA LatestIsNewest ==
  ASSUME TypeOK, TheSplit, HasSplit, NEW n \in current
  PROVE  Latest(n) = <<n, newest>> /\ Max(VersionsOf(n)) = newest
<1>1. newest \in Versions /\ n \in Names /\ <<n, newest>> \in rows
  BY DEF TypeOK, TheSplit
<1>2. newest \in VersionsOf(n) /\ VersionsOf(n) \subseteq Versions
  BY <1>1 DEF VersionsOf
<1>3. \A w \in VersionsOf(n) : w <= newest
  BY DEF VersionsOf, TheSplit
<1>4. Max(VersionsOf(n)) = newest
  BY <1>2, <1>3, MaxIsGreatest
<1>. QED BY <1>4 DEF Latest

\* What the invariant says of the numbers.
LEMMA Counts ==
  ASSUME TypeOK
  PROVE  /\ newest \in Nat /\ complete \in Nat /\ chosen \in Nat
         /\ ahead \in {1, 2, 3, 4}
         /\ outdates \in Nat /\ trouble \in Nat /\ MaxOutdates \in Nat /\ MaxTrouble \in Nat
         /\ newest # 0 => newest \in Versions
         /\ complete # 0 => complete \in Versions
         /\ \A b \in rows : b \in Forms /\ b[1] \in Names /\ b[2] \in Nat
<1>1. newest \in Nat /\ complete \in Nat /\ chosen \in Nat
  BY Numbers DEF TypeOK
<1>2. ahead \in 1 .. 4
  BY DEF TypeOK, SplitStage, Complete
<1>3. outdates \in Nat /\ trouble \in Nat /\ MaxOutdates \in Nat /\ MaxTrouble \in Nat
  BY BinaryPackagesAssumption DEF TypeOK
<1>4. (newest # 0 => newest \in Versions) /\ (complete # 0 => complete \in Versions)
  BY DEF TypeOK
<1>5. \A b \in Forms : b[1] \in Names /\ b[2] \in Versions
  BY DEF Forms
<1>6. \A b \in rows : b \in Forms /\ b[1] \in Names /\ b[2] \in Nat
  BY <1>5, Numbers DEF TypeOK
<1>. QED BY <1>1, <1>2, <1>3, <1>4, <1>6

\* A build that fails, or a package that cannot be packed, is an incident.
LEMMA TroubleGrows ==
  ASSUME TypeOK, trouble < MaxTrouble, trouble' = trouble + 1
  PROVE  /\ trouble' \in 0 .. MaxTrouble /\ trouble' # 0
         /\ trouble' < 2 => trouble = 0 /\ trouble < 2
<1>1. trouble \in Nat /\ MaxTrouble \in Nat
  BY Counts
<1>. QED BY <1>1

\* And one may make one more version.
LEMMA OneMore ==
  ASSUME TypeOK, Counted
  PROVE  /\ newest <= outdates + trouble + 1
         /\ trouble' = trouble + 1 =>
              newest <= outdates + trouble' /\ newest <= outdates + trouble' + 1
         /\ pc = "idle" /\ ahead = SplitStage => newest + 1 \in Versions
<1>1. /\ newest \in Nat /\ outdates \in Nat /\ trouble \in Nat
      /\ MaxOutdates \in Nat /\ MaxTrouble \in Nat
  BY Counts
<1>2. outdates <= MaxOutdates /\ trouble <= MaxTrouble
  BY <1>1 DEF TypeOK
<1>3. pc = "idle" /\ ahead = SplitStage => newest < 1 + MaxOutdates + MaxTrouble
  BY <1>1, <1>2 DEF Counted, SplitStage
<1>4. pc = "idle" /\ ahead = SplitStage => newest + 1 \in Versions
  BY <1>1, <1>3, Numbers
<1>. QED BY <1>1, <1>4 DEF Counted

\* Later versions are others.
LEMMA Later ==
  ASSUME TypeOK
  PROVE  \A n : \A f \in Forms : f[2] > newest => f # <<n, newest>>
<1>1. newest \in Nat
  BY Counts
<1>2. \A n : <<n, newest>>[2] = newest
  OBVIOUS
<1>3. ~(newest > newest)
  BY <1>1
<1>. QED BY <1>2, <1>3

\* Some version is the greatest.
LEMMA SomeMax ==
  ASSUME NEW S \in SUBSET Versions, S # {}
  PROVE  Max(S) \in S /\ \A w \in S : w <= Max(S)
<1> DEFINE N == 1 + MaxOutdates + MaxTrouble
           T == {N - v : v \in S}
<1>1. N \in Nat /\ \A v \in S : v \in Nat /\ v <= N /\ N - v \in Nat
  BY Numbers DEF Versions
<1>2. T \subseteq Nat /\ T # {}
  BY <1>1
<1> HIDE DEF N
<1>3. PICK t \in T : \A u \in T : t <= u
  <2>1. IsWellFoundedOn(OpToRel(<, Nat), Nat)
    BY NatLessThanWellFounded
  <2>. HIDE DEF T
  <2>2. PICK t \in T : \A u \in T : ~(<<u, t>> \in OpToRel(<, Nat))
    BY <1>2, <2>1, WFMin
  <2>3. \A u \in T : ~(u < t)
    BY <1>2, <2>2 DEF OpToRel
  <2>. QED BY <1>2, <2>3
<1>4. PICK v \in S : t = N - v
  BY <1>3
<1>5. \A w \in S : v >= w
  BY <1>1, <1>3, <1>4
<1>. QED BY <1>1, <1>5 DEF Max

\* Some version is the least.
LEMMA MinIsLeast ==
  ASSUME NEW S \in SUBSET Versions, NEW v \in S
  PROVE  Min(S) <= v
<1>1. S \subseteq Nat /\ S # {}
  BY Numbers
<1>2. PICK t \in S : \A u \in S : t <= u
  <2>1. IsWellFoundedOn(OpToRel(<, Nat), Nat)
    BY NatLessThanWellFounded
  <2>2. PICK t \in S : \A u \in S : ~(<<u, t>> \in OpToRel(<, Nat))
    BY <1>1, <2>1, WFMin
  <2>3. \A u \in S : ~(u < t)
    BY <1>1, <2>2 DEF OpToRel
  <2>4. t \in Nat /\ \A u \in S : u \in Nat
    BY <1>1, <2>2
  <2>5. \A u \in S : t <= u
    BY <2>3, <2>4
  <2>. QED BY <2>2, <2>5
<1>. QED BY <1>2 DEF Min

-----------------------------------------------------------------------------
(* What the steps work on.                                                 *)

\* The stages after the split.
LEMMA InCourse ==
  ASSUME OnCourse, pc \in {"rdeps", "pack", "move"}
  PROVE  HasSplit
<1>1. ahead = RdepsStage \/ ahead = PackStage
  BY DEF OnCourse
<1>. QED BY <1>1, Stages DEF HasSplit

\* The stage that adds the dependencies gives All those on the parts.
LEMMA RdepsAreParts ==
  ASSUME TypeOK, OnCourse, TheSplit, AddRdeps
  PROVE  rdeps' = [rdeps EXCEPT ![newest] = NewParts] /\ newest \in Versions /\ HasSplit
<1>1. HasSplit /\ newest \in Versions /\ All \in current
  BY DEF AddRdeps, OnCourse, HasSplit, TheSplit, SplitStage, RdepsStage, TypeOK
<1>2. Max(VersionsOf(All)) = newest /\ \A n \in current : Latest(n) = <<n, newest>>
  BY <1>1, LatestIsNewest
<1>3. {Latest(n) : n \in current \ {All}} = NewParts
  BY <1>2 DEF NewParts
<1>. QED BY <1>1, <1>2, <1>3 DEF AddRdeps

\* The package that a stage works on is taken in its newest version.
LEMMA LatestOfStep ==
  ASSUME TypeOK, OnCourse, TheSplit, NEW n \in Names,
         UpdateFiles(n) \/ Pack(n) \/ Copied(n) \/ Move(n)
  PROVE  Latest(n) = <<n, newest>> /\ n \in current /\ newest \in Versions /\ HasSplit
<1>1. pc \in {"rdeps", "pack", "move"} /\ n \in current
  <2>1. CASE UpdateFiles(n)
    BY <2>1 DEF UpdateFiles, OnCourse
  <2>2. CASE Pack(n)
    BY <2>2 DEF Pack, OnCourse
  <2>3. CASE Copied(n)
    BY <2>3 DEF Copied, OnCourse
  <2>4. CASE Move(n)
    BY <2>4 DEF Move, OnCourse
  <2>. QED BY <2>1, <2>2, <2>3, <2>4
<1>2. HasSplit
  BY <1>1, InCourse
<1>3. newest \in Versions
  BY <1>2 DEF TheSplit, TypeOK
<1>. QED BY <1>1, <1>2, <1>3, LatestIsNewest

\* What is deleted is not the newest version of a current package.
LEMMA NewestStays ==
  ASSUME TypeOK, TheSplit, HasSplit, DeleteOld
  PROVE  \A n \in current : <<n, newest>> \in rows'
<1>1. PICK b \in rows : /\ (\/ Unused(b) \/ b # Latest(b[1])) /\ rows' = rows \ {b}
  BY DEF DeleteOld
<1>2. SUFFICES ASSUME NEW n \in current PROVE <<n, newest>> # b
  BY <1>1 DEF TheSplit
<1>3. Latest(n) = <<n, newest>>
  BY LatestIsNewest
<1>4. SUFFICES ASSUME b = <<n, newest>> PROVE FALSE
  OBVIOUS
<1>5. b[1] = n
  BY <1>4
<1>. QED BY <1>1, <1>3, <1>4, <1>5 DEF Unused

\* Of the versions that have been completely built, the one that was last stays longest.
LEMMA CompleteStays ==
  ASSUME TypeOK, DeleteOld, complete # 0,
         (\E v \in Versions : v <= complete /\ <<All, v>> \in rows) => <<All, complete>> \in rows
  PROVE  (\E v \in Versions : v <= complete /\ <<All, v>> \in rows') => <<All, complete>> \in rows'
<1>1. PICK b \in rows : b[2] = Min(VersionsOf(b[1])) /\ rows' = rows \ {b}
  BY DEF DeleteOld
<1>2. SUFFICES ASSUME NEW v \in Versions, v <= complete, <<All, v>> \in rows', b = <<All, complete>>
               PROVE  FALSE
  BY <1>1
<1>3. b[1] = All /\ b[2] = complete
  BY <1>2
<1>4. v \in VersionsOf(All) /\ VersionsOf(All) \in SUBSET Versions
  BY <1>1, <1>2 DEF VersionsOf
<1>5. Min(VersionsOf(All)) <= v
  BY <1>4, MinIsLeast
<1>6. v = complete
  BY <1>1, <1>2, <1>3, <1>5, Counts, Numbers
<1>. QED BY <1>1, <1>2, <1>6

\* Chosen is the version that was complete last.
LEMMA ChoosesComplete ==
  ASSUME TypeOK, Placed, Choose
  PROVE  chosen' = complete /\ complete \in Versions
<1>1. complete \in Versions
  BY DEF Choose, TypeOK
<1>2. <<All, complete>> \in rows
  BY <1>1 DEF Choose, Placed, Offered, VersionsOf
<1>3. complete \in Offered /\ Offered \in SUBSET Versions /\ \A w \in Offered : w <= complete
  BY <1>1, <1>2, Numbers DEF Offered, VersionsOf
<1>4. Max(Offered) = complete
  BY <1>3, MaxIsGreatest
<1>. QED BY <1>1, <1>4 DEF Choose

-----------------------------------------------------------------------------
(* Each part of the invariant is preserved.                                *)

\* The types.
LEMMA Typed ==
  ASSUME IInv, [Next]_vars
  PROVE  TypeOK'
<1>. MaxOutdates \in Nat /\ MaxTrouble \in Nat
  BY BinaryPackagesAssumption
<1> USE DEF IInv, TypeOK, SplitStage, RdepsStage, PackStage, Complete, database, progress,
    repository, readers, counters, threads, Places, States
<1>1. CASE Start /\ StartSplit
  <2>1. newest + 1 \in Versions
    BY <1>1, OneMore DEF Start, StartSplit
  <2>2. All \in Names /\ Parts \subseteq Names
    BY DEF Names
  <2>. QED BY <1>1, <2>1, <2>2, Counts DEF Start, StartSplit
<1>2. CASE Start /\ StartLater
  BY <1>2 DEF StartLater, Start
<1>3. ASSUME NEW n \in Names, AddPackage(n) PROVE TypeOK'
  <2>1. <<n, newest>> \in Forms
    BY <1>3, Numbers DEF AddPackage, OnCourse
  <2>. QED BY <1>3, <2>1 DEF AddPackage
<1>4. CASE SetCurrent
  BY <1>4 DEF SetCurrent
<1>5. CASE SplitSucceeds
  <2>1. ahead' = RdepsStage /\ todo' = current /\ pc' = "rdeps" /\ complete' = complete
    BY <1>5 DEF SplitSucceeds
  <2>2. ahead' \in SplitStage .. Complete /\ todo' \subseteq Names /\ pc' \in Places
    BY <2>1, Stages
  <2>. QED BY <1>5, <2>2 DEF SplitSucceeds
<1>6. ASSUME NEW n \in Names, UpdateFiles(n) PROVE TypeOK'
  <2>1. Latest(n) = <<n, newest>> /\ newest \in Versions
    BY <1>6, LatestOfStep
  <2>2. Latest(n) \in Forms
    BY <2>1, Numbers
  <2>. QED BY <1>6, <2>2 DEF UpdateFiles
<1>7. CASE AddRdeps
  <2>1. ahead = RdepsStage /\ HasSplit /\ newest \in Versions /\ All \in current
    BY <1>7 DEF AddRdeps, OnCourse, HasSplit, TheSplit
  <2>2. \A n \in current : Latest(n) \in Forms
    BY <2>1, LatestIsNewest, Numbers
  <2>3. {Latest(n) : n \in current \ {All}} \in SUBSET Forms
    BY <2>2
  <2>4. rdeps' \in [Versions -> SUBSET Forms]
    BY <1>7, <2>3 DEF AddRdeps
  <2>. QED BY <1>7, <2>4 DEF AddRdeps
<1>8. ASSUME NEW n \in Names, Pack(n) PROVE TypeOK'
  <2>1. Latest(n) = <<n, newest>> /\ newest \in Versions
    BY <1>8, LatestOfStep
  <2>2. Latest(n) \in Forms
    BY <2>1, Numbers
  <2>. QED BY <1>8, <2>2 DEF Pack
<1>9. ASSUME NEW n \in Names, PackFails(n) PROVE TypeOK'
  <2>1. trouble' \in 0 .. MaxTrouble
    BY <1>9, TroubleGrows DEF PackFails
  <2>. QED BY <1>9, <2>1 DEF PackFails
<1>10. ASSUME NEW n \in Names, Copied(n) PROVE TypeOK'
  <2>1. Latest(n) = <<n, newest>> /\ newest \in Versions
    BY <1>10, LatestOfStep
  <2>2. Latest(n) \in Forms
    BY <2>1, Numbers
  <2>. QED BY <1>10, <2>2 DEF Copied
<1>11. CASE AllPacked
  BY <1>11 DEF AllPacked
<1>12. ASSUME NEW n \in Names, Move(n) PROVE TypeOK'
  <2>1. Latest(n) = <<n, newest>> /\ newest \in Versions
    BY <1>12, LatestOfStep
  <2>2. Latest(n) \in Forms
    BY <2>1, Numbers
  <2>. QED BY <1>12, <2>2 DEF Move, Moved
<1>13. CASE MoveRaises
  BY <1>13 DEF MoveRaises, Stops
<1>14. CASE PackEnds
  BY <1>14 DEF PackEnds
<1>15. CASE BuildFails
  <2>1. trouble' \in 0 .. MaxTrouble
    BY <1>15, TroubleGrows DEF BuildFails
  <2>. QED BY <1>15, <2>1 DEF BuildFails, Stops
<1>16. ASSUME NEW st \in SplitStage .. PackStage, Outdate(st) PROVE TypeOK'
  BY <1>16 DEF Outdate
<1>17. CASE DeleteOld
  BY <1>17 DEF DeleteOld
<1>18. CASE Choose
  <2>1. Offered \in SUBSET Versions
    BY DEF Offered, VersionsOf
  <2>2. Max(Offered) \in Versions
    BY <1>18, <2>1, SomeMax DEF Choose
  <2>. QED BY <1>18, <2>2 DEF Choose
<1>19. CASE LookUp
  <2>1. Providers \in SUBSET Versions
    BY DEF Providers
  <2>2. Max(Providers) \in Versions
    BY <1>19, <2>1, SomeMax DEF LookUp
  <2>. QED BY <1>19, <2>2 DEF LookUp
<1>20. CASE UNCHANGED vars
  BY <1>20 DEF vars
<1>. QED
  BY <1>1, <1>2, <1>3, <1>4, <1>5, <1>6, <1>7, <1>8, <1>9, <1>10, <1>11, <1>12, <1>13,
     <1>14, <1>15, <1>16, <1>17, <1>18, <1>19, <1>20
     DEF Next, Builder, Start

\* The number of versions.
LEMMA StaysCounted ==
  ASSUME IInv, [Next]_vars
  PROVE  Counted'
<1> USE DEF IInv, SplitStage, RdepsStage, PackStage, Complete, database, progress, repository,
    readers, counters, threads, Counted, OnCourse
<1>. newest \in Nat /\ outdates \in Nat /\ trouble \in Nat /\ ahead \in {1, 2, 3, 4}
  BY Counts
<1>1. CASE Start /\ StartSplit
  BY <1>1 DEF StartSplit, Start
<1>2. CASE Start /\ StartLater
  BY <1>2 DEF StartLater, Start
<1>3. ASSUME NEW n \in Names, AddPackage(n) PROVE Counted'
  BY <1>3 DEF AddPackage
<1>4. CASE SetCurrent
  BY <1>4 DEF SetCurrent
<1>5. CASE SplitSucceeds
  BY <1>5 DEF SplitSucceeds
<1>6. ASSUME NEW n \in Names, UpdateFiles(n) PROVE Counted'
  BY <1>6 DEF UpdateFiles
<1>7. CASE AddRdeps
  BY <1>7 DEF AddRdeps
<1>8. ASSUME NEW n \in Names, Pack(n) PROVE Counted'
  BY <1>8 DEF Pack
<1>9. ASSUME NEW n \in Names, PackFails(n) PROVE Counted'
  BY <1>9 DEF PackFails
<1>10. ASSUME NEW n \in Names, Copied(n) PROVE Counted'
  BY <1>10 DEF Copied
<1>11. CASE AllPacked
  BY <1>11 DEF AllPacked
<1>12. ASSUME NEW n \in Names, Move(n) PROVE Counted'
  BY <1>12 DEF Move, Moved
<1>13. CASE MoveRaises
  BY <1>13 DEF MoveRaises, Stops
<1>14. CASE PackEnds
  BY <1>14 DEF PackEnds
<1>15. CASE BuildFails
  <2>1. trouble' = trouble + 1 /\ UNCHANGED <<newest, outdates>>
    BY <1>15 DEF BuildFails, Stops
  <2>2. newest <= outdates + trouble' /\ newest <= outdates + trouble' + 1
    BY <2>1, OneMore
  <2>. QED BY <2>1, <2>2
<1>16. ASSUME NEW st \in SplitStage .. PackStage, Outdate(st) PROVE Counted'
  BY <1>16 DEF Outdate
<1>17. CASE DeleteOld
  BY <1>17 DEF DeleteOld
<1>18. CASE Choose
  BY <1>18 DEF Choose
<1>19. CASE LookUp
  BY <1>19 DEF LookUp
<1>20. CASE UNCHANGED vars
  BY <1>20 DEF vars
<1>. QED
  BY <1>1, <1>2, <1>3, <1>4, <1>5, <1>6, <1>7, <1>8, <1>9, <1>10, <1>11, <1>12, <1>13,
     <1>14, <1>15, <1>16, <1>17, <1>18, <1>19, <1>20
     DEF Next, Builder, Start

\* The course of a build.
LEMMA StaysOnCourse ==
  ASSUME IInv, [Next]_vars
  PROVE  OnCourse'
<1> USE DEF IInv, SplitStage, RdepsStage, PackStage, Complete, database, progress, repository,
    readers, counters, threads, OnCourse
<1>1. CASE Start /\ StartSplit
  <2>1. newest' # 0 /\ All \in todo'
    BY <1>1, Counts DEF Start, StartSplit
  <2>. QED BY <1>1, <2>1 DEF Start, StartSplit
<1>2. CASE Start /\ StartLater
  BY <1>2 DEF Start, StartLater, TypeOK
<1>3. ASSUME NEW n \in Names, AddPackage(n) PROVE OnCourse'
  BY <1>3 DEF AddPackage
<1>4. CASE SetCurrent
  BY <1>4 DEF SetCurrent
<1>5. CASE SplitSucceeds
  BY <1>5 DEF SplitSucceeds
<1>6. ASSUME NEW n \in Names, UpdateFiles(n) PROVE OnCourse'
  BY <1>6 DEF UpdateFiles
<1>7. CASE AddRdeps
  BY <1>7 DEF AddRdeps
<1>8. ASSUME NEW n \in Names, Pack(n) PROVE OnCourse'
  BY <1>8 DEF Pack
<1>9. ASSUME NEW n \in Names, PackFails(n) PROVE OnCourse'
  BY <1>9 DEF PackFails
<1>10. ASSUME NEW n \in Names, Copied(n) PROVE OnCourse'
  BY <1>10 DEF Copied
<1>11. CASE AllPacked
  BY <1>11 DEF AllPacked
<1>12. ASSUME NEW n \in Names, Move(n) PROVE OnCourse'
  BY <1>12 DEF Move, Moved
<1>13. CASE MoveRaises
  BY <1>13 DEF MoveRaises, Stops
<1>14. CASE PackEnds
  BY <1>14 DEF PackEnds
<1>15. CASE BuildFails
  BY <1>15 DEF BuildFails, Stops
<1>16. ASSUME NEW st \in SplitStage .. PackStage, Outdate(st) PROVE OnCourse'
  BY <1>16 DEF Outdate
<1>17. CASE DeleteOld
  BY <1>17 DEF DeleteOld
<1>18. CASE Choose
  BY <1>18 DEF Choose
<1>19. CASE LookUp
  BY <1>19 DEF LookUp
<1>20. CASE UNCHANGED vars
  BY <1>20 DEF vars
<1>. QED
  BY <1>1, <1>2, <1>3, <1>4, <1>5, <1>6, <1>7, <1>8, <1>9, <1>10, <1>11, <1>12, <1>13,
     <1>14, <1>15, <1>16, <1>17, <1>18, <1>19, <1>20
     DEF Next, Builder, Start

\* The split.
LEMMA TheSplitStays ==
  ASSUME IInv, [Next]_vars
  PROVE  TheSplit'
<1> USE DEF IInv, SplitStage, RdepsStage, PackStage, Complete, database, progress, repository,
    readers, counters, threads, TheSplit, HasSplit, NewParts, OnCourse
<1>. newest \in Nat /\ outdates \in Nat /\ trouble \in Nat /\ ahead \in {1, 2, 3, 4}
  BY Counts
<1>1. CASE Start /\ StartSplit
  <2>1. \A b \in rows : b[2] \in Nat
    BY Counts
  <2>. QED BY <1>1, <2>1 DEF Start, StartSplit
<1>2. CASE Start /\ StartLater
  BY <1>2 DEF StartLater, Start
<1>3. ASSUME NEW n \in Names, AddPackage(n) PROVE TheSplit'
  BY <1>3 DEF AddPackage
<1>4. CASE SetCurrent
  <2>1. All \in Names
    BY DEF Names
  <2>2. newest # 0 /\ <<All, newest>> \in rows
    BY <1>4 DEF SetCurrent
  <2>3. newest' # 0 /\ All \in current' /\ \A n \in current' : <<n, newest'>> \in rows'
    BY <1>4, <2>1, <2>2 DEF SetCurrent
  <2>4. ahead' = SplitStage /\ newest' = newest /\ rows' = rows
    BY <1>4 DEF SetCurrent
  <2>5. (\A b \in rows : b[2] <= newest)'
    BY <2>4
  <2>6. ahead' \notin {PackStage, Complete}
    BY <2>4, Stages
  <2>. QED BY <2>3, <2>5, <2>6
<1>5. CASE SplitSucceeds
  <2>1. newest # 0 /\ All \in current /\ \A n \in current : <<n, newest>> \in rows
    BY <1>5 DEF SplitSucceeds
  <2>2. UNCHANGED <<newest, current, rows>> /\ ahead' = RdepsStage
    BY <1>5 DEF SplitSucceeds
  <2>3. (\A b \in rows : b[2] <= newest)'
    BY <2>2
  <2>4. ahead' \notin {PackStage, Complete}
    BY <2>2, Stages
  <2>. QED BY <2>1, <2>2, <2>3, <2>4
<1>6. ASSUME NEW n \in Names, UpdateFiles(n) PROVE TheSplit'
  BY <1>6 DEF UpdateFiles
<1>7. CASE AddRdeps
  <2>1. rdeps' = [rdeps EXCEPT ![newest] = NewParts] /\ newest \in Versions /\ HasSplit
    BY <1>7, RdepsAreParts
  <2>2. rdeps'[newest] = NewParts
    BY <2>1 DEF TypeOK
  <2>. QED BY <1>7, <2>1, <2>2 DEF AddRdeps
<1>8. ASSUME NEW n \in Names, Pack(n) PROVE TheSplit'
  BY <1>8 DEF Pack
<1>9. ASSUME NEW n \in Names, PackFails(n) PROVE TheSplit'
  BY <1>9 DEF PackFails
<1>10. ASSUME NEW n \in Names, Copied(n) PROVE TheSplit'
  BY <1>10 DEF Copied
<1>11. CASE AllPacked
  BY <1>11 DEF AllPacked
<1>12. ASSUME NEW n \in Names, Move(n) PROVE TheSplit'
  BY <1>12 DEF Move, Moved
<1>13. CASE MoveRaises
  BY <1>13 DEF MoveRaises, Stops
<1>14. CASE PackEnds
  BY <1>14 DEF PackEnds
<1>15. CASE BuildFails
  BY <1>15 DEF BuildFails, Stops
<1>16. ASSUME NEW st \in SplitStage .. PackStage, Outdate(st) PROVE TheSplit'
  <2>1. st \in {1, 2, 3}
    BY Stages
  <2>. QED BY <1>16, <2>1 DEF Outdate
<1>17. CASE DeleteOld
  <2>1. rows' \subseteq rows /\ HasSplit' = HasSplit
    BY <1>17 DEF DeleteOld
  <2>2. HasSplit => \A n \in current : <<n, newest>> \in rows'
    BY <1>17, NewestStays
  <2>. QED BY <1>17, <2>1, <2>2 DEF DeleteOld
<1>18. CASE Choose
  BY <1>18 DEF Choose
<1>19. CASE LookUp
  BY <1>19 DEF LookUp
<1>20. CASE UNCHANGED vars
  BY <1>20 DEF vars
<1>. QED
  BY <1>1, <1>2, <1>3, <1>4, <1>5, <1>6, <1>7, <1>8, <1>9, <1>10, <1>11, <1>12, <1>13,
     <1>14, <1>15, <1>16, <1>17, <1>18, <1>19, <1>20
     DEF Next, Builder, Start

\* What is not packed yet.
LEMMA StaysUnpacked ==
  ASSUME IInv, [Next]_vars
  PROVE  Unpacked'
<1> USE DEF IInv, SplitStage, RdepsStage, PackStage, Complete, database, progress, repository,
    readers, counters, threads, Unpacked, OnCourse
<1>. newest \in Nat /\ outdates \in Nat /\ trouble \in Nat /\ ahead \in {1, 2, 3, 4}
  BY Counts
<1>1. CASE Start /\ StartSplit
  <2>1. newest' = newest + 1 /\ pc = "idle" /\ UNCHANGED <<fresh, repo>>
    BY <1>1 DEF Start, StartSplit
  <2>2. \A f \in Forms : f[2] \in Nat
    BY Numbers DEF Forms
  <2>3. \A f \in Forms : f[2] > newest' \/ f[2] = newest' => f[2] > newest
    BY <2>1, <2>2
  <2>. QED BY <2>1, <2>3
<1>2. CASE Start /\ StartLater
  BY <1>2 DEF StartLater, Start
<1>3. ASSUME NEW n \in Names, AddPackage(n) PROVE Unpacked'
  BY <1>3 DEF AddPackage
<1>4. CASE SetCurrent
  BY <1>4 DEF SetCurrent
<1>5. CASE SplitSucceeds
  BY <1>5 DEF SplitSucceeds
<1>6. ASSUME NEW n \in Names, UpdateFiles(n) PROVE Unpacked'
  BY <1>6 DEF UpdateFiles
<1>7. CASE AddRdeps
  BY <1>7 DEF AddRdeps
<1>8. ASSUME NEW n \in Names, Pack(n) PROVE Unpacked'
  <2>1. Latest(n) = <<n, newest>> /\ n \in current /\ newest \in Versions /\ HasSplit
    BY <1>8, LatestOfStep
  <2>2. pc = "pack" /\ pc' = pc
    BY <1>8 DEF Pack
  <2>4. \A f \in Forms : f[2] > newest => f # <<n, newest>>
    BY Later
  <2>. QED BY <1>8, <2>1, <2>2, <2>4 DEF Pack, TypeOK
<1>9. ASSUME NEW n \in Names, PackFails(n) PROVE Unpacked'
  BY <1>9 DEF PackFails
<1>10. ASSUME NEW n \in Names, Copied(n) PROVE Unpacked'
  <2>1. Latest(n) = <<n, newest>> /\ n \in current /\ newest \in Versions /\ HasSplit
    BY <1>10, LatestOfStep
  <2>2. pc = "pack" /\ pc' = pc
    BY <1>10 DEF Copied
  <2>4. \A f \in Forms : f[2] > newest => f # <<n, newest>>
    BY Later
  <2>. QED BY <1>10, <2>1, <2>2, <2>4 DEF Copied, TypeOK
<1>11. CASE AllPacked
  BY <1>11 DEF AllPacked
<1>12. ASSUME NEW n \in Names, Move(n) PROVE Unpacked'
  BY <1>12 DEF Move, Moved
<1>13. CASE MoveRaises
  BY <1>13 DEF MoveRaises, Stops
<1>14. CASE PackEnds
  BY <1>14 DEF PackEnds
<1>15. CASE BuildFails
  BY <1>15 DEF BuildFails, Stops
<1>16. ASSUME NEW st \in SplitStage .. PackStage, Outdate(st) PROVE Unpacked'
  BY <1>16 DEF Outdate
<1>17. CASE DeleteOld
  BY <1>17 DEF DeleteOld
<1>18. CASE Choose
  BY <1>18 DEF Choose
<1>19. CASE LookUp
  BY <1>19 DEF LookUp
<1>20. CASE UNCHANGED vars
  BY <1>20 DEF vars
<1>. QED
  BY <1>1, <1>2, <1>3, <1>4, <1>5, <1>6, <1>7, <1>8, <1>9, <1>10, <1>11, <1>12, <1>13,
     <1>14, <1>15, <1>16, <1>17, <1>18, <1>19, <1>20
     DEF Next, Builder, Start

\* What is in place.
LEMMA StaysPlaced ==
  ASSUME IInv, [Next]_vars
  PROVE  Placed'
<1> USE DEF IInv, SplitStage, RdepsStage, PackStage, Complete, database, progress, repository,
    readers, counters, threads, Placed, NewParts, InPlace
<1>. newest \in Nat /\ outdates \in Nat /\ trouble \in Nat /\ ahead \in {1, 2, 3, 4}
  BY Counts
<1>1. CASE Start /\ StartSplit
  <2>1. newest' = newest + 1 /\ pc = "idle" /\ UNCHANGED <<rows, complete, repo>> /\ pc' = "split"
    BY <1>1 DEF Start, StartSplit
  <2>2. All \in Names /\ newest' \in Versions
    <3>1. newest' \in {0} \cup Versions
      BY Typed DEF TypeOK
    <3>2. newest' # 0
      BY <2>1, Counts
    <3>. QED BY <3>1, <3>2 DEF Names
  <2>3. <<All, newest'>> \in Forms
    BY <2>2, Numbers
  <2>4. repo[<<All, newest'>>] = Absent
    BY <2>1, <2>3 DEF Unpacked
  <2>. QED BY <2>1, <2>4
<1>2. CASE Start /\ StartLater
  BY <1>2 DEF StartLater, Start
<1>3. ASSUME NEW n \in Names, AddPackage(n) PROVE Placed'
  <2>1. newest # 0 => repo[<<All, newest>>] = Absent
    <3>1. newest # 0 => <<All, newest>> \in Forms
      BY Numbers DEF TypeOK, Names
    <3>. QED BY <1>3, <3>1 DEF AddPackage, Unpacked
  <2>2. complete # 0 => complete < newest
    <3>1. complete # 0 => complete # newest
      BY <2>1 DEF TypeOK
    <3>2. complete <= newest
      BY DEF TypeOK
    <3>. QED BY <3>1, <3>2, Counts
  <2>3. complete # 0 /\ (\E v \in Versions : v <= complete /\ <<All, v>> \in rows')
          => \E v \in Versions : v <= complete /\ <<All, v>> \in rows
    <3>1. \A v \in Versions : v <= complete /\ complete # 0 => v # newest
      BY <2>2, Numbers, Counts
    <3>. QED BY <1>3, <3>1 DEF AddPackage
  <2>. QED BY <1>3, <2>1, <2>3 DEF AddPackage
<1>4. CASE SetCurrent
  <2>1. newest # 0 => repo[<<All, newest>>] = Absent
    <3>1. newest # 0 => <<All, newest>> \in Forms
      BY Numbers DEF TypeOK, Names
    <3>. QED BY <1>4, <3>1 DEF SetCurrent, Unpacked
  <2>. QED BY <1>4, <2>1 DEF SetCurrent
<1>5. CASE SplitSucceeds
  BY <1>5 DEF SplitSucceeds
<1>6. ASSUME NEW n \in Names, UpdateFiles(n) PROVE Placed'
  BY <1>6 DEF UpdateFiles
<1>7. CASE AddRdeps
  <2>1. rdeps' = [rdeps EXCEPT ![newest] = NewParts] /\ newest \in Versions
    BY <1>7, RdepsAreParts
  <2>2. rdeps'[newest] = NewParts
    BY <2>1 DEF TypeOK
  <2>. QED BY <1>7, <2>1, <2>2 DEF AddRdeps
<1>8. ASSUME NEW n \in Names, Pack(n) PROVE Placed'
  BY <1>8 DEF Pack
<1>9. ASSUME NEW n \in Names, PackFails(n) PROVE Placed'
  BY <1>9 DEF PackFails
<1>10. ASSUME NEW n \in Names, Copied(n) PROVE Placed'
  BY <1>10 DEF Copied
<1>11. CASE AllPacked
  BY <1>11 DEF AllPacked
<1>12. ASSUME NEW n \in Names, Move(n) PROVE Placed'
  <2>1. Latest(n) = <<n, newest>> /\ n \in current /\ newest \in Versions /\ HasSplit
    BY <1>12, LatestOfStep
  <2>2. /\ \A f \in Forms : repo[f] # Absent => repo'[f] # Absent
        /\ repo'[<<n, newest>>] # Absent
        /\ \A f \in Forms : f # <<n, newest>> => repo'[f] = repo[f]
    <3>1. <<n, newest>> \in Forms
      BY <2>1, Numbers
    <3>. QED BY <1>12, <2>1, <3>1 DEF Move, Moved, TypeOK
  <2>3. rdeps[newest] = NewParts
    BY <1>12 DEF Move, TheSplit, OnCourse
  <2>4. \A m \in current : <<m, newest>> \in Forms
    BY <2>1, Numbers DEF TypeOK
  <2>5. \A m \in current \ todo' : repo'[<<m, newest>>] # Absent
    BY <1>12, <2>2, <2>4 DEF Move
  <2>6. complete # 0 => <<All, complete>> \in Forms
    BY Numbers DEF TypeOK, Names
  <2>. QED BY <1>12, <2>2, <2>3, <2>5, <2>6 DEF Move
<1>13. CASE MoveRaises
  BY <1>13 DEF MoveRaises, Stops
<1>14. CASE PackEnds
  <2>1. HasSplit /\ newest # 0 /\ All \in current /\ <<All, newest>> \in rows
    BY <1>14 DEF PackEnds, OnCourse, HasSplit, TheSplit
  <2>2. repo[<<All, newest>>] # Absent
    BY <1>14, <2>1 DEF PackEnds
  <2>. QED BY <1>14, <2>1, <2>2 DEF PackEnds
<1>15. CASE BuildFails
  BY <1>15 DEF BuildFails, Stops
<1>16. ASSUME NEW st \in SplitStage .. PackStage, Outdate(st) PROVE Placed'
  BY <1>16 DEF Outdate
<1>17. CASE DeleteOld
  <2>1. UNCHANGED <<current, rdeps, newest, complete, repo, pc, todo>> /\ pc = "idle"
    BY <1>17 DEF DeleteOld
  <2>2. complete # 0 =>
          ((\E v \in Versions : v <= complete /\ <<All, v>> \in rows')
             => <<All, complete>> \in rows')
    BY <1>17, CompleteStays
  <2>. QED BY <2>1, <2>2
<1>18. CASE Choose
  BY <1>18 DEF Choose
<1>19. CASE LookUp
  BY <1>19 DEF LookUp
<1>20. CASE UNCHANGED vars
  BY <1>20 DEF vars
<1>. QED
  BY <1>1, <1>2, <1>3, <1>4, <1>5, <1>6, <1>7, <1>8, <1>9, <1>10, <1>11, <1>12, <1>13,
     <1>14, <1>15, <1>16, <1>17, <1>18, <1>19, <1>20
     DEF Next, Builder, Start

\* What is packed by half.
LEMMA StaysTorn ==
  ASSUME IInv, [Next]_vars
  PROVE  Torn'
<1> USE DEF IInv, SplitStage, RdepsStage, PackStage, Complete, database, progress, repository,
    readers, counters, threads, Torn, OnCourse
<1>. newest \in Nat /\ outdates \in Nat /\ trouble \in Nat /\ ahead \in {1, 2, 3, 4}
  BY Counts
<1>1. CASE Start /\ StartSplit
  BY <1>1 DEF StartSplit, Start
<1>2. CASE Start /\ StartLater
  BY <1>2 DEF StartLater, Start
<1>3. ASSUME NEW n \in Names, AddPackage(n) PROVE Torn'
  BY <1>3 DEF AddPackage
<1>4. CASE SetCurrent
  BY <1>4 DEF SetCurrent
<1>5. CASE SplitSucceeds
  BY <1>5 DEF SplitSucceeds
<1>6. ASSUME NEW n \in Names, UpdateFiles(n) PROVE Torn'
  BY <1>6 DEF UpdateFiles
<1>7. CASE AddRdeps
  BY <1>7 DEF AddRdeps
<1>8. ASSUME NEW n \in Names, Pack(n) PROVE Torn'
  <2>1. Latest(n) = <<n, newest>> /\ n \in current /\ newest \in Versions /\ HasSplit
    BY <1>8, LatestOfStep
  <2>2. <<n, newest>> \in Forms
    BY <2>1, Numbers
  <2>3. fresh \in [Forms -> States] /\ repo \in [Forms -> States] /\ Whole # Part /\ Absent # Part
    BY DEF TypeOK, Whole, Part, Absent
  <2>. QED BY <1>8, <2>1, <2>2, <2>3 DEF Pack
<1>9. ASSUME NEW n \in Names, PackFails(n) PROVE Torn'
  <2>1. trouble' # 0 /\ (trouble' < 2 => trouble = 0)
    BY <1>9, TroubleGrows DEF PackFails
  <2>2. \A m \in current : newest # 0 => <<m, newest>> \in Forms
    BY Numbers DEF TypeOK
  <2>3. newest # 0
    BY <1>9 DEF PackFails, OnCourse, HasSplit, TheSplit
  <2>. QED BY <1>9, <2>1, <2>2, <2>3 DEF PackFails
<1>10. ASSUME NEW n \in Names, Copied(n) PROVE Torn'
  <2>1. Latest(n) = <<n, newest>> /\ n \in current /\ newest \in Versions /\ HasSplit
    BY <1>10, LatestOfStep
  <2>2. <<n, newest>> \in Forms
    BY <2>1, Numbers
  <2>3. fresh \in [Forms -> States] /\ repo \in [Forms -> States] /\ Whole # Part /\ Absent # Part
    BY DEF TypeOK, Whole, Part, Absent
  <2>4. /\ \A f \in Forms : fresh'[f] = Part => fresh[f] = Part /\ f # <<n, newest>>
        /\ UNCHANGED <<repo, todo, pc, trouble, newest, current>> /\ copying' = copying \ {n}
        /\ pc = "pack"
    BY <1>10, <2>1, <2>2, <2>3 DEF Copied
  <2>5. \A m \in current : <<m, newest>> \in Forms
    BY <2>1, Numbers DEF TypeOK
  <2>6. \A f \in Forms : f[2] = newest /\ f # <<n, newest>> => f[1] # n
    BY PairsOf
  <2>7. \A m : m # n => <<m, newest>> # <<n, newest>>
    OBVIOUS
  <2>8. (trouble = 0 => \A f \in Forms : fresh[f] = Part => f[1] \in copying /\ f[2] = newest)'
    BY <2>4, <2>6
  <2>9. \A m \in current : fresh'[<<m, newest>>] = Part => m # n /\ fresh[<<m, newest>>] = Part
    BY <2>4, <2>5
  <2>. QED BY <2>4, <2>8, <2>9
<1>11. CASE AllPacked
  BY <1>11 DEF AllPacked
<1>12. ASSUME NEW n \in Names, Move(n) PROVE Torn'
  <2>1. Latest(n) = <<n, newest>> /\ n \in current /\ newest \in Versions /\ HasSplit
    BY <1>12, LatestOfStep
  <2>2. <<n, newest>> \in Forms
    BY <2>1, Numbers
  <2>3. fresh \in [Forms -> States] /\ repo \in [Forms -> States] /\ Whole # Part /\ Absent # Part
    BY DEF TypeOK, Whole, Part, Absent
  <2>4. trouble < 2 => fresh[<<n, newest>>] # Part
    BY <1>12, <2>1 DEF Move
  <2>5. \A m \in current : <<m, newest>> \in Forms
    BY <2>1, Numbers DEF TypeOK
  <2>6. /\ \A f \in Forms : fresh'[f] = Part => fresh[f] = Part
        /\ \A f \in Forms : repo'[f] = repo[f] \/ (f = <<n, newest>> /\ repo'[f] = fresh[f])
    BY <1>12, <2>1, <2>2, <2>3 DEF Move, Moved
  <2>. QED BY <1>12, <2>4, <2>5, <2>6 DEF Move
<1>13. CASE MoveRaises
  BY <1>13 DEF MoveRaises, Stops
<1>14. CASE PackEnds
  BY <1>14 DEF PackEnds
<1>15. CASE BuildFails
  <2>0. trouble' = trouble + 1 /\ pc' = "idle" /\ UNCHANGED repository
    BY <1>15 DEF BuildFails, Stops
  <2>1. trouble' # 0 /\ (trouble' < 2 => trouble < 2) /\ pc' = "idle" /\ UNCHANGED repository
    BY <1>15, <2>0, TroubleGrows DEF BuildFails
  <2>. QED BY <2>1
<1>16. ASSUME NEW st \in SplitStage .. PackStage, Outdate(st) PROVE Torn'
  BY <1>16 DEF Outdate
<1>17. CASE DeleteOld
  BY <1>17 DEF DeleteOld
<1>18. CASE Choose
  BY <1>18 DEF Choose
<1>19. CASE LookUp
  BY <1>19 DEF LookUp
<1>20. CASE UNCHANGED vars
  BY <1>20 DEF vars
<1>. QED
  BY <1>1, <1>2, <1>3, <1>4, <1>5, <1>6, <1>7, <1>8, <1>9, <1>10, <1>11, <1>12, <1>13,
     <1>14, <1>15, <1>16, <1>17, <1>18, <1>19, <1>20
     DEF Next, Builder, Start

\* All after its parts.
LEMMA StaysPublished ==
  ASSUME IInv, [Next]_vars
  PROVE  PublishedWithParts'
<1> USE DEF IInv, SplitStage, RdepsStage, PackStage, Complete, database, progress, repository,
    readers, counters, threads, PublishedWithParts, InPlace
<1>. newest \in Nat /\ outdates \in Nat /\ trouble \in Nat /\ ahead \in {1, 2, 3, 4}
  BY Counts
<1>1. CASE Start /\ StartSplit
  BY <1>1 DEF StartSplit, Start
<1>2. CASE Start /\ StartLater
  BY <1>2 DEF StartLater, Start
<1>3. ASSUME NEW n \in Names, AddPackage(n) PROVE PublishedWithParts'
  BY <1>3 DEF AddPackage
<1>4. CASE SetCurrent
  BY <1>4 DEF SetCurrent
<1>5. CASE SplitSucceeds
  BY <1>5 DEF SplitSucceeds
<1>6. ASSUME NEW n \in Names, UpdateFiles(n) PROVE PublishedWithParts'
  BY <1>6 DEF UpdateFiles
<1>7. CASE AddRdeps
  <2>1. rdeps' = [rdeps EXCEPT ![newest] = NewParts] /\ newest \in Versions
    BY <1>7, RdepsAreParts
  <2>2. InPlace(<<All, newest>>) => rdeps' = rdeps
    BY <2>1, Numbers DEF Placed, TypeOK
  <2>3. \A v \in Versions : v # newest => rdeps'[v] = rdeps[v]
    BY <2>1 DEF TypeOK
  <2>. QED BY <1>7, <2>2, <2>3 DEF AddRdeps
<1>8. ASSUME NEW n \in Names, Pack(n) PROVE PublishedWithParts'
  BY <1>8 DEF Pack
<1>9. ASSUME NEW n \in Names, PackFails(n) PROVE PublishedWithParts'
  BY <1>9 DEF PackFails
<1>10. ASSUME NEW n \in Names, Copied(n) PROVE PublishedWithParts'
  BY <1>10 DEF Copied
<1>11. CASE AllPacked
  BY <1>11 DEF AllPacked
<1>12. ASSUME NEW n \in Names, Move(n) PROVE PublishedWithParts'
  <2>1. Latest(n) = <<n, newest>> /\ n \in current /\ newest \in Versions /\ HasSplit
    BY <1>12, LatestOfStep
  <2>2. /\ \A f \in Forms : repo[f] # Absent => repo'[f] # Absent
        /\ repo'[<<n, newest>>] # Absent
        /\ \A f \in Forms : f # <<n, newest>> => repo'[f] = repo[f]
    <3>1. <<n, newest>> \in Forms
      BY <2>1, Numbers
    <3>. QED BY <1>12, <2>1, <3>1 DEF Move, Moved, TypeOK
  <2>3. rdeps[newest] = NewParts /\ UNCHANGED rdeps
    BY <1>12 DEF Move, TheSplit, OnCourse
  <2>4. n = All => \A m \in current \ {All} : repo[<<m, newest>>] # Absent
    BY <1>12 DEF Move, Placed
  <2>5. \A m \in current : <<m, newest>> \in Forms
    BY <2>1, Numbers DEF TypeOK
  <2>6. ASSUME NEW v \in Versions, repo'[<<All, v>>] # Absent, NEW f \in rdeps[v]
        PROVE  repo'[f] # Absent
    <3>1. f \in Forms
      BY DEF TypeOK
    <3>2. CASE v = newest /\ n = All
      <4>1. PICK m \in current \ {All} : f = <<m, newest>>
        BY <2>3, <3>2 DEF NewParts
      <4>. QED BY <2>2, <2>4, <2>5, <3>2, <4>1
    <3>3. CASE <<All, v>> # <<n, newest>>
      <4>1. <<All, v>> \in Forms
        BY Numbers DEF Names
      <4>. QED BY <2>2, <2>6, <3>1, <3>3, <4>1
    <3>. QED BY <3>2, <3>3
  <2>. QED BY <2>3, <2>6
<1>13. CASE MoveRaises
  BY <1>13 DEF MoveRaises, Stops
<1>14. CASE PackEnds
  BY <1>14 DEF PackEnds
<1>15. CASE BuildFails
  BY <1>15 DEF BuildFails, Stops
<1>16. ASSUME NEW st \in SplitStage .. PackStage, Outdate(st) PROVE PublishedWithParts'
  BY <1>16 DEF Outdate
<1>17. CASE DeleteOld
  BY <1>17 DEF DeleteOld
<1>18. CASE Choose
  BY <1>18 DEF Choose
<1>19. CASE LookUp
  BY <1>19 DEF LookUp
<1>20. CASE UNCHANGED vars
  BY <1>20 DEF vars
<1>. QED
  BY <1>1, <1>2, <1>3, <1>4, <1>5, <1>6, <1>7, <1>8, <1>9, <1>10, <1>11, <1>12, <1>13,
     <1>14, <1>15, <1>16, <1>17, <1>18, <1>19, <1>20
     DEF Next, Builder, Start

\* What was chosen.
LEMMA StaysInstallable ==
  ASSUME IInv, [Next]_vars
  PROVE  ChosenInstallable'
<1> USE DEF IInv, SplitStage, RdepsStage, PackStage, Complete, database, progress, repository,
    readers, counters, threads, ChosenInstallable, InPlace
<1>. newest \in Nat /\ outdates \in Nat /\ trouble \in Nat /\ ahead \in {1, 2, 3, 4}
  BY Counts
<1>1. CASE Start /\ StartSplit
  BY <1>1 DEF StartSplit, Start
<1>2. CASE Start /\ StartLater
  BY <1>2 DEF StartLater, Start
<1>3. ASSUME NEW n \in Names, AddPackage(n) PROVE ChosenInstallable'
  BY <1>3 DEF AddPackage
<1>4. CASE SetCurrent
  BY <1>4 DEF SetCurrent
<1>5. CASE SplitSucceeds
  BY <1>5 DEF SplitSucceeds
<1>6. ASSUME NEW n \in Names, UpdateFiles(n) PROVE ChosenInstallable'
  BY <1>6 DEF UpdateFiles
<1>7. CASE AddRdeps
  <2>1. rdeps' = [rdeps EXCEPT ![newest] = NewParts] /\ newest \in Versions
    BY <1>7, RdepsAreParts
  <2>2. InPlace(<<All, newest>>) => rdeps' = rdeps
    BY <2>1, Numbers DEF Placed, TypeOK
  <2>3. \A v \in Versions : v # newest => rdeps'[v] = rdeps[v]
    BY <2>1 DEF TypeOK
  <2>4. chosen # 0 => InPlace(<<All, chosen>>) /\ chosen \in Versions
    BY DEF TypeOK
  <2>5. chosen # 0 => rdeps'[chosen] = rdeps[chosen]
    BY <2>2, <2>3, <2>4
  <2>. QED BY <1>7, <2>5 DEF AddRdeps
<1>8. ASSUME NEW n \in Names, Pack(n) PROVE ChosenInstallable'
  BY <1>8 DEF Pack
<1>9. ASSUME NEW n \in Names, PackFails(n) PROVE ChosenInstallable'
  <2>1. (trouble' < 2 => trouble < 2) /\ UNCHANGED <<repo, rdeps, chosen>>
    BY <1>9, TroubleGrows DEF PackFails
  <2>. QED BY <2>1
<1>10. ASSUME NEW n \in Names, Copied(n) PROVE ChosenInstallable'
  BY <1>10 DEF Copied
<1>11. CASE AllPacked
  BY <1>11 DEF AllPacked
<1>12. ASSUME NEW n \in Names, Move(n) PROVE ChosenInstallable'
  <2>1. Latest(n) = <<n, newest>> /\ n \in current /\ newest \in Versions /\ HasSplit
    BY <1>12, LatestOfStep
  <2>2. <<n, newest>> \in Forms
    BY <2>1, Numbers
  <2>3. fresh \in [Forms -> States] /\ repo \in [Forms -> States] /\ Whole # Part /\ Absent # Part
    BY DEF TypeOK, Whole, Part, Absent
  <2>4. fresh[<<n, newest>>] # Absent /\ (trouble < 2 => fresh[<<n, newest>>] # Part)
    BY <1>12, <2>1 DEF Move, Torn
  <2>5. /\ \A f \in Forms : repo'[f] = repo[f] \/ (f = <<n, newest>> /\ repo'[f] = fresh[f])
        /\ UNCHANGED <<rdeps, chosen, trouble>>
    BY <1>12, <2>1, <2>2, <2>3 DEF Move, Moved
  <2>6. \A f \in Forms : InPlace(f) /\ (trouble < 2 => repo[f] = Whole)
                          => repo'[f] # Absent /\ (trouble < 2 => repo'[f] = Whole)
    BY <2>2, <2>3, <2>4, <2>5 DEF States
  <2>7. chosen # 0 => rdeps[chosen] \cup {<<All, chosen>>} \subseteq Forms
    BY Numbers DEF TypeOK, Names
  <2>. QED BY <2>5, <2>6, <2>7
<1>13. CASE MoveRaises
  BY <1>13 DEF MoveRaises, Stops
<1>14. CASE PackEnds
  BY <1>14 DEF PackEnds
<1>15. CASE BuildFails
  <2>1. (trouble' < 2 => trouble < 2) /\ UNCHANGED <<repo, rdeps, chosen>>
    BY <1>15, TroubleGrows DEF BuildFails, Stops
  <2>. QED BY <2>1
<1>16. ASSUME NEW st \in SplitStage .. PackStage, Outdate(st) PROVE ChosenInstallable'
  BY <1>16 DEF Outdate
<1>17. CASE DeleteOld
  BY <1>17 DEF DeleteOld
<1>18. CASE Choose
  <2>1. chosen' = complete /\ complete \in Versions
    BY <1>18, ChoosesComplete
  <2>2. UNCHANGED <<repo, rdeps, trouble>>
    BY <1>18 DEF Choose
  <2>3. \A f \in rdeps[complete] \cup {<<All, complete>>} : InPlace(f)
    BY <2>1, Numbers DEF Placed, PublishedWithParts
  <2>4. rdeps[complete] \cup {<<All, complete>>} \subseteq Forms
    BY <2>1, Numbers DEF TypeOK, Names
  <2>5. trouble < 2 => \A f \in Forms : InPlace(f) => repo[f] = Whole
    BY DEF Torn, TypeOK, States
  <2>. QED BY <2>1, <2>2, <2>3, <2>4, <2>5
<1>19. CASE LookUp
  BY <1>19 DEF LookUp
<1>20. CASE UNCHANGED vars
  BY <1>20 DEF vars
<1>. QED
  BY <1>1, <1>2, <1>3, <1>4, <1>5, <1>6, <1>7, <1>8, <1>9, <1>10, <1>11, <1>12, <1>13,
     <1>14, <1>15, <1>16, <1>17, <1>18, <1>19, <1>20
     DEF Next, Builder, Start

-----------------------------------------------------------------------------
(* The theorems.                                                           *)

\* The invariant that the others follow from.
THEOREM Inductive == Spec => []IInv
<1>1. Init => IInv
  <2>. SUFFICES ASSUME Init PROVE IInv
    OBVIOUS
  <2>1. TypeOK
    BY BinaryPackagesAssumption
       DEF Init, TypeOK, SplitStage, Complete, Places, States
  <2>2. Counted /\ OnCourse
    BY BinaryPackagesAssumption DEF Init, Counted, OnCourse
  <2>3. TheSplit
    BY Stages DEF Init, TheSplit, HasSplit
  <2>4. Unpacked
    BY DEF Init, Unpacked
  <2>5. Placed
    BY DEF Init, Placed
  <2>6. Torn
    BY DEF Init, Torn, Part, Absent
  <2>7. PublishedWithParts
    <3>1. \A v \in Versions : <<All, v>> \in Forms
      BY Numbers DEF Names
    <3>. QED BY <3>1 DEF Init, PublishedWithParts, InPlace
  <2>8. ChosenInstallable
    BY DEF Init, ChosenInstallable
  <2>. QED BY <2>1, <2>2, <2>3, <2>4, <2>5, <2>6, <2>7, <2>8 DEF IInv
<1>2. IInv /\ [Next]_vars => IInv'
  BY Typed, StaysCounted, StaysOnCourse, TheSplitStays, StaysUnpacked, StaysPlaced, StaysTorn,
     StaysPublished, StaysInstallable DEF IInv
<1>. QED BY <1>1, <1>2, PTL DEF Spec

\* The types; among them that there are never more versions than Versions has, so that
\* this bound keeps no build from being made.
THEOREM TypeCorrect == Spec => []TypeOK
<1>1. IInv => TypeOK
  BY DEF IInv
<1>. QED BY <1>1, Inductive, PTL

\* PublishedWithParts: once All is in the collecting repository, all that it depends on is
\* there, too; move_into_place renames it last, and computing its dependencies again, after
\* a stage was outdated, gives the same ones.
THEOREM PublishedInOrder == Spec => []PublishedWithParts
<1>1. IInv => PublishedWithParts
  BY DEF IInv
<1>. QED BY <1>1, Inductive, PTL

\* ChosenInstallable: what the builder of a dependant chooses among the rows, those of
\* failed and of running builds included, can be installed at that moment and later.
THEOREM ChosenStaysInstallable == Spec => []ChosenInstallable
<1>1. IInv => ChosenInstallable
  BY DEF IInv
<1>. QED BY <1>1, Inductive, PTL

\* While the stages after the split run, and until a stage is outdated, the latest version
\* of each current binary package, which is what they look for, is the one that the split
\* of this build made: neither failed builds nor remove_old_binary_packages mislead them.
StagesTakeTheSplit ==
  pc \in {"rdeps", "pack", "move"} \/ ahead = Complete =>
    \A n \in current : Latest(n) = <<n, newest>>

\* StagesTakeTheSplit holds.
THEOREM LatestIsOfThisBuild == Spec => []StagesTakeTheSplit
<1>1. IInv => StagesTakeTheSplit
  <2>. SUFFICES ASSUME IInv, pc \in {"rdeps", "pack", "move"} \/ ahead = Complete
                PROVE  \A n \in current : Latest(n) = <<n, newest>>
    BY DEF StagesTakeTheSplit
  <2>1. TypeOK /\ OnCourse /\ TheSplit
    BY DEF IInv
  <2>2. HasSplit
    <3>1. SplitStage # Complete
      BY Stages
    <3>. QED BY <2>1, <3>1, InCourse DEF HasSplit
  <2>. QED BY <2>1, <2>2, LatestIsNewest
<1>. QED BY <1>1, Inductive, PTL

\* What a published All depends on does not change any more, whatever is outdated, built
\* again or deleted.
PublishedIsFixed ==
  [][\A v \in Versions : InPlace(<<All, v>>) => rdeps'[v] = rdeps[v]]_vars

\* PublishedIsFixed holds.
THEOREM DependenciesAreFixed == Spec => PublishedIsFixed
<1>1. IInv /\ [Next]_vars =>
        [\A v \in Versions : InPlace(<<All, v>>) => rdeps'[v] = rdeps[v]]_vars
  <2>. SUFFICES ASSUME IInv, [Next]_vars, NEW v \in Versions, InPlace(<<All, v>>)
                PROVE  rdeps'[v] = rdeps[v]
    OBVIOUS
  <2>1. TypeOK /\ OnCourse /\ TheSplit /\ Placed
    BY DEF IInv
  <2>2. CASE AddRdeps
    <3>1. rdeps' = [rdeps EXCEPT ![newest] = NewParts] /\ newest \in Versions
      BY <2>1, <2>2, RdepsAreParts
    <3>2. v = newest => rdeps[v] = NewParts
      BY <2>1, Numbers DEF Placed
    <3>. QED BY <2>1, <3>1, <3>2 DEF TypeOK
  <2>3. CASE UNCHANGED rdeps
    BY <2>3
  <2>4. AddRdeps \/ UNCHANGED rdeps
    BY DEF Next, Builder, Start, StartSplit, StartLater, AddPackage, SetCurrent, SplitSucceeds,
       UpdateFiles, Pack, PackFails, Copied, AllPacked, Move, MoveRaises, PackEnds, BuildFails,
       Stops, Outdate, DeleteOld, Choose, LookUp, database, vars
  <2>. QED BY <2>2, <2>3, <2>4
<1>. QED BY <1>1, Inductive, PTL DEF Spec, PublishedIsFixed

=============================================================================
