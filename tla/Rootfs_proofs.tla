--------------------------- MODULE Rootfs_proofs ---------------------------
(***************************************************************************)
(* Theorems about rootfs images, for any number of processes and images,   *)
(* and without the bounds on operations and faults: what is listed is      *)
(* usable, builds run where they can, and the locks have three ways to     *)
(* come to a standstill and no other.                                           *)
(*                                                                         *)
(* The argument: what a process relies upon is about the image that it has *)
(* a lock of, and is changed only by those who could lock it exclusively.  *)
(***************************************************************************)
EXTENDS Rootfs, FiniteSetTheorems, TLAPS

-----------------------------------------------------------------------------
(* The inductive invariant.                                                *)

OldLists == {OldImages[i].list : i \in DOMAIN OldImages}
Packages == Mixed \cup (UNION Demands) \cup (UNION OldLists)
Some == {S \in SUBSET Packages : IsFiniteSet(S)}
Rows == {"none", "pending", "there"}
Bases == {"none", "plain", "protected"}
Commands == {"publish", "unpublish", "comment", "rmbase"}

\* The course of a build, in parts: up to the clone, the clone before it is published, and
\* afterwards.
Making == {"install", "adapt"}
Publishing == {"snap", "protect", "list"}
Using == {"mount", "build"}
Places ==
  {"idle", "find", "chosen", "clone", "commit", "commitempty", "downgrade", "reopen", "open",
   "unlist", "evaluate", "pick", "flatten", "delist", "delete", "purge"}
    \cup Making \cup Publishing \cup Using

DataTyped ==
  /\ row \in [Images -> Rows] /\ list \in [Images -> Some]
  /\ available \subseteq Images /\ rbd \subseteq Images
  /\ base \in [Images -> Bases] /\ parent \in [Images -> 0 .. MaxImages]
  /\ content \in [Images -> Some]

ProcsTyped ==
  /\ pc \in [Procs -> Places]
  /\ op \in [Procs -> {"idle", "build", "delete"} \cup Commands \cup Tools]
  /\ img \in [Procs -> 0 .. MaxImages]
  /\ todo \in [Procs -> SUBSET Images] /\ kids \in [Procs -> SUBSET Images]
  /\ want \in [Procs -> Some] /\ mounted \in [Procs -> BOOLEAN]
  /\ held \in [Procs -> SUBSET ((0 .. MaxImages) \X L!Modes)]

TypeOK == DataTyped /\ ProcsTyped /\ made \in 0 .. MaxImages

\* No two processes have the same lock, unless one of them only reads.
Exclusive ==
  \A p, q \in Procs, l \in 0 .. MaxImages, m, n \in L!Modes :
    p # q /\ L!Holds(p, l, m) /\ L!Holds(q, l, n) => <<m, n>> \in L!Compatible

\* What an operation is at which place, and whether it has an image then.
OnCourse(p) ==
  /\ pc[p] = "find" => op[p] = "build"
  /\ pc[p] \in {"chosen", "clone", "commit", "downgrade", "reopen"} \cup Making \cup Using =>
       op[p] = "build" /\ img[p] # 0
  /\ pc[p] = "commitempty" => img[p] # 0
  /\ pc[p] \in Publishing => op[p] \in {"build", "publish"} /\ img[p] # 0
  /\ pc[p] = "open" => op[p] \in Commands /\ img[p] # 0
  /\ pc[p] = "unlist" => op[p] = "unpublish" /\ img[p] # 0
  /\ pc[p] \in {"evaluate", "pick"} => op[p] \in Tools
  /\ pc[p] = "flatten" => op[p] \in Tools /\ img[p] # 0
  /\ pc[p] \in {"delist", "delete", "purge"} => op[p] \in Tools \cup {"delete"} /\ img[p] # 0
  /\ \A d, e \in want[p] : d[1] = e[1] => d = e

\* What is locked at which place.
Read == {<<i, "S">> : i \in Images}
Mine(p, m) == {<<img[p], m>>}

\* The images that a tool is to delete yet are locked, and have lower numbers than the one
\* that it deletes.
Found(p) == {<<i, "S">> : i \in todo[p]}
Keeps(p) == Found(p) \subseteq held[p] /\ \A i \in todo[p] : i < img[p]

Locked(p) ==
  /\ pc[p] \in {"idle", "find", "open"} => held[p] = {}
  /\ pc[p] = "chosen" => held[p] = {<<Avail, "S">>}
  /\ pc[p] \in Using \cup {"clone"} => held[p] = Mine(p, "S")
  /\ pc[p] = "commit" => Mine(p, "X") \subseteq held[p] /\ held[p] \subseteq Mine(p, "X") \cup Read
  /\ pc[p] \in Making \cup Publishing \cup {"commitempty", "downgrade", "unlist"} =>
       held[p] = Mine(p, "X")
  /\ pc[p] = "reopen" => held[p] = Mine(p, "S+")
  /\ pc[p] \in {"evaluate", "pick"} => held[p] \subseteq Read
  /\ pc[p] = "pick" => Found(p) \subseteq held[p]
  /\ pc[p] = "flatten" =>
       Mine(p, "S+") \subseteq held[p] /\ held[p] \subseteq Mine(p, "S+") \cup Read /\ Keeps(p)
  /\ pc[p] \in {"delist", "delete"} =>
       IF ByTool(p) THEN /\ Mine(p, "S+") \subseteq held[p]
                         /\ held[p] \subseteq Mine(p, "S+") \cup Read /\ Keeps(p)
                    ELSE held[p] = {}
  /\ pc[p] = "purge" =>
       /\ Mine(p, "X") \subseteq held[p]
       /\ held[p] \subseteq Mine(p, "X") \cup Mine(p, "S+") \cup Read
       /\ ByTool(p) => Keeps(p)

\* An image that a build may use.
Suits(p) == want[p] \subseteq content[img[p]] /\ base[img[p]] # "none"

\* What the process knows of its image.
Sees(p) ==
  /\ pc[p] = "chosen" => img[p] \in available
  /\ pc[p] \in {"commit", "commitempty"} => img[p] \notin available /\ row[img[p]] = "pending"
  /\ pc[p] \in Making => img[p] \notin available /\ row[img[p]] = "there"
  /\ pc[p] \in Publishing =>
       /\ row[img[p]] = "there" /\ content[img[p]] = list[img[p]]
       /\ op[p] = "build" => want[p] \subseteq content[img[p]]
  /\ pc[p] \in {"protect", "list"} => base[img[p]] # "none"
  /\ pc[p] \in {"downgrade", "reopen"} \cup Using => Suits(p)
  /\ pc[p] = "purge" => img[p] \notin available /\ row[img[p]] = "none"

Local(p) == OnCourse(p) /\ Locked(p) /\ Sees(p)

\* Nothing is known of images that have not been made.
Unmade ==
  /\ \A i \in available \cup rbd : i <= made
  /\ \A p \in Procs : img[p] <= made /\ \A l \in 0 .. MaxImages, m \in L!Modes :
                                          L!Holds(p, l, m) => l <= made
  /\ \A i \in Images : row[i] # "none" => i \in rbd

IInv == TypeOK /\ Exclusive /\ Unmade /\ AvailableUsable /\ \A p \in Procs : Local(p)

-----------------------------------------------------------------------------
(* The first and the last of some images.                                  *)

\* Some numbers have a least one.
LEMMA LeastIsLeast ==
  ASSUME NEW S \in SUBSET Nat, S # {}
  PROVE  Least(S) \in S /\ \A j \in S : Least(S) <= j
<1> DEFINE R == OpToRel(<, Nat)
<1>1. PICK i \in S : \A j \in S : <<j, i>> \notin R
  <2> HIDE DEF R
  <2>1. IsWellFoundedOn(R, Nat)
    BY NatLessThanWellFounded DEF R
  <2>. QED BY <2>1, WFMin
<1>2. S \subseteq Nat
  OBVIOUS
<1>3. \A j \in S : ~(j < i)
  BY <1>1, <1>2 DEF OpToRel
<1>4. \A j \in S : i <= j
  BY <1>2, <1>3
<1>. QED BY <1>4 DEF Least

\* Some images have a greatest one.
LEMMA GreatestIsGreatest ==
  ASSUME NEW S \in SUBSET Images, S # {}
  PROVE  Greatest(S) \in S /\ \A j \in S : j <= Greatest(S)
<1> DEFINE T == {MaxImages - i : i \in S}
<1>1. MaxImages \in Nat /\ \A i \in S : i \in Nat /\ MaxImages - i \in Nat
  BY RootfsAssumption DEF Images
<1>2. T \in SUBSET Nat /\ T # {}
  BY <1>1
<1>3. PICK i \in S : MaxImages - i = Least(T)
  <2>. HIDE DEF T
  <2>1. Least(T) \in T
    BY <1>2, LeastIsLeast
  <2>. QED BY <2>1 DEF T
<1>4. \A j \in S : Least(T) <= MaxImages - j
  <2>1. \A t \in T : Least(T) <= t
    <3>. HIDE DEF T
    <3>. QED BY <1>2, LeastIsLeast
  <2>. QED BY <2>1
<1>5. \A j \in S : j <= i
  BY <1>1, <1>3, <1>4
<1>. QED BY <1>5 DEF Greatest

-----------------------------------------------------------------------------
(* Locks that are wanted, taken, traded and released.                      *)

\* Whoever only gives locks back leaves the locks exclusive.
LEMMA Releasing ==
  ASSUME Exclusive, \A p \in Procs : held'[p] \subseteq held[p]
  PROVE  Exclusive'
BY DEF Exclusive, L!Holds

\* Whoever takes a lock when nobody is in the way leaves the locks exclusive.
LEMMA Taking ==
  ASSUME TypeOK, Exclusive, NEW p \in Procs,
         NEW l \in 0 .. MaxImages, NEW m \in L!Modes, L!CanTake(p, l, m),
         NEW old, held' = L!Trades(p, old, {<<l, m>>})
  PROVE  Exclusive'
<1>1. /\ held'[p] = (held[p] \ old) \cup {<<l, m>>}
      /\ \A q \in Procs \ {p} : held'[q] = held[q]
  BY DEF TypeOK, ProcsTyped, L!Trades
<1>2. \A q \in Procs \ {p}, n \in L!Modes : L!Holds(q, l, n) => <<m, n>> \in L!Compatible
  BY DEF L!CanTake, L!InTheWay
<1>3. ASSUME NEW q \in Procs \ {p}, NEW k \in 0 .. MaxImages,
             NEW n \in L!Modes, NEW o \in L!Modes,
             L!Holds(p, k, n)', L!Holds(q, k, o)'
      PROVE  <<n, o>> \in L!Compatible
  <2>1. L!Holds(q, k, o) /\ (L!Holds(p, k, n) \/ <<k, n>> = <<l, m>>)
    BY <1>1, <1>3 DEF L!Holds
  <2>2. CASE L!Holds(p, k, n)
    BY <2>1, <2>2 DEF Exclusive
  <2>3. CASE k = l /\ n = m
    BY <2>1, <2>3, <1>2
  <2>. QED BY <2>1, <2>2, <2>3
<1>4. \A n, o \in L!Modes : <<n, o>> \in L!Compatible <=> <<o, n>> \in L!Compatible
  BY DEF L!Compatible
<1>5. ASSUME NEW q \in Procs \ {p}, NEW r \in Procs \ {p}, q # r,
             NEW k \in 0 .. MaxImages, NEW n \in L!Modes, NEW o \in L!Modes,
             L!Holds(q, k, n)', L!Holds(r, k, o)'
      PROVE  <<n, o>> \in L!Compatible
  BY <1>1, <1>5 DEF Exclusive, L!Holds
<1>. QED
  <2>. SUFFICES ASSUME NEW q \in Procs, NEW r \in Procs, q # r,
                       NEW k \in 0 .. MaxImages, NEW n \in L!Modes, NEW o \in L!Modes,
                       L!Holds(q, k, n)', L!Holds(r, k, o)'
                PROVE  <<n, o>> \in L!Compatible
    BY DEF Exclusive
  <2>1. CASE q = p
    BY <2>1, <1>3
  <2>2. CASE r = p
    BY <2>2, <1>3, <1>4
  <2>3. CASE q # p /\ r # p
    BY <2>3, <1>5
  <2>. QED BY <2>1, <2>2, <2>3

\* Whoever has a lock exclusively could take it.
LEMMA OwnersCan ==
  ASSUME Exclusive, NEW p \in Procs, NEW l \in 0 .. MaxImages, L!Holds(p, l, "X")
  PROVE  L!CanTake(p, l, "X")
<1> SUFFICES ASSUME NEW q \in Procs \ {p}, NEW m \in L!Modes, L!Holds(q, l, m) PROVE FALSE
  BY DEF L!CanTake, L!InTheWay
<1>1. <<"X", m>> \in L!Compatible
  BY DEF Exclusive, L!Modes
<1>. QED BY <1>1 DEF L!Compatible

\* A lock that somebody has cannot be taken exclusively by another.
LEMMA NobodyElseCan ==
  ASSUME NEW p \in Procs, NEW q \in Procs, p # q, NEW l, NEW m \in L!Modes, L!Holds(q, l, m)
  PROVE  ~L!CanTake(p, l, "X")
BY DEF L!CanTake, L!InTheWay, L!Compatible

\* Whoever has what it waited for could take each lock.
LEMMA WhatIsGranted ==
  ASSUME NEW p, Granted(p), NEW l, NEW m, <<l, m>> \in Wanted(p)
  PROVE  L!CanTake(p, l, m)
<1> DEFINE w == <<l, m>>
<1>1. w \in Wanted(p) /\ w[1] = l /\ w[2] = m
  OBVIOUS
<1>. HIDE DEF w
<1>2. L!InTheWay(p, w[1], w[2]) \subseteq WaitsFor(p)
  BY <1>1 DEF WaitsFor
<1>. QED BY <1>1, <1>2 DEF Granted, L!CanTake

\* Who waits for the list.
LEMMA WantsList ==
  ASSUME NEW p
  PROVE  /\ pc[p] \in {"find", "clone"} => Wanted(p) = {<<Avail, "S">>}
         /\ pc[p] \in {"list", "unlist", "delist"} => Wanted(p) = {<<Avail, "X">>}
BY DEF Wanted

\* Who waits for an image.
LEMMA WantsImage ==
  ASSUME NEW p
  PROVE  /\ pc[p] \in {"chosen", "reopen"} => Wanted(p) = {<<img[p], "S">>}
         /\ pc[p] = "delete" /\ op[p] # "rmbase" => Wanted(p) = {<<img[p], "X">>}
         /\ pc[p] = "open" => /\ <<img[p], "X">> \in Wanted(p)
                              /\ Wanted(p) \subseteq {<<img[p], "X">>, <<Avail, "S">>}
BY DEF Wanted

\* What the tools wait for.
LEMMA ToolsWant ==
  ASSUME NEW p
  PROVE  /\ pc[p] = "evaluate" /\ todo[p] # {} =>
              Wanted(p) = {<<Least(todo[p]), "S">>, <<Avail, "S">>}
         /\ pc[p] = "evaluate" /\ todo[p] = {} => Wanted(p) = {}
         /\ pc[p] = "pick" /\ todo[p] # {} => Wanted(p) = {<<Greatest(todo[p]), "S+">>}
         /\ pc[p] = "pick" /\ todo[p] = {} => Wanted(p) = {}
         /\ pc[p] = "flatten" => Wanted(p) = {<<c, "S">> : c \in kids[p]}
BY DEF Wanted

\* The others wait for nobody.
LEMMA OthersWantNothing ==
  ASSUME NEW p,
         pc[p] \in {"idle", "commit", "commitempty", "downgrade", "purge", "snap", "protect"}
                     \cup Making \cup Using
  PROVE  Wanted(p) = {}
BY DEF Wanted, Making, Using

-----------------------------------------------------------------------------
(* The error function of find_image has a minimum.                         *)

\* The sets of packages that there are.
LEMMA SomeOfThem == {} \in Some /\ Mixed \in Some /\ Demands \subseteq Some
BY RootfsAssumption, FS_EmptySet DEF Some, Packages

\* Finitely many packages have finitely many names.
LEMMA NamesAreFinite ==
  ASSUME NEW S, IsFiniteSet(S)
  PROVE  IsFiniteSet(Names(S))
<1> DEFINE f == [d \in S |-> d[1]]
<1>1. f \in Surjection(S, Names(S))
  BY DEF Surjection, Names
<1>. HIDE DEF f
<1>. QED BY <1>1, FS_Surjection

\* What is counted are numbers.
LEMMA Counts ==
  ASSUME TypeOK, NEW i \in Images, NEW D \in Some
  PROVE  /\ Cardinality(Missing(i, D)) \in Nat
         /\ Cardinality(Disruptive(i, D)) \in Nat
         /\ Cardinality(Extra(i, D)) \in Nat
<1>1. IsFiniteSet(list[i]) /\ IsFiniteSet(D)
  BY DEF TypeOK, DataTyped, Some
<1>2. IsFiniteSet(Names(list[i])) /\ IsFiniteSet(Names(D))
  BY <1>1, NamesAreFinite
<1>3. IsFiniteSet(Missing(i, D))
  BY <1>2, FS_Difference DEF Missing
<1>4. IsFiniteSet(Extra(i, D))
  BY <1>2, FS_Difference DEF Extra
<1>5. IsFiniteSet(Disruptive(i, D))
  <2>1. Disruptive(i, D) \in SUBSET list[i]
    BY DEF Disruptive
  <2>. QED BY <1>1, <2>1, FS_Subset
<1>. QED BY <1>3, <1>4, <1>5, FS_CardinalityType

\* Among images with numbers there is one with the smallest number.
LEMMA SmallestOf ==
  ASSUME NEW A, A # {}, NEW f, \A i \in A : f[i] \in Nat
  PROVE  \E i \in A : \A j \in A : f[i] <= f[j]
<1> DEFINE N == {f[i] : i \in A}
<1>1. N \in SUBSET Nat /\ N # {}
  OBVIOUS
<1>2. Least(N) \in N /\ \A n \in N : Least(N) <= n
  <2>. HIDE DEF N
  <2>. QED BY <1>1, LeastIsLeast
<1>3. PICK i \in A : f[i] = Least(N)
  BY <1>2
<1>. QED BY <1>2, <1>3

\* find_image takes an image of the list.
LEMMA BestIsListed ==
  ASSUME TypeOK, NEW D \in Some, Candidates(D) # {}
  PROVE  Best(D) \in available
<1> DEFINE C == Candidates(D)
           w == [i \in C |-> Cardinality(Missing(i, D)) + Cardinality(Disruptive(i, D))]
           e == [i \in C |-> Cardinality(Extra(i, D))]
<1>1. Images \subseteq Nat /\ available \subseteq Images /\ C \subseteq available /\ C # {}
  <2>1. Images \subseteq Nat
    BY DEF Images
  <2>2. available \subseteq Images
    BY DEF TypeOK, DataTyped
  <2>3. C \subseteq available
    BY DEF Candidates
  <2>. QED BY <2>1, <2>2, <2>3
<1>2. \A i \in C : w[i] \in Nat /\ e[i] \in Nat
  <2> SUFFICES ASSUME NEW i \in C PROVE w[i] \in Nat /\ e[i] \in Nat
    OBVIOUS
  <2>1. i \in Images
    BY <1>1
  <2>2. /\ w[i] = Cardinality(Missing(i, D)) + Cardinality(Disruptive(i, D))
        /\ e[i] = Cardinality(Extra(i, D))
    OBVIOUS
  <2>. HIDE DEF w, e, C
  <2>. QED BY <2>1, <2>2, Counts
<1>3. \A i, j \in C : Worse(j, i, D) <=>
         \/ w[j] > w[i]
         \/ w[j] = w[i] /\ e[j] > e[i]
         \/ w[j] = w[i] /\ e[j] = e[i] /\ j > i
  BY DEF Worse
<1>. HIDE DEF w, e, C
<1>4. PICK a \in C : \A j \in C : w[a] <= w[j]
  BY <1>1, <1>2, SmallestOf
<1> DEFINE A == {i \in C : w[i] = w[a]}
<1>5. PICK b \in A : \A j \in A : e[b] <= e[j]
  <2>1. A # {} /\ \A i \in A : e[i] \in Nat
    BY <1>2
  <2>. HIDE DEF A
  <2>. QED BY <2>1, SmallestOf
<1> DEFINE B == {i \in A : e[i] = e[b]}
<1>6. B \in SUBSET Nat /\ B # {}
  BY <1>1
<1>7. Least(B) \in B /\ \A j \in B : Least(B) <= j
  <2>. HIDE DEF B
  <2>. QED BY <1>6, LeastIsLeast
<1> DEFINE c == Least(B)
<1>8. c \in C /\ w[c] = w[a] /\ e[c] = e[b] /\ \A j \in B : c <= j
  BY <1>7
<1>. HIDE DEF c
<1>9. \A j \in C \ {c} : Worse(j, c, D)
  <2> SUFFICES ASSUME NEW j \in C, j # c
               PROVE  \/ w[j] > w[c]
                      \/ w[j] = w[c] /\ e[j] > e[c]
                      \/ w[j] = w[c] /\ e[j] = e[c] /\ j > c
    BY <1>3, <1>8
  <2>1. w[j] \in Nat /\ w[c] \in Nat /\ e[j] \in Nat /\ e[c] \in Nat /\ j \in Nat /\ c \in Nat
    BY <1>1, <1>2, <1>8
  <2>2. w[c] <= w[j]
    BY <1>4, <1>8
  <2>3. w[j] = w[c] => e[c] <= e[j]
    BY <1>5, <1>8
  <2>4. w[j] = w[c] /\ e[j] = e[c] => c <= j
    BY <1>8
  <2>. HIDE DEF A, B
  <2>. QED BY <2>1, <2>2, <2>3, <2>4
<1>. QED BY <1>1, <1>8, <1>9 DEF Best, C

-----------------------------------------------------------------------------
(* The types.                                                              *)

\* Locks that are traded for others.
LEMMA TradesTyped ==
  ASSUME TypeOK, NEW p \in Procs, NEW old, NEW new \in SUBSET ((0 .. MaxImages) \X L!Modes),
         Swaps(p, old, new)
  PROVE  held' \in [Procs -> SUBSET ((0 .. MaxImages) \X L!Modes)]
BY DEF TypeOK, ProcsTyped, Swaps, L!Trades

\* Locks that there are.
LEMMA LockTypes ==
  ASSUME TypeOK
  PROVE  /\ \A m \in L!Modes : <<Avail, m>> \in (0 .. MaxImages) \X L!Modes
         /\ \A m \in L!Modes, p \in Procs : <<img[p], m>> \in (0 .. MaxImages) \X L!Modes
         /\ L!Modes = {"S", "S+", "X"} /\ 0 \in 0 .. MaxImages /\ Images \subseteq 0 .. MaxImages
BY RootfsAssumption DEF TypeOK, ProcsTyped, Avail, L!Modes, Images

\* An operation that is over.
LEMMA OverTyped ==
  ASSUME TypeOK, NEW p \in Procs, Over(p)
  PROVE  ProcsTyped'
BY SomeOfThem, RootfsAssumption DEF TypeOK, ProcsTyped, Over, Places

\* A new image.
LEMMA CreatesTyped ==
  ASSUME TypeOK, NEW p \in Procs, NEW D \in Some, NEW of \in 0 .. MaxImages, Creates(p, D, of)
  PROVE  /\ DataTyped' /\ made' \in 0 .. MaxImages
         /\ op' = op /\ todo' = todo /\ kids' = kids /\ want' = want /\ mounted' = mounted
         /\ img' \in [Procs -> 0 .. MaxImages]
         /\ held' \in [Procs -> SUBSET ((0 .. MaxImages) \X L!Modes)]
<1>1. made + 1 \in Images /\ made + 1 \in 0 .. MaxImages
  BY RootfsAssumption DEF TypeOK, Creates, Images
<1>2. DataTyped'
  BY <1>1 DEF TypeOK, DataTyped, Creates, Rows
<1>3. {<<made + 1, "X">>} \in SUBSET ((0 .. MaxImages) \X L!Modes)
  BY <1>1 DEF L!Modes
<1>4. held' \in [Procs -> SUBSET ((0 .. MaxImages) \X L!Modes)]
  BY <1>3, TradesTyped DEF Creates
<1>. QED BY <1>1, <1>2, <1>4 DEF TypeOK, ProcsTyped, Creates

\* The database and the cluster.
LEMMA DataStaysTyped ==
  ASSUME TypeOK, \A p \in Procs : OnCourse(p), [Next]_vars
  PROVE  (DataTyped /\ made \in 0 .. MaxImages)'
<1> USE RootfsAssumption, SomeOfThem DEF TypeOK, DataTyped, Goes, Begins, dbVars, cephVars,
    counters, Rows, Bases
<1>1. ASSUME NEW p \in Procs, Build(p) PROVE (DataTyped /\ made \in 0 .. MaxImages)'
  BY <1>1 DEF Build
<1>2. ASSUME NEW p \in Procs, CreateEmpty(p) PROVE (DataTyped /\ made \in 0 .. MaxImages)'
  <2>1. {} \in Some /\ 0 \in 0 .. MaxImages
    BY SomeOfThem, LockTypes
  <2>2. Creates(p, {}, 0)
    BY <1>2 DEF CreateEmpty
  <2>. QED BY <1>2, <2>1, <2>2, CreatesTyped DEF CreateEmpty
<1>3. ASSUME NEW p \in Procs, Shell(p) PROVE (DataTyped /\ made \in 0 .. MaxImages)'
  BY <1>3 DEF Shell
<1>4. ASSUME NEW p \in Procs, Flatten(p) PROVE (DataTyped /\ made \in 0 .. MaxImages)'
  BY <1>4 DEF Flatten
<1>5. ASSUME NEW p \in Procs, Tool(p) PROVE (DataTyped /\ made \in 0 .. MaxImages)'
  BY <1>5 DEF Tool
<1>6. ASSUME NEW p \in Procs, FindBegins(p) PROVE (DataTyped /\ made \in 0 .. MaxImages)'
  BY <1>6 DEF FindBegins
<1>7. ASSUME NEW p \in Procs, FindsNone(p) PROVE (DataTyped /\ made \in 0 .. MaxImages)'
  BY <1>7 DEF FindsNone
<1>8. ASSUME NEW p \in Procs, FindEnds(p) PROVE (DataTyped /\ made \in 0 .. MaxImages)'
  BY <1>8 DEF FindEnds
<1>9. ASSUME NEW p \in Procs, NoSuchImage(p) PROVE (DataTyped /\ made \in 0 .. MaxImages)'
  BY <1>9 DEF NoSuchImage
<1>10. ASSUME NEW p \in Procs, CloneCreates(p) PROVE (DataTyped /\ made \in 0 .. MaxImages)'
  <2>1. list[img[p]] \in Some /\ img[p] \in 0 .. MaxImages
    BY <1>10 DEF CloneCreates, Cloneable, TypeOK, DataTyped, ProcsTyped
  <2>2. Creates(p, list[img[p]], img[p])
    BY <1>10 DEF CloneCreates
  <2>. QED BY <1>10, <2>1, <2>2, CreatesTyped DEF CloneCreates
<1>11. ASSUME NEW p \in Procs, CloneFails(p) PROVE (DataTyped /\ made \in 0 .. MaxImages)'
  BY <1>11 DEF CloneFails
<1>12. ASSUME NEW p \in Procs, CloneCommits(p) PROVE (DataTyped /\ made \in 0 .. MaxImages)'
  BY <1>12 DEF CloneCommits
<1>13. ASSUME NEW p \in Procs, CreateCommits(p) PROVE (DataTyped /\ made \in 0 .. MaxImages)'
  BY <1>13 DEF CreateCommits
<1>14. ASSUME NEW p \in Procs, Installs(p) PROVE (DataTyped /\ made \in 0 .. MaxImages)'
  <2>1. /\ parent' = [parent EXCEPT ![img[p]] = IF content[img[p]] = {} THEN 0 ELSE @]
        /\ content' = [content EXCEPT ![img[p]] = Mixed]
        /\ UNCHANGED <<dbVars, rbd, base, counters>>
    BY <1>14 DEF Installs
  <2>2. parent' \in [Images -> 0 .. MaxImages]
    BY <2>1, LockTypes
  <2>3. content' \in [Images -> Some]
    BY <2>1
  <2>. QED BY <2>1, <2>2, <2>3
<1>15. ASSUME NEW p \in Procs, Adapts(p) PROVE (DataTyped /\ made \in 0 .. MaxImages)'
  <2>1. want[p] \in Some
    BY DEF ProcsTyped
  <2>. QED BY <1>15, <2>1 DEF Adapts
<1>16. ASSUME NEW p \in Procs, SnapCreate(p) PROVE (DataTyped /\ made \in 0 .. MaxImages)'
  BY <1>16 DEF SnapCreate
<1>17. ASSUME NEW p \in Procs, HasSnap(p) PROVE (DataTyped /\ made \in 0 .. MaxImages)'
  BY <1>17 DEF HasSnap
<1>18. ASSUME NEW p \in Procs, SnapProtect(p) PROVE (DataTyped /\ made \in 0 .. MaxImages)'
  BY <1>18 DEF SnapProtect
<1>19. ASSUME NEW p \in Procs, Lists(p) PROVE (DataTyped /\ made \in 0 .. MaxImages)'
  <2>1. img[p] \in Images
    <3>1. img[p] # 0
      BY <1>19 DEF Lists, OnCourse, Publishing
    <3>. QED BY <3>1 DEF ProcsTyped, Images
  <2>. QED BY <1>19, <2>1 DEF Lists
<1>20. ASSUME NEW p \in Procs, Downgrades(p) PROVE (DataTyped /\ made \in 0 .. MaxImages)'
  BY <1>20 DEF Downgrades
<1>21. ASSUME NEW p \in Procs, Reopens(p) PROVE (DataTyped /\ made \in 0 .. MaxImages)'
  BY <1>21 DEF Reopens
<1>22. ASSUME NEW p \in Procs, Mounts(p) PROVE (DataTyped /\ made \in 0 .. MaxImages)'
  BY <1>22 DEF Mounts
<1>23. ASSUME NEW p \in Procs, Built(p) PROVE (DataTyped /\ made \in 0 .. MaxImages)'
  BY <1>23 DEF Built
<1>24. ASSUME NEW p \in Procs, Opens(p) PROVE (DataTyped /\ made \in 0 .. MaxImages)'
  BY <1>24 DEF Opens
<1>25. ASSUME NEW p \in Procs, Refrains(p) PROVE (DataTyped /\ made \in 0 .. MaxImages)'
  BY <1>25 DEF Refrains
<1>26. ASSUME NEW p \in Procs, Unlists(p) PROVE (DataTyped /\ made \in 0 .. MaxImages)'
  BY <1>26 DEF Unlists
<1>27. ASSUME NEW p \in Procs, SetComment(p) PROVE (DataTyped /\ made \in 0 .. MaxImages)'
  BY <1>27 DEF SetComment
<1>28. ASSUME NEW p \in Procs, RemoveRoBase(p) PROVE (DataTyped /\ made \in 0 .. MaxImages)'
  <2>1. /\ base' = base \/ \E left \in {"plain", "none"} : base' = [base EXCEPT ![img[p]] = left]
        /\ UNCHANGED <<row, list, available, rbd, parent, content, made>>
    BY <1>28 DEF RemoveRoBase
  <2>2. base' \in [Images -> Bases]
    BY <2>1 DEF Bases
  <2>. QED BY <2>1, <2>2
<1>29. ASSUME NEW p \in Procs, Delists(p) PROVE (DataTyped /\ made \in 0 .. MaxImages)'
  BY <1>29 DEF Delists
<1>30. ASSUME NEW p \in Procs, DeleteRow(p) PROVE (DataTyped /\ made \in 0 .. MaxImages)'
  BY <1>30 DEF DeleteRow
<1>31. ASSUME NEW p \in Procs, StillListed(p) PROVE (DataTyped /\ made \in 0 .. MaxImages)'
  BY <1>31 DEF StillListed
<1>32. ASSUME NEW p \in Procs, Purges(p) PROVE (DataTyped /\ made \in 0 .. MaxImages)'
  <2>1. CASE UNCHANGED cephVars
    BY <1>32, <2>1 DEF Purges
  <2>2. CASE ~UNCHANGED cephVars
    <3>1. /\ rbd' = rbd \ {img[p]} /\ base' = [base EXCEPT ![img[p]] = "none"]
          /\ parent' = [parent EXCEPT ![img[p]] = 0] /\ content' = [content EXCEPT ![img[p]] = {}]
          /\ UNCHANGED <<dbVars, counters>>
      BY <1>32, <2>2 DEF Purges
    <3>2. parent' \in [Images -> 0 .. MaxImages] /\ content' \in [Images -> Some]
      BY <3>1, LockTypes
    <3>. QED BY <3>1, <3>2
  <2>. QED BY <2>1, <2>2
<1>33. ASSUME NEW p \in Procs, Evaluates(p) PROVE (DataTyped /\ made \in 0 .. MaxImages)'
  BY <1>33 DEF Evaluates
<1>34. ASSUME NEW p \in Procs, Evaluated(p) PROVE (DataTyped /\ made \in 0 .. MaxImages)'
  BY <1>34 DEF Evaluated
<1>35. ASSUME NEW p \in Procs, Picks(p) PROVE (DataTyped /\ made \in 0 .. MaxImages)'
  BY <1>35 DEF Picks
<1>36. ASSUME NEW p \in Procs, AllDeleted(p) PROVE (DataTyped /\ made \in 0 .. MaxImages)'
  BY <1>36 DEF AllDeleted
<1>37. ASSUME NEW p \in Procs, FlattenChild(p) PROVE (DataTyped /\ made \in 0 .. MaxImages)'
  <2>1. PICK c \in kids[p] : parent' = [parent EXCEPT ![c] = 0]
    BY <1>37 DEF FlattenChild
  <2>2. parent' \in [Images -> 0 .. MaxImages]
    BY <2>1, LockTypes
  <2>. QED BY <1>37, <2>2 DEF FlattenChild
<1>41. ASSUME NEW p \in Procs, FlattenRaises(p) PROVE (DataTyped /\ made \in 0 .. MaxImages)'
  BY <1>41 DEF FlattenRaises
<1>38. ASSUME NEW p \in Procs, Flattened(p) PROVE (DataTyped /\ made \in 0 .. MaxImages)'
  BY <1>38 DEF Flattened
<1>39. ASSUME NEW p \in Procs, Fails(p) PROVE (DataTyped /\ made \in 0 .. MaxImages)'
  <2>1. DataTyped' \/ UNCHANGED <<dbVars, cephVars>>
    <3>. SUFFICES ASSUME ~UNCHANGED <<dbVars, cephVars>> PROVE DataTyped'
      OBVIOUS
    <3>1. /\ row' = [row EXCEPT ![img[p]] = "none"] /\ list' = [list EXCEPT ![img[p]] = {}]
          /\ rbd' \in {rbd, rbd \ {img[p]}}
          /\ parent' = [parent EXCEPT ![img[p]] = IF img[p] \in rbd' THEN @ ELSE 0]
          /\ available' = available /\ base' = base /\ content' = content
      BY <1>39 DEF Fails
    <3>2. row' \in [Images -> Rows] /\ list' \in [Images -> Some] /\ rbd' \subseteq Images
      BY <3>1
    <3>3. parent' \in [Images -> 0 .. MaxImages]
      BY <3>1, LockTypes
    <3>. QED BY <3>1, <3>2, <3>3
  <2>2. made' = made
    BY <1>39 DEF Fails
  <2>. QED BY <2>1, <2>2
<1>40. CASE UNCHANGED vars
  BY <1>40 DEF vars
<1>. QED
  BY <1>1, <1>2, <1>3, <1>4, <1>5, <1>6, <1>7, <1>8, <1>9, <1>10, <1>11, <1>12, <1>13,
     <1>14, <1>15, <1>16, <1>17, <1>18, <1>19, <1>20, <1>21, <1>22, <1>23, <1>24, <1>25,
     <1>26, <1>27, <1>28, <1>29, <1>30, <1>31, <1>32, <1>33, <1>34, <1>35, <1>36, <1>37,
     <1>38, <1>39, <1>40, <1>41
     DEF Next, Starts, Continues

\* The processes and their locks.
LEMMA ProcsStayTyped ==
  ASSUME TypeOK, \A p \in Procs : OnCourse(p), [Next]_vars
  PROVE  ProcsTyped'
<1> USE DEF TypeOK, ProcsTyped, Goes, Begins, dbVars, cephVars, procVars, counters, Places, Tools,
    Making, Publishing, Using
<1>1. ASSUME NEW p \in Procs, Build(p) PROVE ProcsTyped'
  <2>1. PICK D \in Demands : want' = [want EXCEPT ![p] = D]
    BY <1>1 DEF Build
  <2>. QED BY <1>1, <2>1, SomeOfThem DEF Build
<1>2. ASSUME NEW p \in Procs, CreateEmpty(p) PROVE ProcsTyped'
  <2>1. {} \in Some /\ 0 \in 0 .. MaxImages
    BY SomeOfThem, LockTypes
  <2>2. Creates(p, {}, 0)
    BY <1>2 DEF CreateEmpty
  <2>. QED BY <1>2, <2>1, <2>2, CreatesTyped DEF CreateEmpty, TypeOK, ProcsTyped, Places
<1>3. ASSUME NEW p \in Procs, Shell(p) PROVE ProcsTyped'
  <2>1. PICK i \in 1 .. made : img' = [img EXCEPT ![p] = i]
    BY <1>3 DEF Shell
  <2>2. i \in 0 .. MaxImages
    BY <2>1, RootfsAssumption
  <2>3. PICK what \in Commands \cup {"delete"}, there \in {"open", "delist"} :
          Begins(p, what, there)
    BY <1>3 DEF Shell, Commands
  <2>4. op' \in [Procs -> {"idle", "build", "delete"} \cup Commands \cup Tools]
    BY <2>3
  <2>5. pc' \in [Procs -> Places] /\ mounted' = mounted
    BY <2>3
  <2>. QED BY <1>3, <2>1, <2>2, <2>4, <2>5 DEF Shell
<1>4. ASSUME NEW p \in Procs, Flatten(p) PROVE ProcsTyped'
  BY <1>4 DEF Flatten
<1>5. ASSUME NEW p \in Procs, Tool(p) PROVE ProcsTyped'
  BY <1>5 DEF Tool
<1>6. ASSUME NEW p \in Procs, FindBegins(p) PROVE ProcsTyped'
  <2>1. {<<Avail, "S">>} \in SUBSET ((0 .. MaxImages) \X L!Modes)
    BY LockTypes
  <2>2. held' \in [Procs -> SUBSET ((0 .. MaxImages) \X L!Modes)]
    BY <1>6, <2>1, TradesTyped DEF FindBegins
  <2>3. Best(want[p]) \in available
    BY <1>6, BestIsListed DEF FindBegins, TypeOK, ProcsTyped
  <2>4. Best(want[p]) \in 0 .. MaxImages
    BY <2>3, LockTypes DEF TypeOK, DataTyped
  <2>. QED BY <1>6, <2>2, <2>4 DEF FindBegins
<1>7. ASSUME NEW p \in Procs, FindsNone(p) PROVE ProcsTyped'
  BY <1>7, OverTyped DEF FindsNone
<1>8. ASSUME NEW p \in Procs, FindEnds(p) PROVE ProcsTyped'
  <2>1. {<<img[p], "S">>} \in SUBSET ((0 .. MaxImages) \X L!Modes)
    BY LockTypes
  <2>2. held' \in [Procs -> SUBSET ((0 .. MaxImages) \X L!Modes)]
    BY <1>8, <2>1, TradesTyped DEF FindEnds
  <2>. QED BY <1>8, <2>2 DEF FindEnds
<1>9. ASSUME NEW p \in Procs, NoSuchImage(p) PROVE ProcsTyped'
  BY <1>9, OverTyped DEF NoSuchImage
<1>10. ASSUME NEW p \in Procs, CloneCreates(p) PROVE ProcsTyped'
  <2>1. list[img[p]] \in Some /\ img[p] \in 0 .. MaxImages
    BY <1>10 DEF CloneCreates, Cloneable, TypeOK, DataTyped, ProcsTyped
  <2>2. Creates(p, list[img[p]], img[p])
    BY <1>10 DEF CloneCreates
  <2>. QED BY <1>10, <2>1, <2>2, CreatesTyped DEF CloneCreates, Goes, TypeOK, ProcsTyped, Places
<1>11. ASSUME NEW p \in Procs, CloneFails(p) PROVE ProcsTyped'
  BY <1>11, OverTyped DEF CloneFails
<1>12. ASSUME NEW p \in Procs, CloneCommits(p) PROVE ProcsTyped'
  <2>1. {<<img[p], "X">>} \in SUBSET ((0 .. MaxImages) \X L!Modes)
    BY LockTypes
  <2>2. held' \in [Procs -> SUBSET ((0 .. MaxImages) \X L!Modes)]
    BY <1>12, <2>1 DEF CloneCommits
  <2>. QED BY <1>12, <2>2 DEF CloneCommits
<1>13. ASSUME NEW p \in Procs, CreateCommits(p) PROVE ProcsTyped'
  BY <1>13, OverTyped DEF CreateCommits
<1>14. ASSUME NEW p \in Procs, Installs(p) PROVE ProcsTyped'
  BY <1>14 DEF Installs
<1>15. ASSUME NEW p \in Procs, Adapts(p) PROVE ProcsTyped'
  BY <1>15 DEF Adapts
<1>16. ASSUME NEW p \in Procs, SnapCreate(p) PROVE ProcsTyped'
  BY <1>16 DEF SnapCreate
<1>17. ASSUME NEW p \in Procs, HasSnap(p) PROVE ProcsTyped'
  BY <1>17 DEF HasSnap
<1>18. ASSUME NEW p \in Procs, SnapProtect(p) PROVE ProcsTyped'
  BY <1>18 DEF SnapProtect
<1>19. ASSUME NEW p \in Procs, Lists(p) PROVE ProcsTyped'
  <2>1. CASE Over(p)
    BY <2>1, OverTyped
  <2>2. CASE Goes(p, "list", "downgrade") /\ UNCHANGED <<procVars, held>>
    BY <2>2
  <2>. QED BY <1>19, <2>1, <2>2 DEF Lists
<1>20. ASSUME NEW p \in Procs, Downgrades(p) PROVE ProcsTyped'
  <2>1. {<<img[p], "S+">>} \in SUBSET ((0 .. MaxImages) \X L!Modes)
    BY LockTypes
  <2>2. held' \in [Procs -> SUBSET ((0 .. MaxImages) \X L!Modes)]
    BY <1>20, <2>1, TradesTyped DEF Downgrades
  <2>. QED BY <1>20, <2>2 DEF Downgrades
<1>21. ASSUME NEW p \in Procs, Reopens(p) PROVE ProcsTyped'
  <2>1. {<<img[p], "S">>} \in SUBSET ((0 .. MaxImages) \X L!Modes)
    BY LockTypes
  <2>2. held' \in [Procs -> SUBSET ((0 .. MaxImages) \X L!Modes)]
    BY <1>21, <2>1, TradesTyped DEF Reopens
  <2>. QED BY <1>21, <2>2 DEF Reopens
<1>22. ASSUME NEW p \in Procs, Mounts(p) PROVE ProcsTyped'
  BY <1>22 DEF Mounts
<1>23. ASSUME NEW p \in Procs, Built(p) PROVE ProcsTyped'
  BY <1>23, OverTyped DEF Built
<1>24. ASSUME NEW p \in Procs, Opens(p) PROVE ProcsTyped'
  <2>1. {<<img[p], "X">>} \in SUBSET ((0 .. MaxImages) \X L!Modes)
    BY LockTypes
  <2>2. held' \in [Procs -> SUBSET ((0 .. MaxImages) \X L!Modes)]
    BY <1>24, <2>1, TradesTyped DEF Opens
  <2>. QED BY <1>24, <2>2 DEF Opens
<1>25. ASSUME NEW p \in Procs, Refrains(p) PROVE ProcsTyped'
  BY <1>25, OverTyped DEF Refrains
<1>26. ASSUME NEW p \in Procs, Unlists(p) PROVE ProcsTyped'
  BY <1>26, OverTyped DEF Unlists
<1>27. ASSUME NEW p \in Procs, SetComment(p) PROVE ProcsTyped'
  BY <1>27, OverTyped DEF SetComment
<1>28. ASSUME NEW p \in Procs, RemoveRoBase(p) PROVE ProcsTyped'
  BY <1>28, OverTyped DEF RemoveRoBase
<1>29. ASSUME NEW p \in Procs, Delists(p) PROVE ProcsTyped'
  BY <1>29 DEF Delists
<1>30. ASSUME NEW p \in Procs, DeleteRow(p) PROVE ProcsTyped'
  <2>1. {<<img[p], "X">>} \in SUBSET ((0 .. MaxImages) \X L!Modes)
    BY LockTypes
  <2>2. held' \in [Procs -> SUBSET ((0 .. MaxImages) \X L!Modes)]
    BY <1>30, <2>1, TradesTyped DEF DeleteRow
  <2>. QED BY <1>30, <2>2 DEF DeleteRow
<1>31. ASSUME NEW p \in Procs, StillListed(p) PROVE ProcsTyped'
  BY <1>31, OverTyped DEF StillListed
<1>32. ASSUME NEW p \in Procs, Purges(p) PROVE ProcsTyped'
  <2>1. CASE Over(p)
    BY <2>1, OverTyped
  <2>2. CASE /\ Goes(p, "purge", "pick")
             /\ Swaps(p, {<<img[p], "X">>, <<img[p], "S+">>}, {}) /\ UNCHANGED procVars
    <3>1. held' \in [Procs -> SUBSET ((0 .. MaxImages) \X L!Modes)]
      BY <2>2, TradesTyped
    <3>. QED BY <2>2, <3>1
  <2>. QED BY <1>32, <2>1, <2>2 DEF Purges
<1>33. ASSUME NEW p \in Procs, Evaluates(p) PROVE ProcsTyped'
  <2> DEFINE i == Least(todo[p])
  <2>1. todo[p] \subseteq Images /\ todo[p] # {}
    BY <1>33 DEF Evaluates
  <2>2. todo[p] \in SUBSET Nat
    BY <2>1 DEF Images
  <2>3. i \in Images
    BY <2>1, <2>2, LeastIsLeast
  <2>4. pc' = pc /\ op' = op /\ kids' = kids /\ want' = want
        /\ mounted' = mounted /\ todo' = [todo EXCEPT ![p] = @ \ {i}]
    BY <1>33 DEF Evaluates
  <2>5. \/ img' = img /\ held' = held
        \/ /\ img' = [img EXCEPT ![p] = IF Qualifies(p, i) THEN 0 ELSE i]
           /\ Swaps(p, {<<img[p], "S">>}, {<<i, "S">>})
    BY <1>33 DEF Evaluates
  <2>6. {<<i, "S">>} \in SUBSET ((0 .. MaxImages) \X L!Modes) /\ i \in 0 .. MaxImages
        /\ 0 \in 0 .. MaxImages
    BY <2>3, LockTypes
  <2>. HIDE DEF i
  <2>7. held' \in [Procs -> SUBSET ((0 .. MaxImages) \X L!Modes)]
    BY <2>5, <2>6, TradesTyped
  <2>8. todo' \in [Procs -> SUBSET Images] /\ img' \in [Procs -> 0 .. MaxImages]
    BY <2>4, <2>5, <2>6
  <2>. QED BY <2>4, <2>7, <2>8
<1>34. ASSUME NEW p \in Procs, Evaluated(p) PROVE ProcsTyped'
  BY <1>34 DEF Evaluated
<1>35. ASSUME NEW p \in Procs, Picks(p) PROVE ProcsTyped'
  <2> DEFINE i == Greatest(todo[p])
  <2>1. i \in Images
    <3>1. todo[p] \in SUBSET Images /\ todo[p] # {}
      BY <1>35 DEF Picks
    <3>. QED BY <3>1, GreatestIsGreatest
  <2>2. /\ pc' = [pc EXCEPT ![p] = "flatten"] /\ img' = [img EXCEPT ![p] = i]
        /\ kids' = [kids EXCEPT ![p] = Children(i)] /\ Swaps(p, {}, {<<i, "S+">>})
        /\ todo' = [todo EXCEPT ![p] = @ \ {i}]
        /\ op' = op /\ want' = want /\ mounted' = mounted
    BY <1>35 DEF Picks
  <2>3. Children(i) \subseteq Images
    BY DEF Children, DataTyped
  <2>4. {<<i, "S+">>} \in SUBSET ((0 .. MaxImages) \X L!Modes) /\ i \in 0 .. MaxImages
    BY <2>1, LockTypes
  <2>. HIDE DEF i
  <2>5. held' \in [Procs -> SUBSET ((0 .. MaxImages) \X L!Modes)]
    BY <2>2, <2>4, TradesTyped
  <2>. QED BY <2>2, <2>3, <2>4, <2>5
<1>36. ASSUME NEW p \in Procs, AllDeleted(p) PROVE ProcsTyped'
  BY <1>36, OverTyped DEF AllDeleted
<1>37. ASSUME NEW p \in Procs, FlattenChild(p) PROVE ProcsTyped'
  <2>1. /\ \E c \in kids[p] : kids' = [kids EXCEPT ![p] = @ \ {c}]
        /\ UNCHANGED <<pc, op, img, todo, want, mounted, held>>
    BY <1>37 DEF FlattenChild
  <2>2. kids' \in [Procs -> SUBSET Images]
    BY <2>1
  <2>. QED BY <2>1, <2>2
<1>41. ASSUME NEW p \in Procs, FlattenRaises(p) PROVE ProcsTyped'
  BY <1>41, OverTyped DEF FlattenRaises
<1>38. ASSUME NEW p \in Procs, Flattened(p) PROVE ProcsTyped'
  <2>1. {} \in SUBSET ((0 .. MaxImages) \X L!Modes)
    BY LockTypes
  <2>2. held' \in [Procs -> SUBSET ((0 .. MaxImages) \X L!Modes)]
    BY <1>38, <2>1, TradesTyped DEF Flattened
  <2>. QED BY <1>38, <2>2 DEF Flattened
<1>39. ASSUME NEW p \in Procs, Fails(p) PROVE ProcsTyped'
  BY <1>39, OverTyped DEF Fails
<1>40. CASE UNCHANGED vars
  BY <1>40 DEF vars
<1>. QED
  BY <1>1, <1>2, <1>3, <1>4, <1>5, <1>6, <1>7, <1>8, <1>9, <1>10, <1>11, <1>12, <1>13,
     <1>14, <1>15, <1>16, <1>17, <1>18, <1>19, <1>20, <1>21, <1>22, <1>23, <1>24, <1>25,
     <1>26, <1>27, <1>28, <1>29, <1>30, <1>31, <1>32, <1>33, <1>34, <1>35, <1>36, <1>37,
     <1>38, <1>39, <1>40, <1>41
     DEF Next, Starts, Continues

\* The types, altogether.
LEMMA Typed ==
  ASSUME TypeOK, \A p \in Procs : OnCourse(p), [Next]_vars
  PROVE  TypeOK'
BY DataStaysTyped, ProcsStayTyped DEF TypeOK

-----------------------------------------------------------------------------
(* What a step changes.                                                    *)

\* Operations that come to an end without having changed an image.
Quits(p) ==
  \/ FindsNone(p) \/ NoSuchImage(p) \/ CloneFails(p) \/ Built(p) \/ Refrains(p)
  \/ SetComment(p) \/ StillListed(p) \/ AllDeleted(p) \/ FlattenRaises(p)

Closed(p) == Over(p) /\ UNCHANGED <<row, list, available, rbd, base, content, made>>

\* Quitting leaves all images as they were.
LEMMA Quitting ==
  ASSUME NEW p, Quits(p)
  PROVE  Closed(p)
BY DEF Quits, Closed, FindsNone, NoSuchImage, CloneFails, Built, Refrains, SetComment,
       StillListed, AllDeleted, FlattenRaises, dbVars, cephVars, counters

\* The others are where they were.
Alone(p) ==
  \A q \in Procs \ {p} : /\ pc'[q] = pc[q] /\ op'[q] = op[q] /\ img'[q] = img[q]
                         /\ want'[q] = want[q] /\ held'[q] = held[q] /\ todo'[q] = todo[q]

Usable(i) == row[i] = "there" /\ i \in rbd /\ base[i] # "none" /\ content[i] = list[i]

\* An image that stays as it was, or is taken off the list.
Same(i) ==
  /\ row'[i] = row[i] /\ list'[i] = list[i] /\ content'[i] = content[i] /\ base'[i] = base[i]
  /\ i \in rbd => i \in rbd'
  /\ i \in available' => i \in available

\* Who changes an image could have locked it exclusively, and lists it only if it is usable.
Careful(p) ==
  /\ \A i \in Images : Same(i) \/ (L!CanTake(p, i, "X") /\ (i \in available' => Usable(i)'))
  /\ available' = available \/ L!CanTake(p, Avail, "X")


\* A step changes only what the process itself is and has.
LEMMA StepsAlone ==
  ASSUME IInv, NEW p \in Procs, Starts(p) \/ Continues(p) \/ Fails(p)
  PROVE  Alone(p)
<1> USE DEF IInv, TypeOK, ProcsTyped, Alone, Over, Goes, Begins, procVars, Swaps, L!Trades, Creates
<1>1. CASE Build(p)
  BY <1>1 DEF Build
<1>2. CASE CreateEmpty(p)
  BY <1>2 DEF CreateEmpty
<1>3. CASE Shell(p)
  BY <1>3 DEF Shell
<1>4. CASE Flatten(p)
  BY <1>4 DEF Flatten
<1>5. CASE Tool(p)
  BY <1>5 DEF Tool
<1>6. CASE FindBegins(p)
  BY <1>6 DEF FindBegins
<1>7. CASE FindEnds(p)
  BY <1>7 DEF FindEnds
<1>8. CASE CloneCreates(p)
  BY <1>8 DEF CloneCreates
<1>9. CASE CloneCommits(p)
  BY <1>9 DEF CloneCommits
<1>10. CASE CreateCommits(p)
  BY <1>10 DEF CreateCommits
<1>11. CASE Installs(p)
  BY <1>11 DEF Installs
<1>12. CASE Adapts(p)
  BY <1>12 DEF Adapts
<1>13. CASE SnapCreate(p)
  BY <1>13 DEF SnapCreate
<1>14. CASE HasSnap(p)
  BY <1>14 DEF HasSnap
<1>15. CASE SnapProtect(p)
  BY <1>15 DEF SnapProtect
<1>16. CASE Lists(p)
  BY <1>16 DEF Lists
<1>17. CASE Downgrades(p)
  BY <1>17 DEF Downgrades
<1>18. CASE Reopens(p)
  BY <1>18 DEF Reopens
<1>19. CASE Mounts(p)
  BY <1>19 DEF Mounts
<1>20. CASE Opens(p)
  BY <1>20 DEF Opens
<1>21. CASE Unlists(p)
  BY <1>21 DEF Unlists
<1>22. CASE RemoveRoBase(p)
  BY <1>22 DEF RemoveRoBase
<1>23. CASE Delists(p)
  BY <1>23 DEF Delists
<1>24. CASE DeleteRow(p)
  BY <1>24 DEF DeleteRow
<1>25. CASE Purges(p)
  BY <1>25 DEF Purges
<1>26. CASE Evaluates(p)
  BY <1>26 DEF Evaluates
<1>27. CASE Evaluated(p)
  BY <1>27 DEF Evaluated
<1>28. CASE Picks(p)
  BY <1>28 DEF Picks
<1>29. CASE FlattenChild(p)
  BY <1>29 DEF FlattenChild
<1>30. CASE Flattened(p)
  BY <1>30 DEF Flattened
<1>31. CASE Fails(p)
  BY <1>31 DEF Fails
<1>32. CASE Quits(p)
  BY <1>32, Quitting DEF Closed
<1>. QED
  BY <1>1, <1>2, <1>3, <1>4, <1>5, <1>6, <1>7, <1>8, <1>9, <1>10, <1>11, <1>12, <1>13,
     <1>14, <1>15, <1>16, <1>17, <1>18, <1>19, <1>20, <1>21, <1>22, <1>23, <1>24, <1>25,
     <1>26, <1>27, <1>28, <1>29, <1>30, <1>31, <1>32
     DEF Starts, Continues, Quits

\* Whoever works on an image could lock it exclusively.
LEMMA WritersCan ==
  ASSUME IInv, NEW p \in Procs,
         pc[p] \in {"commit", "commitempty", "unlist", "purge"} \cup Making \cup Publishing
  PROVE  L!CanTake(p, img[p], "X")
<1>1. L!Holds(p, img[p], "X")
  BY DEF IInv, Local, Locked, Mine, L!Holds
<1>2. img[p] \in 0 .. MaxImages
  BY DEF IInv, TypeOK, ProcsTyped
<1>. QED BY <1>1, <1>2, OwnersCan DEF IInv

\* Nobody is in the way of a lock on an image that has not been made.
LEMMA NewIsFree ==
  ASSUME IInv, NEW p \in Procs, NEW l \in 0 .. MaxImages, l > made
  PROVE  L!CanTake(p, l, "X")
<1>1. \A q \in Procs, m \in L!Modes : ~L!Holds(q, l, m)
  BY DEF IInv, TypeOK, Unmade
<1>. QED BY <1>1 DEF L!CanTake, L!InTheWay

\* A new image is nobody else's.
LEMMA CreatingIsCareful ==
  ASSUME IInv, NEW p \in Procs, NEW D, NEW of, Creates(p, D, of)
  PROVE  Careful(p)
<1> DEFINE id == made + 1
<1>1. id \in Images /\ id \in 0 .. MaxImages /\ id > made
  BY RootfsAssumption DEF IInv, TypeOK, Creates, Images
<1>2. L!CanTake(p, id, "X")
  BY <1>1, NewIsFree
<1>3. id \notin available
  BY <1>1 DEF IInv, TypeOK, Unmade
<1>4. /\ row' = [row EXCEPT ![id] = "pending"] /\ list' = [list EXCEPT ![id] = D]
      /\ content' = [content EXCEPT ![id] = D] /\ base' = base
      /\ rbd' = rbd \cup {id} /\ available' = available
  BY DEF Creates
<1>. HIDE DEF id
<1>5. \A i \in Images \ {id} : Same(i)
  BY <1>4 DEF Same, IInv, TypeOK, DataTyped
<1>. QED BY <1>2, <1>3, <1>4, <1>5 DEF Careful

\* One image is changed, by somebody who could lock it, and it is not listed afterwards.
LEMMA OneIsChanged ==
  ASSUME NEW p, NEW j, L!CanTake(p, j, "X"), \A i \in Images \ {j} : Same(i),
         j \in available' => Usable(j)', available' = available \/ L!CanTake(p, Avail, "X")
  PROVE  Careful(p)
BY DEF Careful

\* Every step is careful.
LEMMA StepsAreCareful ==
  ASSUME IInv, NEW p \in Procs, Starts(p) \/ Continues(p) \/ Fails(p)
  PROVE  Careful(p)
<1> USE DEF IInv, TypeOK, DataTyped, Over, Goes, Begins, dbVars, cephVars
<1>1. CASE Build(p)
  BY <1>1 DEF Build, Careful, Same
<1>2. CASE CreateEmpty(p)
  BY <1>2, CreatingIsCareful DEF CreateEmpty
<1>3. CASE Shell(p)
  BY <1>3 DEF Shell, Careful, Same
<1>4. CASE Flatten(p)
  BY <1>4 DEF Flatten, Careful, Same
<1>5. CASE Tool(p)
  BY <1>5 DEF Tool, Careful, Same
<1>6. CASE FindBegins(p)
  BY <1>6 DEF FindBegins, Careful, Same
<1>7. CASE FindEnds(p)
  BY <1>7 DEF FindEnds, Careful, Same
<1>8. CASE CloneCreates(p)
  BY <1>8, CreatingIsCareful DEF CloneCreates
<1>9. CASE CloneCommits(p)
  <2>1. L!CanTake(p, img[p], "X")
    BY <1>9, WritersCan DEF CloneCommits, Goes, Making, Publishing
  <2>2. \A i \in Images \ {img[p]} : Same(i)
    BY <1>9 DEF CloneCommits, Same
  <2>3. img[p] \notin available'
    BY <1>9, <2>1 DEF CloneCommits, IInv, Local, Sees, Making, Publishing
  <2>4. available' = available
    BY <1>9 DEF CloneCommits
  <2>. QED BY <2>1, <2>2, <2>3, <2>4, OneIsChanged
<1>10. CASE CreateCommits(p)
  <2>1. L!CanTake(p, img[p], "X")
    BY <1>10, WritersCan DEF CreateCommits, Goes, Making, Publishing
  <2>2. \A i \in Images \ {img[p]} : Same(i)
    BY <1>10 DEF CreateCommits, Same
  <2>3. img[p] \notin available'
    BY <1>10, <2>1 DEF CreateCommits, IInv, Local, Sees, Making, Publishing
  <2>4. available' = available
    BY <1>10 DEF CreateCommits
  <2>. QED BY <2>1, <2>2, <2>3, <2>4, OneIsChanged
<1>11. CASE Installs(p)
  <2>1. L!CanTake(p, img[p], "X")
    BY <1>11, WritersCan DEF Installs, Goes, Making, Publishing
  <2>2. \A i \in Images \ {img[p]} : Same(i)
    BY <1>11 DEF Installs, Same
  <2>3. img[p] \notin available'
    BY <1>11, <2>1 DEF Installs, IInv, Local, Sees, Making, Publishing
  <2>4. available' = available
    BY <1>11 DEF Installs
  <2>. QED BY <2>1, <2>2, <2>3, <2>4, OneIsChanged
<1>12. CASE Adapts(p)
  <2>1. L!CanTake(p, img[p], "X")
    BY <1>12, WritersCan DEF Adapts, Goes, Making, Publishing
  <2>2. \A i \in Images \ {img[p]} : Same(i)
    BY <1>12 DEF Adapts, Same
  <2>3. img[p] \notin available'
    BY <1>12, <2>1 DEF Adapts, IInv, Local, Sees, Making, Publishing
  <2>4. available' = available
    BY <1>12 DEF Adapts
  <2>. QED BY <2>1, <2>2, <2>3, <2>4, OneIsChanged
<1>13. CASE SnapCreate(p)
  <2>1. PICK j \in 0 .. MaxImages : j = img[p]
    BY DEF ProcsTyped
  <2>2. L!CanTake(p, j, "X")
    BY <1>13, <2>1, WritersCan DEF SnapCreate, Goes, Publishing
  <2>3. \A i \in Images \ {j} : Same(i)
    BY <1>13, <2>1 DEF SnapCreate, Same
  <2>4. available' = available /\ UNCHANGED <<row, list, rbd, content>>
    BY <1>13 DEF SnapCreate
  <2>5. j \in available' => Usable(j)'
    BY <1>13, <2>1, <2>4 DEF SnapCreate, AvailableUsable, Usable
  <2>. QED BY <2>2, <2>3, <2>4, <2>5, OneIsChanged
<1>14. CASE HasSnap(p)
  BY <1>14 DEF HasSnap, Careful, Same
<1>15. CASE SnapProtect(p)
  <2>1. PICK j \in 0 .. MaxImages : j = img[p]
    BY DEF ProcsTyped
  <2>2. L!CanTake(p, j, "X")
    BY <1>15, <2>1, WritersCan DEF SnapProtect, Goes, Publishing
  <2>3. \A i \in Images \ {j} : Same(i)
    BY <1>15, <2>1 DEF SnapProtect, Same
  <2>4. available' = available /\ UNCHANGED <<row, list, rbd, content>>
    BY <1>15 DEF SnapProtect
  <2>5. j \in available' => Usable(j)'
    BY <1>15, <2>1, <2>4 DEF SnapProtect, AvailableUsable, Usable
  <2>. QED BY <2>2, <2>3, <2>4, <2>5, OneIsChanged
<1>16. CASE Lists(p)
  <2>1. PICK j \in 0 .. MaxImages : j = img[p]
    BY DEF ProcsTyped
  <2>2. L!CanTake(p, j, "X")
    BY <1>16, <2>1, WritersCan DEF Lists, Goes, Publishing
  <2>3. L!CanTake(p, Avail, "X")
    BY <1>16, WantsList, WhatIsGranted DEF Lists, Goes
  <2>4. available' = available \cup {j} /\ UNCHANGED <<row, list, cephVars>>
    BY <1>16, <2>1 DEF Lists
  <2>5. \A i \in Images \ {j} : Same(i)
    BY <2>4 DEF Same, cephVars
  <2>6. row[j] = "there" /\ base[j] # "none" /\ content[j] = list[j]
    BY <1>16, <2>1 DEF Lists, Goes, IInv, Local, Sees, Publishing
  <2>7. j \in Images
    BY <1>16, <2>1 DEF Lists, Goes, IInv, Local, OnCourse, Publishing, ProcsTyped, Images
  <2>8. j \in rbd
    BY <2>6, <2>7 DEF IInv, Unmade
  <2>9. Usable(j)'
    BY <2>4, <2>6, <2>8 DEF Usable, cephVars
  <2>. QED BY <2>2, <2>3, <2>5, <2>9, OneIsChanged
<1>17. CASE Downgrades(p)
  BY <1>17 DEF Downgrades, Careful, Same
<1>18. CASE Reopens(p)
  BY <1>18 DEF Reopens, Careful, Same
<1>19. CASE Mounts(p)
  BY <1>19 DEF Mounts, Careful, Same
<1>20. CASE Opens(p)
  BY <1>20 DEF Opens, Careful, Same
<1>21. CASE Unlists(p)
  <2>1. L!CanTake(p, Avail, "X")
    BY <1>21, WantsList, WhatIsGranted DEF Unlists, Goes
  <2>2. \A i \in Images : Same(i)
    BY <1>21 DEF Unlists, Same
  <2>. QED BY <2>1, <2>2 DEF Careful
<1>22. CASE RemoveRoBase(p)
  <2>1. L!CanTake(p, img[p], "X")
    BY <1>22, WantsImage, WhatIsGranted DEF RemoveRoBase
  <2>2. /\ UNCHANGED <<dbVars, rbd, content>>
        /\ (base' = base \/ (/\ img[p] \notin available
                             /\ \E left \in Bases : base' = [base EXCEPT ![img[p]] = left]))
    BY <1>22 DEF RemoveRoBase, Bases
  <2>3. \A i \in Images \ {img[p]} : Same(i)
    BY <2>2 DEF Same
  <2>4. CASE base' = base
    BY <2>2, <2>4 DEF Careful, Same
  <2>5. CASE img[p] \notin available
    BY <2>1, <2>2, <2>3, <2>5, OneIsChanged
  <2>. QED BY <2>2, <2>4, <2>5
<1>23. CASE Delists(p)
  <2>1. L!CanTake(p, Avail, "X")
    BY <1>23, WantsList, WhatIsGranted DEF Delists, Goes
  <2>2. \A i \in Images : Same(i)
    BY <1>23 DEF Delists, Same
  <2>. QED BY <2>1, <2>2 DEF Careful
<1>24. CASE DeleteRow(p)
  <2>1. L!CanTake(p, img[p], "X")
    <3>1. pc[p] = "delete" /\ op[p] # "rmbase"
      BY <1>24 DEF DeleteRow, Goes, IInv, Local, OnCourse, Tools
    <3>. QED BY <1>24, <3>1, WantsImage, WhatIsGranted DEF DeleteRow, Goes
  <2>2. \A i \in Images \ {img[p]} : Same(i)
    BY <1>24 DEF DeleteRow, Same
  <2>3. img[p] \notin available' /\ available' = available
    BY <1>24 DEF DeleteRow
  <2>. QED BY <2>1, <2>2, <2>3, OneIsChanged
<1>25. CASE Purges(p)
  <2>1. L!CanTake(p, img[p], "X")
    BY <1>25, WritersCan DEF Purges
  <2>2. \A i \in Images \ {img[p]} : Same(i)
    BY <1>25 DEF Purges, Same
  <2>3. img[p] \notin available' /\ available' = available
    BY <1>25 DEF Purges, Local, Sees
  <2>. QED BY <2>1, <2>2, <2>3, OneIsChanged
<1>26. CASE Evaluates(p)
  BY <1>26 DEF Evaluates, Careful, Same
<1>27. CASE Evaluated(p)
  BY <1>27 DEF Evaluated, Careful, Same
<1>28. CASE Picks(p)
  BY <1>28 DEF Picks, Careful, Same
<1>29. CASE FlattenChild(p)
  BY <1>29 DEF FlattenChild, Careful, Same
<1>30. CASE Flattened(p)
  BY <1>30 DEF Flattened, Careful, Same
<1>31. CASE Fails(p)
  <2>1. CASE pc[p] \in {"commit", "commitempty"}
    <3>1. L!CanTake(p, img[p], "X")
      BY <2>1, WritersCan
    <3>2. \A i \in Images \ {img[p]} : Same(i)
      BY <1>31, <2>1 DEF Fails, Same
    <3>3. img[p] \notin available' /\ available' = available
      BY <1>31, <2>1 DEF Fails, Local, Sees
    <3>. QED BY <3>1, <3>2, <3>3, OneIsChanged
  <2>2. CASE pc[p] \notin {"commit", "commitempty"}
    BY <1>31, <2>2 DEF Fails, Careful, Same
  <2>. QED BY <2>1, <2>2
<1>32. CASE Quits(p)
  BY <1>32, Quitting DEF Closed, Careful, Same
<1>. QED
  BY <1>1, <1>2, <1>3, <1>4, <1>5, <1>6, <1>7, <1>8, <1>9, <1>10, <1>11, <1>12, <1>13,
     <1>14, <1>15, <1>16, <1>17, <1>18, <1>19, <1>20, <1>21, <1>22, <1>23, <1>24, <1>25,
     <1>26, <1>27, <1>28, <1>29, <1>30, <1>31, <1>32
     DEF Starts, Continues, Quits

\* Whoever has a lock is not disturbed by steps of others.
LEMMA OthersSee ==
  ASSUME IInv, NEW p \in Procs, Alone(p), Careful(p), NEW q \in Procs \ {p}
  PROVE  Local(q)'
<1>1. /\ pc'[q] = pc[q] /\ op'[q] = op[q] /\ img'[q] = img[q]
      /\ want'[q] = want[q] /\ held'[q] = held[q] /\ todo'[q] = todo[q]
  BY DEF Alone
<1>2. OnCourse(q) /\ Locked(q) /\ Sees(q)
  BY DEF IInv, Local
<1>3. OnCourse(q)'
  BY <1>1, <1>2 DEF OnCourse
<1>4. Locked(q)'
  BY <1>1, <1>2 DEF Locked, Mine, Found, Keeps, ByTool
<1>5. CASE pc[q] = "chosen"
  <2>1. L!Holds(q, Avail, "S")
    BY <1>2, <1>5 DEF Locked, L!Holds
  <2>2. ~L!CanTake(p, Avail, "X")
    BY <2>1, NobodyElseCan DEF L!Modes
  <2>3. available' = available
    BY <2>2 DEF Careful
  <2>4. Sees(q)'
    BY <1>1, <1>2, <1>5, <2>3 DEF Sees, Making, Publishing, Using
  <2>. QED BY <1>3, <1>4, <2>4 DEF Local
<1> DEFINE Works == pc[q] \in {"commit", "commitempty", "downgrade", "reopen", "purge"}
                                \cup Making \cup Publishing \cup Using
<1>6. CASE Works
  <2>1. \E m \in L!Modes : L!Holds(q, img[q], m)
    BY <1>2, <1>6 DEF Locked, Mine, L!Holds, L!Modes
  <2>2. ~L!CanTake(p, img[q], "X")
    BY <2>1, NobodyElseCan
  <2>3. img[q] \in Images
    <3>1. img[q] # 0
      BY <1>2, <1>6 DEF OnCourse
    <3>. QED BY <3>1 DEF IInv, TypeOK, ProcsTyped, Images
  <2>4. Same(img[q])
    BY <2>2, <2>3 DEF Careful
  <2>5. Sees(q)'
    BY <1>1, <1>2, <1>6, <2>4 DEF Sees, Same, Suits, Making, Publishing, Using
  <2>. QED BY <1>3, <1>4, <2>5 DEF Local
<1>7. CASE pc[q] # "chosen" /\ ~Works
  <2>1. Sees(q)'
    BY <1>1, <1>7 DEF Sees, Making, Publishing, Using
  <2>. QED BY <1>3, <1>4, <2>1 DEF Local
<1>. QED BY <1>5, <1>6, <1>7

\* What is listed is usable after a careful step.
LEMMA ListedStaysUsable ==
  ASSUME IInv, NEW p \in Procs, Careful(p), available' \subseteq Images
  PROVE  AvailableUsable'
<1> SUFFICES ASSUME NEW i \in available' PROVE Usable(i)'
  BY DEF AvailableUsable, Usable
<1>1. CASE Same(i)
  BY <1>1 DEF Same, IInv, AvailableUsable, Usable
<1>2. CASE ~Same(i)
  BY <1>2 DEF Careful
<1>. QED BY <1>1, <1>2

-----------------------------------------------------------------------------
(* The locks.                                                              *)

\* A process trades locks for one that nobody else is in the way of, or gives some back.
Fair(p) ==
  \/ \A q \in Procs : held'[q] \subseteq held[q]
  \/ \E l \in 0 .. MaxImages, m \in L!Modes, old \in SUBSET ((0 .. MaxImages) \X L!Modes) :
       L!CanTake(p, l, m) /\ held' = L!Trades(p, old, {<<l, m>>})

\* Fair steps leave the locks exclusive.
LEMMA FairIsExclusive ==
  ASSUME TypeOK, Exclusive, NEW p \in Procs, Fair(p)
  PROVE  Exclusive'
<1>1. CASE \A q \in Procs : held'[q] \subseteq held[q]
  BY <1>1, Releasing
<1>2. ASSUME NEW l \in 0 .. MaxImages, NEW m \in L!Modes,
             NEW old \in SUBSET ((0 .. MaxImages) \X L!Modes),
             L!CanTake(p, l, m), held' = L!Trades(p, old, {<<l, m>>})
      PROVE  Exclusive'
  BY <1>2, Taking
<1>. QED BY <1>1, <1>2 DEF Fair

\* A lock is taken for others.
LEMMA TakingIsFair ==
  ASSUME NEW p \in Procs, NEW l \in 0 .. MaxImages, NEW m \in L!Modes, L!CanTake(p, l, m),
         NEW old \in SUBSET ((0 .. MaxImages) \X L!Modes), Swaps(p, old, {<<l, m>>})
  PROVE  Fair(p)
BY DEF Fair, Swaps

\* Locks are only given back.
LEMMA GivingBackIsFair ==
  ASSUME TypeOK, NEW p \in Procs, NEW S, S \subseteq held[p], held' = [held EXCEPT ![p] = S]
  PROVE  Fair(p)
BY DEF TypeOK, ProcsTyped, Fair

\* An operation that is over has given its locks back.
LEMMA OverIsFair ==
  ASSUME TypeOK, NEW p \in Procs, Over(p)
  PROVE  Fair(p)
BY DEF TypeOK, ProcsTyped, Over, Fair

\* Whoever could lock it exclusively, could lock it in any way.
LEMMA WeakerModes ==
  ASSUME NEW p, NEW l, L!CanTake(p, l, "X"), NEW m \in L!Modes
  PROVE  L!CanTake(p, l, m)
BY DEF L!CanTake, L!InTheWay, L!Compatible

\* Every step trades locks fairly.
LEMMA StepsAreFair ==
  ASSUME IInv, NEW p \in Procs, Starts(p) \/ Continues(p) \/ Fails(p)
  PROVE  Fair(p)
<1> USE DEF IInv, TypeOK, ProcsTyped, Over, Goes, Begins, procVars, Swaps, L!Trades
<1>1. CASE Build(p)
  BY <1>1 DEF Build, Fair
<1>2. CASE CreateEmpty(p)
  <2> DEFINE id == made + 1
  <2>1. id \in 0 .. MaxImages /\ id > made /\ Swaps(p, {}, {<<id, "X">>})
    BY <1>2, RootfsAssumption DEF CreateEmpty, Creates
  <2>. HIDE DEF id
  <2>2. L!CanTake(p, id, "X") /\ {} \in SUBSET ((0 .. MaxImages) \X L!Modes)
    BY <2>1, NewIsFree
  <2>. QED BY <2>1, <2>2, TakingIsFair DEF L!Modes
<1>3. CASE Shell(p)
  BY <1>3 DEF Shell, Fair
<1>4. CASE Flatten(p)
  BY <1>4 DEF Flatten, Fair
<1>5. CASE Tool(p)
  BY <1>5 DEF Tool, Fair
<1>6. CASE FindBegins(p)
  <2>1. L!CanTake(p, Avail, "S")
    BY <1>6, WantsList, WhatIsGranted DEF FindBegins, Goes
  <2>2. /\ {} \in SUBSET ((0 .. MaxImages) \X L!Modes)
        /\ "S" \in L!Modes /\ Avail \in 0 .. MaxImages
    BY LockTypes DEF Avail, ProcsTyped
  <2>3. Swaps(p, {}, {<<Avail, "S">>})
    BY <1>6 DEF FindBegins
  <2>. QED BY <2>1, <2>2, <2>3, TakingIsFair
<1>7. CASE FindEnds(p)
  <2>1. L!CanTake(p, img[p], "S")
    BY <1>7, WantsImage, WhatIsGranted DEF FindEnds, Goes
  <2>2. /\ {<<Avail, "S">>} \in SUBSET ((0 .. MaxImages) \X L!Modes)
        /\ "S" \in L!Modes /\ img[p] \in 0 .. MaxImages
    BY LockTypes DEF Avail, ProcsTyped
  <2>3. Swaps(p, {<<Avail, "S">>}, {<<img[p], "S">>})
    BY <1>7 DEF FindEnds
  <2>. QED BY <2>1, <2>2, <2>3, TakingIsFair
<1>8. CASE CloneCreates(p)
  <2> DEFINE id == made + 1
  <2>1. id \in 0 .. MaxImages /\ id > made /\ Swaps(p, {}, {<<id, "X">>})
    BY <1>8, RootfsAssumption DEF CloneCreates, Creates
  <2>. HIDE DEF id
  <2>2. L!CanTake(p, id, "X") /\ {} \in SUBSET ((0 .. MaxImages) \X L!Modes)
    BY <2>1, NewIsFree
  <2>. QED BY <2>1, <2>2, TakingIsFair DEF L!Modes
<1>9. CASE CloneCommits(p)
  <2>1. {<<img[p], "X">>} \subseteq held[p] /\ held' = [held EXCEPT ![p] = {<<img[p], "X">>}]
    BY <1>9 DEF CloneCommits, Goes, Local, Locked, Mine
  <2>. QED BY <2>1, GivingBackIsFair
<1>10. CASE CreateCommits(p)
  BY <1>10, OverIsFair DEF CreateCommits
<1>11. CASE Installs(p)
  BY <1>11 DEF Installs, Fair
<1>12. CASE Adapts(p)
  BY <1>12 DEF Adapts, Fair
<1>13. CASE SnapCreate(p)
  BY <1>13 DEF SnapCreate, Fair
<1>14. CASE HasSnap(p)
  BY <1>14 DEF HasSnap, Fair
<1>15. CASE SnapProtect(p)
  BY <1>15 DEF SnapProtect, Fair
<1>16. CASE Lists(p)
  BY <1>16 DEF Lists, Over, Fair
<1>17. CASE Downgrades(p)
  <2>1. L!CanTake(p, img[p], "S+")
    <3>1. L!Holds(p, img[p], "X")
      BY <1>17 DEF Downgrades, Goes, Local, Locked, Mine, L!Holds
    <3>2. L!CanTake(p, img[p], "X")
      BY <3>1, OwnersCan DEF ProcsTyped
    <3>. QED BY <3>2, WeakerModes DEF L!Modes
  <2>2. /\ {<<img[p], "X">>} \in SUBSET ((0 .. MaxImages) \X L!Modes)
        /\ "S+" \in L!Modes /\ img[p] \in 0 .. MaxImages
    BY LockTypes DEF Avail, ProcsTyped
  <2>3. Swaps(p, {<<img[p], "X">>}, {<<img[p], "S+">>})
    BY <1>17 DEF Downgrades
  <2>. QED BY <2>1, <2>2, <2>3, TakingIsFair
<1>18. CASE Reopens(p)
  <2>1. L!CanTake(p, img[p], "S")
    BY <1>18, WantsImage, WhatIsGranted DEF Reopens, Goes
  <2>2. /\ {<<img[p], "S+">>} \in SUBSET ((0 .. MaxImages) \X L!Modes)
        /\ "S" \in L!Modes /\ img[p] \in 0 .. MaxImages
    BY LockTypes DEF Avail, ProcsTyped
  <2>3. Swaps(p, {<<img[p], "S+">>}, {<<img[p], "S">>})
    BY <1>18 DEF Reopens
  <2>. QED BY <2>1, <2>2, <2>3, TakingIsFair
<1>19. CASE Mounts(p)
  BY <1>19 DEF Mounts, Fair
<1>20. CASE Opens(p)
  <2>1. L!CanTake(p, img[p], "X")
    BY <1>20, WantsImage, WhatIsGranted DEF Opens, Goes
  <2>2. /\ {} \in SUBSET ((0 .. MaxImages) \X L!Modes)
        /\ "X" \in L!Modes /\ img[p] \in 0 .. MaxImages
    BY LockTypes DEF Avail, ProcsTyped
  <2>3. Swaps(p, {}, {<<img[p], "X">>})
    BY <1>20 DEF Opens
  <2>. QED BY <2>1, <2>2, <2>3, TakingIsFair
<1>21. CASE Unlists(p)
  BY <1>21, OverIsFair DEF Unlists
<1>22. CASE RemoveRoBase(p)
  BY <1>22, OverIsFair DEF RemoveRoBase
<1>23. CASE Delists(p)
  BY <1>23 DEF Delists, Fair
<1>24. CASE DeleteRow(p)
  <2>1. L!CanTake(p, img[p], "X")
    <3>1. pc[p] = "delete" /\ op[p] # "rmbase"
      BY <1>24 DEF DeleteRow, Goes, Local, OnCourse, Tools
    <3>. QED BY <1>24, <3>1, WantsImage, WhatIsGranted DEF DeleteRow, Goes
  <2>2. /\ {} \in SUBSET ((0 .. MaxImages) \X L!Modes)
        /\ "X" \in L!Modes /\ img[p] \in 0 .. MaxImages
    BY LockTypes DEF Avail, ProcsTyped
  <2>3. Swaps(p, {}, {<<img[p], "X">>})
    BY <1>24 DEF DeleteRow
  <2>. QED BY <2>1, <2>2, <2>3, TakingIsFair
<1>25. CASE Purges(p)
  BY <1>25 DEF Purges, Fair
<1>26. CASE Evaluates(p)
  <2>1. PICK i \in Images : i = Least(todo[p])
    <3>1. todo[p] \in SUBSET Nat /\ todo[p] \subseteq Images /\ todo[p] # {}
      BY <1>26 DEF Evaluates, ProcsTyped, Images
    <3>. QED BY <3>1, LeastIsLeast
  <2>2. CASE held' = held
    BY <2>2 DEF Fair
  <2>3. CASE held' # held
    <3>1. Swaps(p, {<<img[p], "S">>}, {<<i, "S">>})
      BY <1>26, <2>1, <2>3 DEF Evaluates
    <3>2. L!CanTake(p, i, "S")
      <4>1. <<i, "S">> \in Wanted(p)
        BY <1>26, <2>1, ToolsWant DEF Evaluates
      <4>. QED BY <1>26, <4>1, WhatIsGranted DEF Evaluates
    <3>3. /\ {<<img[p], "S">>} \in SUBSET ((0 .. MaxImages) \X L!Modes)
          /\ "S" \in L!Modes /\ i \in 0 .. MaxImages
      BY LockTypes
    <3>. QED BY <3>1, <3>2, <3>3, TakingIsFair
  <2>. QED BY <2>2, <2>3
<1>27. CASE Evaluated(p)
  BY <1>27 DEF Evaluated, Fair
<1>28. CASE Picks(p)
  <2>1. PICK i \in Images : i = Greatest(todo[p])
    <3>1. todo[p] \in SUBSET Images /\ todo[p] # {}
      BY <1>28 DEF Picks
    <3>. QED BY <3>1, GreatestIsGreatest
  <2>2. Swaps(p, {}, {<<i, "S+">>})
    BY <1>28, <2>1 DEF Picks
  <2>3. L!CanTake(p, i, "S+")
    BY <1>28, <2>1, ToolsWant, WhatIsGranted DEF Picks, Goes
  <2>4. {} \in SUBSET ((0 .. MaxImages) \X L!Modes) /\ "S+" \in L!Modes /\ i \in 0 .. MaxImages
    BY LockTypes
  <2>. QED BY <2>2, <2>3, <2>4, TakingIsFair
<1>29. CASE FlattenChild(p)
  BY <1>29 DEF FlattenChild, Fair
<1>30. CASE Flattened(p)
  BY <1>30 DEF Flattened, Fair
<1>31. CASE Fails(p)
  BY <1>31, OverIsFair DEF Fails
<1>32. CASE Quits(p)
  BY <1>32, Quitting, OverIsFair DEF Closed
<1>. QED
  BY <1>1, <1>2, <1>3, <1>4, <1>5, <1>6, <1>7, <1>8, <1>9, <1>10, <1>11, <1>12, <1>13,
     <1>14, <1>15, <1>16, <1>17, <1>18, <1>19, <1>20, <1>21, <1>22, <1>23, <1>24, <1>25,
     <1>26, <1>27, <1>28, <1>29, <1>30, <1>31, <1>32
     DEF Starts, Continues, Quits

-----------------------------------------------------------------------------
(* What has not been made.                                                 *)

\* A process gets nothing that has not been made.
Known(p) ==
  /\ made' >= made /\ img'[p] <= made'
  /\ \A l \in 0 .. MaxImages, m \in L!Modes :
       <<l, m>> \in held'[p] => (<<l, m>> \in held[p] \/ l <= made')
  /\ \A i \in available' \cup rbd' : i \in available \cup rbd \/ i <= made'
  /\ \A i \in Images : row'[i] # "none" => i \in rbd'

\* A step of which this is true leaves it so.
LEMMA UnmadeStays ==
  ASSUME IInv, NEW p \in Procs, Alone(p), Known(p), TypeOK'
  PROVE  Unmade'
<1>1. made \in Nat /\ made' \in Nat /\ made' >= made
  BY RootfsAssumption DEF IInv, TypeOK, Known
<1>2. \A i \in available' \cup rbd' : i <= made'
  <2>1. \A i \in available' \cup rbd' : i \in Nat
    BY DEF TypeOK, DataTyped, Images
  <2>2. \A i \in available \cup rbd : i <= made /\ i \in Nat
    BY DEF IInv, TypeOK, DataTyped, Unmade, Images
  <2>. QED BY <1>1, <2>1, <2>2 DEF Known
<1>3. \A q \in Procs : img'[q] <= made'
  <2>1. \A q \in Procs : img[q] \in Nat /\ img[q] <= made
    BY RootfsAssumption DEF IInv, TypeOK, ProcsTyped, Unmade
  <2>2. \A q \in Procs \ {p} : img'[q] = img[q]
    BY DEF Alone
  <2>3. img'[p] <= made'
    BY DEF Known
  <2>. QED BY <1>1, <2>1, <2>2, <2>3
<1>4. ASSUME NEW q \in Procs, NEW l \in 0 .. MaxImages, NEW m \in L!Modes, L!Holds(q, l, m)'
      PROVE  l <= made'
  <2>1. CASE <<l, m>> \in held[q]
    <3>1. l <= made
      BY <2>1 DEF IInv, Unmade, L!Holds
    <3>. QED BY <1>1, <3>1
  <2>2. CASE <<l, m>> \notin held[q]
    BY <1>4, <2>2 DEF Known, Alone, L!Holds
  <2>. QED BY <2>1, <2>2
<1>. QED BY <1>2, <1>3, <1>4 DEF Unmade, Known

\* Every step gets only what has been made.
LEMMA StepsStayKnown ==
  ASSUME IInv, NEW p \in Procs, Starts(p) \/ Continues(p) \/ Fails(p)
  PROVE  Known(p)
<1> USE DEF IInv, TypeOK, DataTyped, ProcsTyped, Over, Goes, Begins, dbVars, cephVars, procVars,
    counters, Swaps, L!Trades, L!Holds, Unmade, Known
<1>. made \in Nat
  BY RootfsAssumption
<1>1. CASE Build(p)
  BY <1>1 DEF Build
<1>2. CASE CreateEmpty(p)
  <2> DEFINE id == made + 1
  <2>1. /\ made' = id /\ img' = [img EXCEPT ![p] = id] /\ rbd' = rbd \cup {id}
        /\ available' = available /\ row' = [row EXCEPT ![id] = "pending"]
        /\ held'[p] = held[p] \cup {<<id, "X">>}
    BY <1>2 DEF CreateEmpty, Creates, Swaps, L!Trades
  <2>2. id \in Nat /\ id >= made
    OBVIOUS
  <2>. HIDE DEF id
  <2>3. \A l \in 0 .. MaxImages, m \in L!Modes :
          <<l, m>> \in held'[p] => (<<l, m>> \in held[p] \/ l = id)
    BY <2>1
  <2>. QED BY <2>1, <2>2, <2>3
<1>3. CASE Shell(p)
  BY <1>3 DEF Shell
<1>4. CASE Flatten(p)
  BY <1>4 DEF Flatten
<1>5. CASE Tool(p)
  BY <1>5 DEF Tool
<1>6. CASE FindBegins(p)
  <2>1. img'[p] \in available
    BY <1>6, BestIsListed DEF FindBegins
  <2>2. held'[p] = held[p] \cup {<<Avail, "S">>}
    BY <1>6 DEF FindBegins
  <2>. QED BY <1>6, <2>1, <2>2 DEF FindBegins, Avail
<1>7. CASE FindEnds(p)
  BY <1>7 DEF FindEnds
<1>8. CASE CloneCreates(p)
  <2> DEFINE id == made + 1
  <2>1. /\ made' = id /\ img' = [img EXCEPT ![p] = id] /\ rbd' = rbd \cup {id}
        /\ available' = available /\ row' = [row EXCEPT ![id] = "pending"]
        /\ held'[p] = held[p] \cup {<<id, "X">>}
    BY <1>8 DEF CloneCreates, Creates, Swaps, L!Trades
  <2>2. id \in Nat /\ id >= made
    OBVIOUS
  <2>. HIDE DEF id
  <2>3. \A l \in 0 .. MaxImages, m \in L!Modes :
          <<l, m>> \in held'[p] => (<<l, m>> \in held[p] \/ l = id)
    BY <2>1
  <2>. QED BY <2>1, <2>2, <2>3
<1>9. CASE CloneCommits(p)
  <2>1. row[img[p]] = "pending"
    BY <1>9 DEF CloneCommits, Goes, Local, Sees
  <2>. QED BY <1>9, <2>1 DEF CloneCommits
<1>10. CASE CreateCommits(p)
  <2>1. row[img[p]] = "pending"
    BY <1>10 DEF CreateCommits, Goes, Local, Sees
  <2>. QED BY <1>10, <2>1 DEF CreateCommits
<1>11. CASE Installs(p)
  BY <1>11 DEF Installs
<1>12. CASE Adapts(p)
  BY <1>12 DEF Adapts
<1>13. CASE SnapCreate(p)
  BY <1>13 DEF SnapCreate
<1>14. CASE HasSnap(p)
  BY <1>14 DEF HasSnap
<1>15. CASE SnapProtect(p)
  BY <1>15 DEF SnapProtect
<1>16. CASE Lists(p)
  BY <1>16 DEF Lists
<1>17. CASE Downgrades(p)
  BY <1>17 DEF Downgrades
<1>18. CASE Reopens(p)
  BY <1>18 DEF Reopens
<1>19. CASE Mounts(p)
  BY <1>19 DEF Mounts
<1>20. CASE Opens(p)
  BY <1>20 DEF Opens
<1>21. CASE Unlists(p)
  BY <1>21 DEF Unlists
<1>22. CASE RemoveRoBase(p)
  BY <1>22 DEF RemoveRoBase
<1>23. CASE Delists(p)
  BY <1>23 DEF Delists
<1>24. CASE DeleteRow(p)
  BY <1>24 DEF DeleteRow
<1>25. CASE Purges(p)
  <2>1. row[img[p]] = "none"
    BY <1>25 DEF Purges, Local, Sees
  <2>. QED BY <1>25, <2>1 DEF Purges
<1>26. CASE Evaluates(p)
  <2>1. PICK i \in Images : i = Least(todo[p])
    <3>1. todo[p] \in SUBSET Nat /\ todo[p] \subseteq Images /\ todo[p] # {}
      BY <1>26 DEF Evaluates, ProcsTyped, Images
    <3>. QED BY <3>1, LeastIsLeast
  <2>2. \/ img' = img /\ held' = held
        \/ /\ row[i] = "there" /\ img'[p] \in {0, i}
           /\ held'[p] = (held[p] \ {<<img[p], "S">>}) \cup {<<i, "S">>}
    BY <1>26, <2>1 DEF Evaluates
  <2>3. row[i] = "there" => i <= made
    BY <2>1
  <2>4. \A l \in 0 .. MaxImages, m \in L!Modes :
          <<l, m>> \in held'[p] => (<<l, m>> \in held[p] \/ l <= made)
    BY <2>2, <2>3
  <2>5. img'[p] <= made
    BY <2>2, <2>3
  <2>6. UNCHANGED <<dbVars, cephVars, made>>
    BY <1>26 DEF Evaluates
  <2>. QED BY <2>4, <2>5, <2>6
<1>27. CASE Evaluated(p)
  BY <1>27 DEF Evaluated
<1>28. CASE Picks(p)
  <2>1. PICK i \in Images : i = Greatest(todo[p]) /\ i \in todo[p]
    <3>1. todo[p] \in SUBSET Images /\ todo[p] # {}
      BY <1>28 DEF Picks
    <3>. QED BY <3>1, GreatestIsGreatest
  <2>2. i <= made
    <3>1. <<i, "S">> \in held[p]
      BY <1>28, <2>1 DEF Picks, Local, Locked, Found
    <3>. QED BY <3>1, LockTypes
  <2>3. held'[p] = held[p] \cup {<<i, "S+">>} /\ img'[p] = i
    BY <1>28, <2>1 DEF Picks
  <2>. QED BY <1>28, <2>2, <2>3 DEF Picks
<1>29. CASE FlattenChild(p)
  BY <1>29 DEF FlattenChild
<1>30. CASE Flattened(p)
  BY <1>30 DEF Flattened
<1>31. CASE Fails(p)
  <2>1. CASE UNCHANGED <<dbVars, cephVars>>
    BY <1>31, <2>1 DEF Fails
  <2>2. CASE pc[p] \in {"commit", "commitempty"}
    BY <1>31, <2>2 DEF Fails
  <2>. QED BY <1>31, <2>1, <2>2 DEF Fails
<1>32. CASE Quits(p)
  BY <1>32, Quitting DEF Closed
<1>. QED
  BY <1>1, <1>2, <1>3, <1>4, <1>5, <1>6, <1>7, <1>8, <1>9, <1>10, <1>11, <1>12, <1>13,
     <1>14, <1>15, <1>16, <1>17, <1>18, <1>19, <1>20, <1>21, <1>22, <1>23, <1>24, <1>25,
     <1>26, <1>27, <1>28, <1>29, <1>30, <1>31, <1>32
     DEF Starts, Continues, Quits

-----------------------------------------------------------------------------
(* What a process knows and has, after a step of its own.                  *)

\* An operation that is over knows and has nothing.
LEMMA OverIsLocal ==
  ASSUME TypeOK, NEW p \in Procs, Over(p)
  PROVE  Local(p)'
<1>1. pc'[p] = "idle" /\ held'[p] = {} /\ want'[p] = {}
  BY DEF TypeOK, ProcsTyped, Over
<1>. QED BY <1>1 DEF Local, OnCourse, Locked, Sees, Making, Publishing, Using

\* What the error function is 0 for is what was asked for.
LEMMA WhatFits ==
  ASSUME NEW i, NEW D, Fits(i, D), \A d, e \in D : d[1] = e[1] => d = e
  PROVE  D \subseteq list[i]
<1> SUFFICES ASSUME NEW d \in D PROVE d \in list[i]
  OBVIOUS
<1>1. d[1] \in Names(list[i])
  BY DEF Fits, Missing, Names
<1>2. PICK e \in list[i] : e[1] = d[1]
  BY <1>1 DEF Names
<1>3. e[1] \in Names(D)
  BY <1>2 DEF Names
<1>4. e \in D
  BY <1>3 DEF Fits, Disruptive
<1>. QED BY <1>2, <1>4

\* Locks for reading.
LEMMA ReadLocks ==
  /\ \A i \in Images : <<i, "S">> \in Read
  /\ \A lock \in Read : lock = <<lock[1], "S">> /\ lock[1] \in Images
BY DEF Read

\* A process knows and has, after its step, what it relies upon.
LEMMA StepsStayLocal ==
  ASSUME IInv, NEW p \in Procs, Starts(p) \/ Continues(p) \/ Fails(p)
  PROVE  Local(p)'
<1> USE DEF IInv, TypeOK, DataTyped, ProcsTyped, Over, Goes, Begins, dbVars, cephVars, procVars,
    counters, Swaps, L!Trades, L!Holds
<1>. made \in Nat /\ Images \subseteq Nat
  BY RootfsAssumption DEF Images
<1>1. CASE Build(p)
  <2>1. pc'[p] = "find" /\ op'[p] = "build" /\ held'[p] = {}
    BY <1>1 DEF Build, Local, Locked
  <2>2. \A d, e \in want'[p] : d[1] = e[1] => d = e
    BY <1>1, RootfsAssumption DEF Build
  <2>3. OnCourse(p)'
    BY <2>1, <2>2
       DEF OnCourse, Mine, Suits, Making, Publishing, Using, ByTool
  <2>4. Locked(p)'
    BY <2>1, <2>2
       DEF Locked, Mine, Suits, Making, Publishing, Using, ByTool
  <2>5. Sees(p)'
    BY <2>1, <2>2
       DEF Sees, Mine, Suits, Making, Publishing, Using, ByTool
  <2>. QED BY <2>3, <2>4, <2>5 DEF Local
<1>2. CASE CreateEmpty(p)
  <2>1. /\ pc'[p] = "commitempty" /\ img'[p] = made + 1 /\ made + 1 # 0
        /\ held'[p] = {<<made + 1, "X">>} /\ want'[p] = want[p]
    BY <1>2, RootfsAssumption DEF CreateEmpty, Creates, Local, Locked
  <2>2. made + 1 \in Images /\ made + 1 \notin available
    BY <1>2, RootfsAssumption DEF CreateEmpty, Creates, Unmade, Images
  <2>3. available' = available /\ row'[made + 1] = "pending"
    BY <1>2, <2>2 DEF CreateEmpty, Creates
  <2>4. \A d, e \in want'[p] : d[1] = e[1] => d = e
    BY <2>1 DEF Local, OnCourse
  <2>5. OnCourse(p)'
    BY <2>1, <2>2, <2>3, <2>4
       DEF OnCourse, Mine, Suits, Making, Publishing, Using, ByTool
  <2>6. Locked(p)'
    BY <2>1, <2>2, <2>3, <2>4
       DEF Locked, Mine, Suits, Making, Publishing, Using, ByTool
  <2>7. Sees(p)'
    BY <2>1, <2>2, <2>3, <2>4
       DEF Sees, Mine, Suits, Making, Publishing, Using, ByTool
  <2>. QED BY <2>5, <2>6, <2>7 DEF Local
<1>3. CASE Shell(p)
  <2>1. img'[p] \in 1 .. made /\ held'[p] = {} /\ want'[p] = want[p]
    BY <1>3 DEF Shell, Local, Locked
  <2>2. \/ pc'[p] = "open" /\ op'[p] \in Commands
        \/ pc'[p] = "delist" /\ op'[p] = "delete"
    BY <1>3 DEF Shell, Commands
  <2>3. img'[p] # 0 /\ "delete" \notin Tools
    BY <2>1 DEF Tools
  <2>4. \A d, e \in want'[p] : d[1] = e[1] => d = e
    BY <2>1 DEF Local, OnCourse
  <2>5. OnCourse(p)'
    BY <2>1, <2>2, <2>3, <2>4
       DEF OnCourse, Mine, Suits, Making, Publishing, Using, ByTool
  <2>6. Locked(p)'
    BY <2>1, <2>2, <2>3, <2>4
       DEF Locked, Mine, Suits, Making, Publishing, Using, ByTool
  <2>7. Sees(p)'
    BY <2>1, <2>2, <2>3, <2>4
       DEF Sees, Mine, Suits, Making, Publishing, Using, ByTool
  <2>. QED BY <2>5, <2>6, <2>7 DEF Local
<1>4. CASE Flatten(p)
  <2>1. pc'[p] = "idle" /\ held'[p] = {} /\ want'[p] = want[p]
    BY <1>4 DEF Flatten, Local, Locked
  <2>2. \A d, e \in want'[p] : d[1] = e[1] => d = e
    BY <2>1 DEF Local, OnCourse
  <2>3. OnCourse(p)'
    BY <2>1, <2>2
       DEF OnCourse, Mine, Suits, Making, Publishing, Using, ByTool
  <2>4. Locked(p)'
    BY <2>1, <2>2
       DEF Locked, Mine, Suits, Making, Publishing, Using, ByTool
  <2>5. Sees(p)'
    BY <2>1, <2>2
       DEF Sees, Mine, Suits, Making, Publishing, Using, ByTool
  <2>. QED BY <2>3, <2>4, <2>5 DEF Local
<1>5. CASE Tool(p)
  <2>1. pc'[p] = "evaluate" /\ op'[p] \in Tools /\ held'[p] = {} /\ want'[p] = want[p]
    BY <1>5 DEF Tool, Local, Locked
  <2>2. \A d, e \in want'[p] : d[1] = e[1] => d = e
    BY <2>1 DEF Local, OnCourse
  <2>3. OnCourse(p)'
    BY <2>1, <2>2
       DEF OnCourse, Mine, Suits, Making, Publishing, Using, ByTool
  <2>4. Locked(p)'
    BY <2>1, <2>2
       DEF Locked, Mine, Suits, Making, Publishing, Using, ByTool
  <2>5. Sees(p)'
    BY <2>1, <2>2
       DEF Sees, Mine, Suits, Making, Publishing, Using, ByTool
  <2>. QED BY <2>3, <2>4, <2>5 DEF Local
<1>6. CASE FindBegins(p)
  <2>1. OnCourse(p) /\ Locked(p) /\ Sees(p) /\ pc[p] = "find"
    BY <1>6 DEF FindBegins, Local
  <2>2. /\ pc'[p] = "chosen" /\ op'[p] = "build" /\ held'[p] = {<<Avail, "S">>}
        /\ want'[p] = want[p] /\ img'[p] = Best(want[p]) /\ available' = available
    BY <1>6, <2>1 DEF FindBegins, OnCourse, Locked
  <2>3. img'[p] \in available /\ img'[p] # 0
    BY <1>6, <2>2, BestIsListed DEF FindBegins, Images
  <2>4. \A d, e \in want'[p] : d[1] = e[1] => d = e
    BY <2>1, <2>2 DEF OnCourse
  <2>5. OnCourse(p)'
    BY <2>1, <2>2, <2>3, <2>4
       DEF OnCourse, Mine, Suits, Making, Publishing, Using, ByTool
  <2>6. Locked(p)'
    BY <2>1, <2>2, <2>3, <2>4
       DEF Locked, Mine, Suits, Making, Publishing, Using, ByTool
  <2>7. Sees(p)'
    BY <2>1, <2>2, <2>3, <2>4
       DEF Sees, Mine, Suits, Making, Publishing, Using, ByTool
  <2>. QED BY <2>5, <2>6, <2>7 DEF Local
<1>7. CASE FindEnds(p)
  <2>1. OnCourse(p) /\ Locked(p) /\ Sees(p) /\ pc[p] = "chosen"
    BY <1>7 DEF FindEnds, Local
  <2>2. /\ pc'[p] = IF Fits(img[p], want[p]) THEN "mount" ELSE "clone"
        /\ op'[p] = "build" /\ held'[p] = {<<img[p], "S">>} /\ img'[p] = img[p] /\ img[p] # 0
        /\ want'[p] = want[p] /\ base' = base /\ content' = content
    BY <1>7, <2>1 DEF FindEnds, OnCourse, Locked
  <2>3. Fits(img[p], want[p]) => Suits(p)
    <3>1. img[p] \in available
      BY <2>1 DEF Sees
    <3>2. base[img[p]] # "none" /\ content[img[p]] = list[img[p]]
      BY <3>1 DEF AvailableUsable
    <3>. QED BY <2>1, <3>2, WhatFits DEF Suits, OnCourse
  <2>4. \A d, e \in want'[p] : d[1] = e[1] => d = e
    BY <2>1, <2>2 DEF OnCourse
  <2>5. OnCourse(p)'
    BY <2>1, <2>2, <2>3, <2>4
       DEF OnCourse, Mine, Suits, Making, Publishing, Using, ByTool
  <2>6. Locked(p)'
    BY <2>1, <2>2, <2>3, <2>4
       DEF Locked, Mine, Suits, Making, Publishing, Using, ByTool
  <2>7. Sees(p)'
    BY <2>1, <2>2, <2>3, <2>4
       DEF Sees, Mine, Suits, Making, Publishing, Using, ByTool
  <2>. QED BY <2>5, <2>6, <2>7 DEF Local
<1>8. CASE CloneCreates(p)
  <2>1. OnCourse(p) /\ Locked(p) /\ Sees(p) /\ pc[p] = "clone"
    BY <1>8 DEF CloneCreates, Local
  <2>2. /\ pc'[p] = "commit" /\ img'[p] = made + 1 /\ made + 1 # 0 /\ op'[p] = "build"
        /\ held'[p] = held[p] \cup {<<made + 1, "X">>} /\ want'[p] = want[p]
    BY <1>8, <2>1, RootfsAssumption DEF CloneCreates, Creates, OnCourse
  <2>3. made + 1 \in Images /\ made + 1 \notin available
    BY <1>8, RootfsAssumption DEF CloneCreates, Creates, Unmade, Images
  <2>4. available' = available /\ row'[made + 1] = "pending"
    BY <1>8, <2>3 DEF CloneCreates, Creates
  <2>5. held[p] \subseteq Read
    BY <2>1, ReadLocks DEF Locked, Mine, OnCourse, Images
  <2>6. \A d, e \in want'[p] : d[1] = e[1] => d = e
    BY <2>1, <2>2 DEF OnCourse
  <2>7. OnCourse(p)'
    BY <2>1, <2>2, <2>3, <2>4, <2>5, <2>6
       DEF OnCourse, Mine, Suits, Making, Publishing, Using, ByTool
  <2>8. Locked(p)'
    BY <2>1, <2>2, <2>3, <2>4, <2>5, <2>6
       DEF Locked, Mine, Suits, Making, Publishing, Using, ByTool
  <2>9. Sees(p)'
    BY <2>1, <2>2, <2>3, <2>4, <2>5, <2>6
       DEF Sees, Mine, Suits, Making, Publishing, Using, ByTool
  <2>. QED BY <2>7, <2>8, <2>9 DEF Local
<1>9. CASE CloneCommits(p)
  <2>1. OnCourse(p) /\ Locked(p) /\ Sees(p) /\ pc[p] = "commit"
    BY <1>9 DEF CloneCommits, Local
  <2>2. img[p] \in Images
    BY <2>1 DEF OnCourse, Making, Publishing, Using, Images
  <2>3. /\ pc'[p] = "install" /\ op'[p] = "build" /\ img'[p] = img[p] /\ want'[p] = want[p]
        /\ held'[p] = {<<img[p], "X">>} /\ row'[img[p]] = "there" /\ available' = available
    BY <1>9, <2>1, <2>2 DEF CloneCommits, OnCourse
  <2>4. \A d, e \in want'[p] : d[1] = e[1] => d = e
    BY <2>1, <2>3 DEF OnCourse
  <2>5. OnCourse(p)'
    BY <2>1, <2>2, <2>3, <2>4
       DEF OnCourse, Mine, Suits, Making, Publishing, Using, ByTool
  <2>6. Locked(p)'
    BY <2>1, <2>2, <2>3, <2>4
       DEF Locked, Mine, Suits, Making, Publishing, Using, ByTool
  <2>7. Sees(p)'
    BY <2>1, <2>2, <2>3, <2>4
       DEF Sees, Mine, Suits, Making, Publishing, Using, ByTool
  <2>. QED BY <2>5, <2>6, <2>7 DEF Local
<1>10. CASE CreateCommits(p)
  BY <1>10, OverIsLocal DEF CreateCommits
<1>11. CASE Installs(p)
  <2>1. OnCourse(p) /\ Locked(p) /\ Sees(p) /\ pc[p] = "install"
    BY <1>11 DEF Installs, Local
  <2>2. img[p] \in Images
    BY <2>1 DEF OnCourse, Making, Publishing, Using, Images
  <2>3. /\ pc'[p] = "adapt" /\ op'[p] = op[p] /\ img'[p] = img[p] /\ want'[p] = want[p]
        /\ held'[p] = {<<img[p], "X">>} /\ row' = row /\ available' = available
    BY <1>11, <2>1, <2>2 DEF Installs, OnCourse, Locked, Mine, Making, Publishing, Using
  <2>4. \A d, e \in want'[p] : d[1] = e[1] => d = e
    BY <2>1, <2>3 DEF OnCourse
  <2>5. OnCourse(p)'
    BY <2>1, <2>2, <2>3, <2>4
       DEF OnCourse, Mine, Suits, Making, Publishing, Using, ByTool
  <2>6. Locked(p)'
    BY <2>1, <2>2, <2>3, <2>4
       DEF Locked, Mine, Suits, Making, Publishing, Using, ByTool
  <2>7. Sees(p)'
    BY <2>1, <2>2, <2>3, <2>4
       DEF Sees, Mine, Suits, Making, Publishing, Using, ByTool
  <2>. QED BY <2>5, <2>6, <2>7 DEF Local
<1>12. CASE Adapts(p)
  <2>1. OnCourse(p) /\ Locked(p) /\ Sees(p) /\ pc[p] = "adapt"
    BY <1>12 DEF Adapts, Local
  <2>2. img[p] \in Images
    BY <2>1 DEF OnCourse, Making, Publishing, Using, Images
  <2>3. /\ pc'[p] = "snap" /\ op'[p] = op[p] /\ img'[p] = img[p] /\ want'[p] = want[p]
        /\ held'[p] = {<<img[p], "X">>} /\ row' = row /\ content'[img[p]] = want[p]
        /\ list'[img[p]] = want[p]
    BY <1>12, <2>1, <2>2 DEF Adapts, OnCourse, Locked, Mine, Making, Publishing, Using
  <2>4. \A d, e \in want'[p] : d[1] = e[1] => d = e
    BY <2>1, <2>3 DEF OnCourse
  <2>5. OnCourse(p)'
    BY <2>1, <2>2, <2>3, <2>4
       DEF OnCourse, Mine, Suits, Making, Publishing, Using, ByTool
  <2>6. Locked(p)'
    BY <2>1, <2>2, <2>3, <2>4
       DEF Locked, Mine, Suits, Making, Publishing, Using, ByTool
  <2>7. Sees(p)'
    BY <2>1, <2>2, <2>3, <2>4
       DEF Sees, Mine, Suits, Making, Publishing, Using, ByTool
  <2>. QED BY <2>5, <2>6, <2>7 DEF Local
<1>13. CASE SnapCreate(p)
  <2>1. OnCourse(p) /\ Locked(p) /\ Sees(p) /\ pc[p] = "snap"
    BY <1>13 DEF SnapCreate, Local
  <2>2. img[p] \in Images
    BY <2>1 DEF OnCourse, Making, Publishing, Using, Images
  <2>3. /\ pc'[p] = "protect" /\ op'[p] = op[p] /\ img'[p] = img[p] /\ want'[p] = want[p]
        /\ held'[p] = {<<img[p], "X">>} /\ UNCHANGED <<row, list, content>>
        /\ base'[img[p]] = "plain"
    BY <1>13, <2>1, <2>2 DEF SnapCreate, OnCourse, Locked, Mine, Making, Publishing, Using
  <2>4. \A d, e \in want'[p] : d[1] = e[1] => d = e
    BY <2>1, <2>3 DEF OnCourse
  <2>5. OnCourse(p)'
    BY <2>1, <2>2, <2>3, <2>4
       DEF OnCourse, Mine, Suits, Making, Publishing, Using, ByTool
  <2>6. Locked(p)'
    BY <2>1, <2>2, <2>3, <2>4
       DEF Locked, Mine, Suits, Making, Publishing, Using, ByTool
  <2>7. Sees(p)'
    BY <2>1, <2>2, <2>3, <2>4
       DEF Sees, Mine, Suits, Making, Publishing, Using, ByTool
  <2>. QED BY <2>5, <2>6, <2>7 DEF Local
<1>14. CASE HasSnap(p)
  <2>1. OnCourse(p) /\ Locked(p) /\ Sees(p) /\ pc[p] = "snap"
    BY <1>14 DEF HasSnap, Local
  <2>2. img[p] \in Images
    BY <2>1 DEF OnCourse, Making, Publishing, Using, Images
  <2>3. /\ pc'[p] = "list" /\ op'[p] = op[p] /\ img'[p] = img[p] /\ want'[p] = want[p]
        /\ held'[p] = {<<img[p], "X">>} /\ UNCHANGED <<row, list, content, base>>
        /\ base[img[p]] # "none"
    BY <1>14, <2>1, <2>2 DEF HasSnap, OnCourse, Locked, Mine, Making, Publishing, Using
  <2>4. \A d, e \in want'[p] : d[1] = e[1] => d = e
    BY <2>1, <2>3 DEF OnCourse
  <2>5. OnCourse(p)'
    BY <2>1, <2>2, <2>3, <2>4
       DEF OnCourse, Mine, Suits, Making, Publishing, Using, ByTool
  <2>6. Locked(p)'
    BY <2>1, <2>2, <2>3, <2>4
       DEF Locked, Mine, Suits, Making, Publishing, Using, ByTool
  <2>7. Sees(p)'
    BY <2>1, <2>2, <2>3, <2>4
       DEF Sees, Mine, Suits, Making, Publishing, Using, ByTool
  <2>. QED BY <2>5, <2>6, <2>7 DEF Local
<1>15. CASE SnapProtect(p)
  <2>1. OnCourse(p) /\ Locked(p) /\ Sees(p) /\ pc[p] = "protect"
    BY <1>15 DEF SnapProtect, Local
  <2>2. img[p] \in Images
    BY <2>1 DEF OnCourse, Making, Publishing, Using, Images
  <2>3. /\ pc'[p] = "list" /\ op'[p] = op[p] /\ img'[p] = img[p] /\ want'[p] = want[p]
        /\ held'[p] = {<<img[p], "X">>} /\ UNCHANGED <<row, list, content>>
        /\ base'[img[p]] = "protected"
    BY <1>15, <2>1, <2>2 DEF SnapProtect, OnCourse, Locked, Mine, Making, Publishing, Using
  <2>4. \A d, e \in want'[p] : d[1] = e[1] => d = e
    BY <2>1, <2>3 DEF OnCourse
  <2>5. OnCourse(p)'
    BY <2>1, <2>2, <2>3, <2>4
       DEF OnCourse, Mine, Suits, Making, Publishing, Using, ByTool
  <2>6. Locked(p)'
    BY <2>1, <2>2, <2>3, <2>4
       DEF Locked, Mine, Suits, Making, Publishing, Using, ByTool
  <2>7. Sees(p)'
    BY <2>1, <2>2, <2>3, <2>4
       DEF Sees, Mine, Suits, Making, Publishing, Using, ByTool
  <2>. QED BY <2>5, <2>6, <2>7 DEF Local
<1>16. CASE Lists(p)
  <2>1. CASE Over(p)
    BY <2>1, OverIsLocal
  <2>2. CASE ~Over(p)
    <3>1. OnCourse(p) /\ Locked(p) /\ Sees(p) /\ pc[p] = "list"
      BY <1>16 DEF Lists, Local
    <3>2. /\ pc'[p] = "downgrade" /\ op[p] = "build" /\ UNCHANGED <<op, img, want, content, base>>
          /\ held'[p] = {<<img[p], "X">>}
      BY <1>16, <2>2, <3>1 DEF Lists, Locked, Mine, Publishing
    <3>3. OnCourse(p)'
      BY <3>1, <3>2 DEF OnCourse, Making, Publishing, Using
    <3>4. Locked(p)'
      BY <3>2 DEF Locked, Mine, Making, Publishing, Using
    <3>5. Sees(p)'
      BY <3>1, <3>2 DEF Sees, Suits, Making, Publishing, Using
    <3>. QED BY <3>3, <3>4, <3>5 DEF Local
  <2>. QED BY <2>1, <2>2
<1>17. CASE Downgrades(p)
  <2>1. OnCourse(p) /\ Locked(p) /\ Sees(p) /\ pc[p] = "downgrade"
    BY <1>17 DEF Downgrades, Local
  <2>2. img[p] \in Images
    BY <2>1 DEF OnCourse, Making, Publishing, Using, Images
  <2>3. /\ pc'[p] = "reopen" /\ op'[p] = op[p] /\ img'[p] = img[p] /\ want'[p] = want[p]
        /\ held'[p] = {<<img[p], "S+">>} /\ UNCHANGED <<content, base>>
    BY <1>17, <2>1, <2>2 DEF Downgrades, OnCourse, Locked, Mine, Making, Publishing, Using
  <2>4. \A d, e \in want'[p] : d[1] = e[1] => d = e
    BY <2>1, <2>3 DEF OnCourse
  <2>5. OnCourse(p)'
    BY <2>1, <2>2, <2>3, <2>4
       DEF OnCourse, Mine, Suits, Making, Publishing, Using, ByTool
  <2>6. Locked(p)'
    BY <2>1, <2>2, <2>3, <2>4
       DEF Locked, Mine, Suits, Making, Publishing, Using, ByTool
  <2>7. Sees(p)'
    BY <2>1, <2>2, <2>3, <2>4
       DEF Sees, Mine, Suits, Making, Publishing, Using, ByTool
  <2>. QED BY <2>5, <2>6, <2>7 DEF Local
<1>18. CASE Reopens(p)
  <2>1. OnCourse(p) /\ Locked(p) /\ Sees(p) /\ pc[p] = "reopen"
    BY <1>18 DEF Reopens, Local
  <2>2. img[p] \in Images
    BY <2>1 DEF OnCourse, Making, Publishing, Using, Images
  <2>3. /\ pc'[p] = "mount" /\ op'[p] = op[p] /\ img'[p] = img[p] /\ want'[p] = want[p]
        /\ held'[p] = {<<img[p], "S">>} /\ UNCHANGED <<content, base>>
    BY <1>18, <2>1, <2>2 DEF Reopens, OnCourse, Locked, Mine, Making, Publishing, Using
  <2>4. \A d, e \in want'[p] : d[1] = e[1] => d = e
    BY <2>1, <2>3 DEF OnCourse
  <2>5. OnCourse(p)'
    BY <2>1, <2>2, <2>3, <2>4
       DEF OnCourse, Mine, Suits, Making, Publishing, Using, ByTool
  <2>6. Locked(p)'
    BY <2>1, <2>2, <2>3, <2>4
       DEF Locked, Mine, Suits, Making, Publishing, Using, ByTool
  <2>7. Sees(p)'
    BY <2>1, <2>2, <2>3, <2>4
       DEF Sees, Mine, Suits, Making, Publishing, Using, ByTool
  <2>. QED BY <2>5, <2>6, <2>7 DEF Local
<1>19. CASE Mounts(p)
  <2>1. OnCourse(p) /\ Locked(p) /\ Sees(p) /\ pc[p] = "mount"
    BY <1>19 DEF Mounts, Local
  <2>2. img[p] \in Images
    BY <2>1 DEF OnCourse, Making, Publishing, Using, Images
  <2>3. /\ pc'[p] = "build" /\ op'[p] = op[p] /\ img'[p] = img[p] /\ want'[p] = want[p]
        /\ held'[p] = {<<img[p], "S">>} /\ UNCHANGED <<content, base>>
    BY <1>19, <2>1, <2>2 DEF Mounts, OnCourse, Locked, Mine, Making, Publishing, Using
  <2>4. \A d, e \in want'[p] : d[1] = e[1] => d = e
    BY <2>1, <2>3 DEF OnCourse
  <2>5. OnCourse(p)'
    BY <2>1, <2>2, <2>3, <2>4
       DEF OnCourse, Mine, Suits, Making, Publishing, Using, ByTool
  <2>6. Locked(p)'
    BY <2>1, <2>2, <2>3, <2>4
       DEF Locked, Mine, Suits, Making, Publishing, Using, ByTool
  <2>7. Sees(p)'
    BY <2>1, <2>2, <2>3, <2>4
       DEF Sees, Mine, Suits, Making, Publishing, Using, ByTool
  <2>. QED BY <2>5, <2>6, <2>7 DEF Local
<1>20. CASE Opens(p)
  <2>1. OnCourse(p) /\ Locked(p) /\ Sees(p) /\ pc[p] = "open"
    BY <1>20 DEF Opens, Local
  <2>2. /\ op'[p] = op[p] /\ img'[p] = img[p] /\ want'[p] = want[p] /\ img[p] # 0
        /\ held'[p] = {<<img[p], "X">>} /\ UNCHANGED <<row, list, content>> /\ row[img[p]] = "there"
    BY <1>20, <2>1 DEF Opens, OnCourse, Locked
  <2>3. \/ pc'[p] = "snap" /\ op[p] = "publish" /\ list[img[p]] = content[img[p]]
        \/ pc'[p] = "unlist" /\ op[p] = "unpublish"
    BY <1>20 DEF Opens
  <2>4. \A d, e \in want'[p] : d[1] = e[1] => d = e
    BY <2>1, <2>2 DEF OnCourse
  <2>5. OnCourse(p)'
    BY <2>1, <2>2, <2>3, <2>4
       DEF OnCourse, Mine, Suits, Making, Publishing, Using, ByTool
  <2>6. Locked(p)'
    BY <2>1, <2>2, <2>3, <2>4
       DEF Locked, Mine, Suits, Making, Publishing, Using, ByTool
  <2>7. Sees(p)'
    BY <2>1, <2>2, <2>3, <2>4
       DEF Sees, Mine, Suits, Making, Publishing, Using, ByTool
  <2>. QED BY <2>5, <2>6, <2>7 DEF Local
<1>21. CASE Unlists(p)
  BY <1>21, OverIsLocal DEF Unlists
<1>22. CASE RemoveRoBase(p)
  BY <1>22, OverIsLocal DEF RemoveRoBase
<1>23. CASE Delists(p)
  <2>1. OnCourse(p) /\ Locked(p) /\ Sees(p) /\ pc[p] = "delist"
    BY <1>23 DEF Delists, Local
  <2>2. /\ pc'[p] = "delete" /\ UNCHANGED <<op, img, want, held, todo>>
    BY <1>23 DEF Delists
  <2>3. Keeps(p)' <=> Keeps(p)
    BY <2>2 DEF Keeps, Found
  <2>4. \A d, e \in want'[p] : d[1] = e[1] => d = e
    BY <2>1, <2>2 DEF OnCourse
  <2>5. OnCourse(p)'
    BY <2>1, <2>2, <2>3, <2>4
       DEF OnCourse, Mine, Suits, Making, Publishing, Using, ByTool
  <2>6. Locked(p)'
    BY <2>1, <2>2, <2>3, <2>4
       DEF Locked, Mine, Suits, Making, Publishing, Using, ByTool
  <2>7. Sees(p)'
    BY <2>1, <2>2, <2>3, <2>4
       DEF Sees, Mine, Suits, Making, Publishing, Using, ByTool
  <2>. QED BY <2>5, <2>6, <2>7 DEF Local
<1>24. CASE DeleteRow(p)
  <2>1. OnCourse(p) /\ Locked(p) /\ Sees(p) /\ pc[p] = "delete"
    BY <1>24 DEF DeleteRow, Local
  <2>2. img[p] \in Images
    BY <2>1 DEF OnCourse, Images
  <2>3. /\ pc'[p] = "purge" /\ UNCHANGED <<op, img, want, todo, available>> /\ row'[img[p]] = "none"
        /\ held'[p] = held[p] \cup {<<img[p], "X">>} /\ img[p] \notin available
    BY <1>24, <2>2 DEF DeleteRow
  <2>4. ByTool(p) => Keeps(p)'
    BY <2>1, <2>3 DEF Locked, Keeps, Found
  <2>5. held[p] \subseteq Mine(p, "S+") \cup Read
    BY <2>1 DEF Locked, ByTool
  <2>6. \A d, e \in want'[p] : d[1] = e[1] => d = e
    BY <2>1, <2>3 DEF OnCourse
  <2>7. OnCourse(p)'
    BY <2>1, <2>2, <2>3, <2>4, <2>5, <2>6
       DEF OnCourse, Mine, Suits, Making, Publishing, Using, ByTool
  <2>8. Locked(p)'
    BY <2>1, <2>2, <2>3, <2>4, <2>5, <2>6
       DEF Locked, Mine, Suits, Making, Publishing, Using, ByTool
  <2>9. Sees(p)'
    BY <2>1, <2>2, <2>3, <2>4, <2>5, <2>6
       DEF Sees, Mine, Suits, Making, Publishing, Using, ByTool
  <2>. QED BY <2>7, <2>8, <2>9 DEF Local
<1>25. CASE Purges(p)
  <2>1. CASE Over(p)
    BY <2>1, OverIsLocal
  <2>2. CASE ~Over(p)
    <3>1. OnCourse(p) /\ Locked(p) /\ pc[p] = "purge"
      BY <1>25 DEF Purges, Local
    <3>2. /\ pc'[p] = "pick" /\ UNCHANGED <<op, img, want, todo>> /\ op[p] \in Tools
          /\ held'[p] = held[p] \ {<<img[p], "X">>, <<img[p], "S+">>}
      BY <1>25, <2>2 DEF Purges, ByTool
    <3>3. Found(p)' \subseteq held'[p]
      BY <3>1, <3>2 DEF Locked, Keeps, Found, ByTool
    <3>4. held'[p] \subseteq Read
      BY <3>1, <3>2 DEF Locked, Mine
    <3>5. OnCourse(p)'
      BY <3>1, <3>2 DEF OnCourse, Making, Publishing, Using
    <3>6. Locked(p)'
      BY <3>2, <3>3, <3>4 DEF Locked, Read, Making, Publishing, Using
    <3>7. Sees(p)'
      BY <3>2 DEF Sees, Making, Publishing, Using
    <3>. QED BY <3>5, <3>6, <3>7 DEF Local
  <2>. QED BY <2>1, <2>2
<1>26. CASE Evaluates(p)
  <2>1. OnCourse(p) /\ Locked(p) /\ Sees(p) /\ pc[p] = "evaluate"
    BY <1>26 DEF Evaluates, Local
  <2>2. UNCHANGED <<pc, op, want>>
    BY <1>26 DEF Evaluates
  <2>3. Least(todo[p]) \in Images
    <3>1. todo[p] \in SUBSET Nat /\ todo[p] \subseteq Images /\ todo[p] # {}
      BY <1>26 DEF Evaluates, ProcsTyped, Images
    <3>. QED BY <3>1, LeastIsLeast
  <2>4. held'[p] \subseteq held[p] \cup {<<Least(todo[p]), "S">>}
    BY <1>26 DEF Evaluates
  <2>5. held'[p] \subseteq Read
    BY <2>1, <2>3, <2>4, ReadLocks DEF Locked
  <2>6. \A d, e \in want'[p] : d[1] = e[1] => d = e
    BY <2>1, <2>2 DEF OnCourse
  <2>7. OnCourse(p)'
    BY <2>1, <2>2, <2>3, <2>4, <2>5, <2>6
       DEF OnCourse, Mine, Suits, Making, Publishing, Using, ByTool
  <2>8. Locked(p)'
    BY <2>1, <2>2, <2>3, <2>4, <2>5, <2>6
       DEF Locked, Mine, Suits, Making, Publishing, Using, ByTool
  <2>9. Sees(p)'
    BY <2>1, <2>2, <2>3, <2>4, <2>5, <2>6
       DEF Sees, Mine, Suits, Making, Publishing, Using, ByTool
  <2>. QED BY <2>7, <2>8, <2>9 DEF Local
<1>27. CASE Evaluated(p)
  <2>1. OnCourse(p) /\ Locked(p) /\ Sees(p) /\ pc[p] = "evaluate"
    BY <1>27 DEF Evaluated, Local
  <2>2. /\ pc'[p] = "pick" /\ UNCHANGED <<op, img, want, held>>
        /\ todo'[p] = {i \in Images : <<i, "S">> \in held[p]} \ {img[p]}
    BY <1>27 DEF Evaluated
  <2>3. held'[p] \subseteq Read /\ Found(p)' \subseteq held'[p]
    <3>1. held'[p] = held[p] /\ held[p] \subseteq Read
      BY <2>1, <2>2 DEF Locked
    <3>2. \A i \in todo'[p] : <<i, "S">> \in held[p]
      BY <2>2
    <3>3. Found(p)' = {<<i, "S">> : i \in todo'[p]}
      BY DEF Found
    <3>. QED BY <3>1, <3>2, <3>3
  <2>4. \A d, e \in want'[p] : d[1] = e[1] => d = e
    BY <2>1, <2>2 DEF OnCourse
  <2>5. OnCourse(p)'
    BY <2>1, <2>2, <2>3, <2>4
       DEF OnCourse, Mine, Suits, Making, Publishing, Using, ByTool
  <2>6. Locked(p)'
    BY <2>1, <2>2, <2>3, <2>4
       DEF Locked, Mine, Suits, Making, Publishing, Using, ByTool
  <2>7. Sees(p)'
    BY <2>1, <2>2, <2>3, <2>4
       DEF Sees, Mine, Suits, Making, Publishing, Using, ByTool
  <2>. QED BY <2>5, <2>6, <2>7 DEF Local
<1>28. CASE Picks(p)
  <2>1. OnCourse(p) /\ Locked(p) /\ pc[p] = "pick"
    BY <1>28 DEF Picks, Local
  <2>2. PICK i \in Images : i = Greatest(todo[p]) /\ i \in todo[p] /\ \A j \in todo[p] : j <= i
    <3>1. todo[p] \in SUBSET Images /\ todo[p] # {}
      BY <1>28 DEF Picks
    <3>. QED BY <3>1, GreatestIsGreatest
  <2>3. /\ pc'[p] = "flatten" /\ img'[p] = i /\ UNCHANGED <<op, want>>
        /\ held'[p] = held[p] \cup {<<i, "S+">>} /\ todo'[p] = todo[p] \ {i}
    BY <1>28, <2>2 DEF Picks
  <2>4. Keeps(p)'
    <3>1. Found(p)' \subseteq held'[p]
      <4>1. Found(p) \subseteq held[p]
        BY <2>1 DEF Locked
      <4>2. Found(p)' = {<<j, "S">> : j \in todo[p] \ {i}}
        BY <2>3 DEF Found
      <4>. QED BY <2>3, <4>1, <4>2 DEF Found
    <3>2. \A j \in todo'[p] : j < i
      <4>1. \A j \in todo'[p] : j \in todo[p] /\ j # i /\ j \in Images
        BY <2>3
      <4>. QED BY <2>2, <4>1 DEF Images
    <3>. QED BY <2>3, <3>1, <3>2 DEF Keeps
  <2>5. OnCourse(p)'
    BY <2>1, <2>2, <2>3 DEF OnCourse, Images, Making, Publishing, Using
  <2>6. Locked(p)'
    BY <2>1, <2>3, <2>4 DEF Locked, Mine, Making, Publishing, Using
  <2>7. Sees(p)'
    BY <2>3 DEF Sees, Making, Publishing, Using
  <2>. QED BY <2>5, <2>6, <2>7 DEF Local
<1>29. CASE FlattenChild(p)
  <2>1. OnCourse(p) /\ Locked(p) /\ pc[p] = "flatten"
    BY <1>29 DEF FlattenChild, Local
  <2>2. UNCHANGED <<pc, op, img, todo, want, held>>
    BY <1>29 DEF FlattenChild
  <2>3. OnCourse(p)'
    BY <2>1, <2>2 DEF OnCourse
  <2>4. Locked(p)'
    BY <2>1, <2>2 DEF Locked, Mine, Found, Keeps, ByTool
  <2>5. Sees(p)'
    BY <2>1, <2>2 DEF Sees, Making, Publishing, Using
  <2>. QED BY <2>3, <2>4, <2>5 DEF Local
<1>30. CASE Flattened(p)
  <2>1. OnCourse(p) /\ Locked(p) /\ Sees(p) /\ pc[p] = "flatten"
    BY <1>30 DEF Flattened, Local
  <2>2. /\ pc'[p] = "delist" /\ UNCHANGED <<op, img, want, todo>>
        /\ held'[p] = held[p] \ {<<img[p], "S">>}
    BY <1>30 DEF Flattened
  <2>3. Keeps(p)'
    <3>1. \A i \in todo[p] : i # img[p]
      BY <2>1 DEF Locked, Keeps
    <3>. QED BY <2>1, <2>2, <3>1 DEF Locked, Keeps, Found
  <2>4. Mine(p, "S+") \subseteq held'[p] /\ held'[p] \subseteq Mine(p, "S+") \cup Read
    BY <2>1, <2>2 DEF Locked, Mine
  <2>5. op[p] \in Tools /\ img[p] # 0
    BY <2>1 DEF OnCourse
  <2>6. \A d, e \in want'[p] : d[1] = e[1] => d = e
    BY <2>1, <2>2 DEF OnCourse
  <2>7. OnCourse(p)'
    BY <2>1, <2>2, <2>3, <2>4, <2>5, <2>6
       DEF OnCourse, Mine, Suits, Making, Publishing, Using, ByTool
  <2>8. Locked(p)'
    BY <2>1, <2>2, <2>3, <2>4, <2>5, <2>6
       DEF Locked, Mine, Suits, Making, Publishing, Using, ByTool
  <2>9. Sees(p)'
    BY <2>1, <2>2, <2>3, <2>4, <2>5, <2>6
       DEF Sees, Mine, Suits, Making, Publishing, Using, ByTool
  <2>. QED BY <2>7, <2>8, <2>9 DEF Local
<1>31. CASE Fails(p)
  BY <1>31, OverIsLocal DEF Fails
<1>32. CASE Quits(p)
  BY <1>32, Quitting, OverIsLocal DEF Closed
<1>. QED
  BY <1>1, <1>2, <1>3, <1>4, <1>5, <1>6, <1>7, <1>8, <1>9, <1>10, <1>11, <1>12, <1>13,
     <1>14, <1>15, <1>16, <1>17, <1>18, <1>19, <1>20, <1>21, <1>22, <1>23, <1>24, <1>25,
     <1>26, <1>27, <1>28, <1>29, <1>30, <1>31, <1>32
     DEF Starts, Continues, Quits

-----------------------------------------------------------------------------
(* The invariant is inductive.                                             *)

\* At first the old images are all that there is, and nobody does anything.
LEMMA Initially ==
  ASSUME Init
  PROVE  IInv
<1> DEFINE Old == DOMAIN OldImages
<1>1. PICK n \in 0 .. MaxImages : Old = 1 .. n
  BY RootfsAssumption
<1>2. n \in Nat /\ Cardinality(Old) = n /\ Old \subseteq Images
  <2>1. n \in Nat /\ n <= MaxImages
    BY RootfsAssumption
  <2>2. Cardinality(1 .. n) = n
    <3>1. n - 1 + 1 = n
      BY <2>1
    <3>2. Cardinality(1 .. n) = IF 1 > n THEN 0 ELSE n - 1 + 1
      BY <2>1, FS_Interval
    <3>. QED BY <2>1, <3>1, <3>2
  <2>. QED BY <1>1, <2>1, <2>2, RootfsAssumption DEF Images
<1>3. \A i \in Old : OldImages[i].list \in Some /\ OldImages[i].parent \in 0 .. MaxImages
  <2> SUFFICES ASSUME NEW i \in Old
               PROVE  OldImages[i].list \in Some /\ OldImages[i].parent \in 0 .. MaxImages
    OBVIOUS
  <2>1. IsFiniteSet(OldImages[i].list) /\ OldImages[i].parent \in {0} \cup Old
    BY RootfsAssumption
  <2>2. OldImages[i].list \subseteq Packages
    <3>1. OldImages[i].list \in OldLists
      BY DEF OldLists
    <3>2. UNION OldLists \subseteq Packages
      BY DEF Packages
    <3>. QED BY <3>1, <3>2
  <2>3. OldImages[i].list \in Some
    BY <2>1, <2>2 DEF Some
  <2>4. OldImages[i].parent \in 0 .. MaxImages
    <3>1. MaxImages \in Nat
      BY RootfsAssumption
    <3>2. 0 \in 0 .. MaxImages /\ Images \subseteq 0 .. MaxImages
      BY <3>1 DEF Images
    <3>. HIDE DEF Old
    <3>. QED BY <1>2, <2>1, <3>2
  <2>. QED BY <2>3, <2>4
<1>. HIDE DEF Old
<1>4. /\ row = [i \in Images |-> IF i \in Old THEN "there" ELSE "none"]
      /\ list = [i \in Images |-> IF i \in Old THEN OldImages[i].list ELSE {}]
      /\ parent = [i \in Images |-> IF i \in Old THEN OldImages[i].parent ELSE 0]
      /\ base = [i \in Images |-> IF i \in Old THEN "protected" ELSE "none"]
      /\ available = Old /\ rbd = Old /\ content = list
      /\ pc = [p \in Procs |-> "idle"] /\ op = pc /\ img = [p \in Procs |-> 0]
      /\ todo = [p \in Procs |-> {}] /\ kids = todo /\ want = todo
      /\ mounted = [p \in Procs |-> FALSE] /\ held = [p \in Procs |-> {}]
      /\ made = Cardinality(Old)
  BY DEF Init, L!NoLocks, Old
<1>5. DataTyped
  BY <1>2, <1>3, <1>4, SomeOfThem, RootfsAssumption DEF DataTyped, Rows, Bases
<1>6. ProcsTyped
  BY <1>4, SomeOfThem, RootfsAssumption DEF ProcsTyped, Places
<1>7. made \in 0 .. MaxImages
  BY <1>2, <1>4
<1>8. Exclusive
  BY <1>4 DEF Exclusive, L!Holds
<1>9. Unmade
  <2>1. \A i \in available \cup rbd : i <= made
    BY <1>1, <1>2, <1>4
  <2>2. \A p \in Procs : img[p] <= made /\ held[p] = {}
    BY <1>2, <1>4
  <2>3. \A i \in Images : row[i] # "none" => i \in rbd
    BY <1>4
  <2>. QED BY <2>1, <2>2, <2>3 DEF Unmade, L!Holds
<1>10. AvailableUsable
  BY <1>2, <1>4 DEF AvailableUsable
<1>11. ASSUME NEW p \in Procs PROVE Local(p)
  BY <1>4 DEF Local, OnCourse, Locked, Sees, Making, Publishing, Using
<1>. QED BY <1>5, <1>6, <1>7, <1>8, <1>9, <1>10, <1>11 DEF IInv, TypeOK

\* Every step preserves it.
LEMMA Preserved ==
  ASSUME IInv, [Next]_vars
  PROVE  IInv'
<1>1. TypeOK'
  BY Typed DEF IInv, Local
<1>2. ASSUME NEW p \in Procs, Starts(p) \/ Continues(p) \/ Fails(p)
      PROVE  IInv'
  <2>1. Alone(p)
    BY <1>2, StepsAlone
  <2>2. Careful(p)
    BY <1>2, StepsAreCareful
  <2>3. Exclusive'
    <3>1. Fair(p)
      BY <1>2, StepsAreFair
    <3>. QED BY <3>1, FairIsExclusive DEF IInv
  <2>4. Unmade'
    <3>1. Known(p)
      BY <1>2, StepsStayKnown
    <3>. QED BY <1>1, <2>1, <3>1, UnmadeStays
  <2>5. AvailableUsable'
    BY <1>1, <2>2, ListedStaysUsable DEF TypeOK, DataTyped
  <2>6. ASSUME NEW q \in Procs PROVE Local(q)'
    <3>1. CASE q = p
      BY <1>2, <3>1, StepsStayLocal
    <3>2. CASE q # p
      BY <2>1, <2>2, <3>2, OthersSee
    <3>. QED BY <3>1, <3>2
  <2>. QED BY <1>1, <2>3, <2>4, <2>5, <2>6 DEF IInv
<1>3. CASE UNCHANGED vars
  <2>. USE <1>3 DEF vars, dbVars, cephVars, procVars, counters, IInv
  <2>1. Exclusive' /\ Unmade' /\ AvailableUsable'
    BY DEF Exclusive, Unmade, AvailableUsable, L!Holds
  <2>2. ASSUME NEW p \in Procs PROVE Local(p)'
    <3>1. OnCourse(p) /\ Locked(p) /\ Sees(p)
      BY DEF Local
    <3>2. OnCourse(p)'
      BY <3>1 DEF OnCourse
    <3>3. Locked(p)'
      BY <3>1 DEF Locked, Mine, Found, Keeps, ByTool
    <3>4. Sees(p)'
      BY <3>1 DEF Sees, Suits
    <3>. QED BY <3>2, <3>3, <3>4 DEF Local
  <2>. QED BY <1>1, <2>1, <2>2
<1>. QED BY <1>2, <1>3 DEF Next

\* What the other theorems follow from: what is known of the images and who has which locks.
THEOREM Inductive == Spec => []IInv
<1>1. Init => IInv
  BY Initially
<1>2. IInv /\ [Next]_vars => IInv'
  BY Preserved
<1>. QED BY <1>1, <1>2, PTL DEF Spec

\* All variables have their types, whatever images there are at first.
THEOREM TypeCorrect == Spec => []TypeOK
<1>1. IInv => TypeOK
  BY DEF IInv
<1>. QED BY <1>1, Inductive, PTL

\* Listed images are usable: what cow_clone_image, publish, unpublish and delete_image do to
\* them in several steps, under different locks, never lets a listed image be without its
\* row, its rbd image, its ro_base or the packages that the database says it has.
THEOREM ListedIsUsable == Spec => []AvailableUsable
<1>1. IInv => AvailableUsable
  BY DEF IInv
<1>. QED BY <1>1, Inductive, PTL

\* Builds run in suitable images: what build_package has found or cloned and published has
\* the packages that it needs, and cannot be written to, until it is done with it, whatever
\* other builds, operators and tools do meanwhile and whoever dies.
THEOREM BuildsRunInSuitableImages == Spec => []BuildEnvironment
<1>1. IInv => BuildEnvironment
  BY DEF IInv, Local, Sees, Suits, Using, BuildEnvironment
<1>. QED BY <1>1, Inductive, PTL

-----------------------------------------------------------------------------
(* Processes that wait for each other.                                     *)

\* What those have locked who wait for somebody.
LEMMA WaitingWith ==
  ASSUME IInv, NEW q \in Procs, Wanted(q) # {}, NEW l, NEW m, L!Holds(q, l, m)
  PROVE  \/ pc[q] = "chosen" /\ l = Avail /\ m = "S"
         \/ pc[q] \in {"list", "unlist"} /\ l = img[q] /\ m = "X" /\ l # Avail
         \/ pc[q] \in {"clone", "evaluate", "pick"} /\ l # Avail /\ m = "S"
         \/ pc[q] \in {"flatten", "reopen"} /\ l # Avail /\ m \in {"S", "S+"}
         \/ /\ pc[q] \in {"delist", "delete"} /\ ByTool(q) /\ l # Avail
            /\ (l = img[q] /\ m = "S+") \/ m = "S"
<1>1. OnCourse(q) /\ Locked(q) /\ <<l, m>> \in held[q]
  BY DEF IInv, Local, L!Holds
<1>2. \A lock \in Read : lock[1] # Avail /\ lock[2] = "S"
  BY DEF Read, Images, Avail
<1> DEFINE lock == <<l, m>>
<1>3. lock \in held[q] /\ lock[1] = l /\ lock[2] = m
  BY <1>1
<1>4. pc[q] \in Places
  BY DEF IInv, TypeOK, ProcsTyped
<1>5. pc[q] \in {"list", "unlist", "delist", "find", "clone", "chosen", "reopen", "open", "delete",
                 "evaluate", "pick", "flatten"}
  BY <1>4, OthersWantNothing DEF Places, Making, Publishing, Using
<1>6. CASE pc[q] \in {"find", "open"}
  BY <1>1, <1>6 DEF Locked
<1>7. CASE pc[q] = "chosen"
  BY <1>1, <1>7 DEF Locked
<1>8. CASE pc[q] \in {"list", "unlist"}
  BY <1>1, <1>8 DEF Locked, OnCourse, Mine, Publishing, Avail
<1>9. CASE pc[q] \in {"clone", "reopen"}
  BY <1>1, <1>9 DEF Locked, OnCourse, Mine, Avail
<1>10. CASE pc[q] \in {"evaluate", "pick"}
  <2>1. lock \in Read
    BY <1>1, <1>10 DEF Locked
  <2>. QED BY <1>2, <1>3, <1>10, <2>1
<1>11. CASE pc[q] = "flatten"
  <2>1. lock \in Mine(q, "S+") \cup Read /\ img[q] # Avail
    BY <1>1, <1>11 DEF Locked, OnCourse, Avail
  <2>2. lock \in Mine(q, "S+") => l = img[q] /\ m = "S+"
    BY DEF Mine
  <2>3. lock \in Read => l # Avail /\ m = "S"
    BY <1>2, <1>3
  <2>. HIDE DEF lock
  <2>. QED BY <1>11, <2>1, <2>2, <2>3
<1>12. CASE pc[q] \in {"delist", "delete"}
  <2>1. ByTool(q) /\ lock \in Mine(q, "S+") \cup Read /\ img[q] # Avail
    BY <1>1, <1>12 DEF Locked, OnCourse, Avail
  <2>2. lock \in Mine(q, "S+") => l = img[q] /\ m = "S+"
    BY DEF Mine
  <2>3. lock \in Read => l # Avail /\ m = "S"
    BY <1>2, <1>3
  <2>. HIDE DEF lock
  <2>. QED BY <1>12, <2>1, <2>2, <2>3
<1>. QED BY <1>5, <1>6, <1>7, <1>8, <1>9, <1>10, <1>11, <1>12

\* Whom a process waits for has a lock that does not go with one that it wants.
LEMMA Blocking ==
  ASSUME NEW p, NEW q \in WaitsFor(p)
  PROVE  /\ q \in Procs \ {p}
         /\ \E w \in Wanted(p), m \in L!Modes :
              L!Holds(q, w[1], m) /\ <<w[2], m>> \notin L!Compatible
BY DEF WaitsFor, L!InTheWay

\* There are three ways for the locks to come to a standstill: processes that wait for each
\* other are kept by a find_image that has chosen what is to be listed or taken off the list,
\* by two of the tools that have found the same image, or by one that deletes what another
\* has looked at last.
LEMMA ThreeWays ==
  ASSUME IInv, NEW D \in SUBSET Procs, Deadlocked(D),
         \A p, q \in D : /\ ~FindsWhatIsListed(p, q) /\ ~BothDelete(p, q)
                         /\ ~LastStaysLocked(p, q)
  PROVE  FALSE
<1>1. ASSUME NEW p \in D
      PROVE  \E q \in D \ {p}, w \in Wanted(p), m \in L!Modes :
               L!Holds(q, w[1], m) /\ <<w[2], m>> \notin L!Compatible
  <2>1. PICK q \in D : q \in WaitsFor(p)
    BY DEF Deadlocked
  <2>. QED BY <2>1, Blocking
<1>2. \A p \in D : Wanted(p) # {}
  BY <1>1
<1>3. \A p \in D : p \in Procs /\ pc[p] \in Places
  BY DEF IInv, TypeOK, ProcsTyped
<1>4. \A p \in D : pc[p] \in {"list", "unlist", "delist", "find", "clone", "chosen", "reopen",
                              "open", "delete", "evaluate", "pick", "flatten"}
  BY <1>2, <1>3, OthersWantNothing DEF Places, Making, Publishing, Using
<1>5. /\ \A m \in L!Modes : <<"S", m>> \notin L!Compatible => m = "X"
      /\ \A m \in L!Modes : <<"S+", m>> \notin L!Compatible => m \in {"S+", "X"}
  BY DEF L!Modes, L!Compatible
\* Whoever wants to read is kept by one who wants to change the list.
<1>6. ASSUME NEW p \in D, \A w \in Wanted(p) : w[2] = "S"
      PROVE  \E q \in D, w \in Wanted(p) :
               pc[q] \in {"list", "unlist"} /\ w[1] = img[q] /\ w[1] # Avail
  <2>1. PICK q \in D, w \in Wanted(p), m \in L!Modes :
          L!Holds(q, w[1], m) /\ <<w[2], m>> \notin L!Compatible
    BY <1>1
  <2>2. m = "X" /\ L!Holds(q, w[1], "X") /\ Wanted(q) # {}
    BY <1>2, <1>5, <1>6, <2>1
  <2>3. pc[q] \in {"list", "unlist"} /\ w[1] = img[q] /\ w[1] # Avail
    BY <1>3, <2>2, WaitingWith
  <2>. QED BY <2>3
\* find_image
<1>7. \A p \in D : pc[p] \notin {"find", "clone"}
  <2> SUFFICES ASSUME NEW p \in D, pc[p] \in {"find", "clone"} PROVE FALSE
    OBVIOUS
  <2>1. Wanted(p) = {<<Avail, "S">>}
    BY WantsList
  <2>2. \A w \in Wanted(p) : w[1] = Avail /\ w[2] = "S"
    BY <2>1
  <2>. QED BY <1>6, <2>2
<1>8. \A p \in D : pc[p] # "chosen"
  <2> SUFFICES ASSUME NEW p \in D, pc[p] = "chosen" PROVE FALSE
    OBVIOUS
  <2>1. Wanted(p) = {<<img[p], "S">>}
    BY WantsImage
  <2>2. \A w \in Wanted(p) : w[1] = img[p] /\ w[2] = "S"
    BY <2>1
  <2>3. PICK q \in D : pc[q] \in {"list", "unlist"} /\ img[p] = img[q]
    BY <1>6, <2>2
  <2>. QED BY <2>3 DEF FindsWhatIsListed
\* Nobody keeps those from the list who want to change it.
<1>9. \A p \in D : pc[p] \notin {"list", "unlist", "delist"}
  <2> SUFFICES ASSUME NEW p \in D, pc[p] \in {"list", "unlist", "delist"} PROVE FALSE
    OBVIOUS
  <2>1. Wanted(p) = {<<Avail, "X">>}
    BY WantsList
  <2>2. \A w \in Wanted(p) : w[1] = Avail
    BY <2>1
  <2>3. PICK q \in D, w \in Wanted(p), m \in L!Modes : L!Holds(q, w[1], m)
    BY <1>1
  <2>4. L!Holds(q, Avail, m)
    BY <2>2, <2>3
  <2>. QED BY <1>2, <1>3, <1>8, <2>4, WaitingWith
\* Nobody keeps those from an image who want to read it.
<1>10. \A p \in D : pc[p] \notin {"reopen", "evaluate", "flatten"}
  <2> SUFFICES ASSUME NEW p \in D, pc[p] \in {"reopen", "evaluate", "flatten"} PROVE FALSE
    OBVIOUS
  <2>1. \A w \in Wanted(p) : w[2] = "S"
    <3>1. CASE pc[p] = "reopen"
      <4>1. Wanted(p) = {<<img[p], "S">>}
        BY <3>1, WantsImage
      <4>. QED BY <4>1
    <3>2. CASE pc[p] = "evaluate"
      BY <1>2, <3>2, ToolsWant
    <3>3. CASE pc[p] = "flatten"
      BY <3>3, ToolsWant
    <3>. QED BY <3>1, <3>2, <3>3
  <2>. QED BY <1>6, <1>9, <2>1
<1>11. \A p \in D : pc[p] \in {"open", "delete", "pick"}
  BY <1>4, <1>7, <1>8, <1>9, <1>10
\* What a tool wants next another tool has, which deletes it.
<1>12. \A p \in D : pc[p] # "pick"
  <2> SUFFICES ASSUME NEW p \in D, pc[p] = "pick" PROVE FALSE
    OBVIOUS
  <2>1. PICK i : todo[p] # {} /\ i = Greatest(todo[p]) /\ Wanted(p) = {<<i, "S+">>}
    BY <1>2, ToolsWant
  <2>2. i \in todo[p]
    <3>1. todo[p] \in SUBSET Images
      BY <1>3 DEF IInv, TypeOK, ProcsTyped
    <3>. QED BY <2>1, <3>1, GreatestIsGreatest
  <2>3. L!Holds(p, i, "S") /\ p \in D
    BY <1>3, <2>2 DEF IInv, Local, Locked, Found, L!Holds
  <2>4. \A w \in Wanted(p) : w[1] = i /\ w[2] = "S+"
    BY <2>1
  <2>5. PICK q \in D, m \in L!Modes : L!Holds(q, i, m) /\ <<"S+", m>> \notin L!Compatible
    <3>1. PICK q \in D, w \in Wanted(p), m \in L!Modes :
            L!Holds(q, w[1], m) /\ <<w[2], m>> \notin L!Compatible
      BY <1>1
    <3>. QED BY <2>4, <3>1
  <2>6. pc[q] = "delete" /\ ByTool(q) /\ i = img[q]
    <3>1. Wanted(q) # {} /\ pc[q] \in {"open", "delete", "pick"} /\ m \in {"S+", "X"}
      BY <1>2, <1>5, <1>11, <2>5
    <3>. QED BY <1>3, <2>5, <3>1, WaitingWith
  <2>. QED BY <2>3, <2>6 DEF BothDelete
\* The tools that delete wait for those that are to delete the image too, later, and now
\* delete one with a greater number.
<1> DEFINE T == {p \in D : pc[p] = "delete" /\ ByTool(p)}
           N == {img[p] : p \in T}
<1>13. ASSUME NEW p \in D
       PROVE  \E q \in T \ {p}, w \in Wanted(p) :
                (w[1] = img[q] /\ L!Holds(q, w[1], "S+")) \/ L!Holds(q, w[1], "S")
  <2>1. PICK q \in D \ {p}, w \in Wanted(p), m \in L!Modes : L!Holds(q, w[1], m)
    BY <1>1
  <2>2. Wanted(q) # {} /\ pc[q] \in {"open", "delete"}
    BY <1>2, <1>11, <1>12
  <2>3. /\ pc[q] = "delete" /\ ByTool(q)
        /\ (w[1] = img[q] /\ m = "S+") \/ m = "S"
    BY <1>3, <2>1, <2>2, WaitingWith
  <2>. QED BY <2>1, <2>3
<1>14. N \in SUBSET Images /\ N # {}
  <2>1. T # {}
    BY <1>13 DEF Deadlocked
  <2>2. \A p \in T : img[p] \in Images
    BY <1>3 DEF IInv, Local, OnCourse, TypeOK, ProcsTyped, Images
  <2>. QED BY <2>1, <2>2
<1>15. PICK p \in T : \A q \in T : img[q] <= img[p]
  <2>1. Greatest(N) \in N /\ \A n \in N : n <= Greatest(N)
    <3>. HIDE DEF N
    <3>. QED BY <1>14, GreatestIsGreatest
  <2>. QED BY <2>1
<1>16. \A w \in Wanted(p) : w[1] = img[p]
  <2>1. op[p] # "rmbase"
    BY <1>15 DEF ByTool, Tools
  <2>2. Wanted(p) = {<<img[p], "X">>}
    BY <1>15, <2>1, WantsImage
  <2>. QED BY <2>2
<1>17. PICK q \in T \ {p} : (img[p] = img[q] /\ L!Holds(q, img[p], "S+")) \/ L!Holds(q, img[p], "S")
  BY <1>13, <1>15, <1>16
<1>18. img[p] \in Images /\ img[q] \in Images
  BY <1>14, <1>15, <1>17
<1>19. L!Holds(q, img[p], "S+")
  <2> SUFFICES ASSUME L!Holds(q, img[p], "S") PROVE FALSE
    BY <1>17
  <2>1. img[p] \in todo[q]
    BY <1>15, <1>17 DEF LastStaysLocked
  <2>2. img[p] < img[q]
    BY <1>3, <1>17, <2>1 DEF IInv, Local, Locked, Keeps
  <2>3. img[p] \in Nat /\ img[q] \in Nat /\ img[q] <= img[p]
    BY <1>15, <1>17, <1>18 DEF Images
  <2>. QED BY <2>2, <2>3
<1>20. L!Holds(p, img[p], "S+")
  BY <1>3, <1>15 DEF IInv, Local, Locked, Mine, L!Holds
<1>21. <<"S+", "S+">> \in L!Compatible
  BY <1>3, <1>15, <1>17, <1>18, <1>19, <1>20, LockTypes DEF IInv, Exclusive
<1>. QED BY <1>21 DEF L!Compatible

\* Processes of the cluster wait for each other's locks on images and their list for ever
\* only in the three ways that the specification names, however many processes there are.
THEOREM NoOtherDeadlocks == Spec => []OnlyKnownDeadlocks
<1>1. IInv => OnlyKnownDeadlocks
  BY ThreeWays DEF OnlyKnownDeadlocks
<1>. QED BY <1>1, Inductive, PTL

=============================================================================
