------------------------ MODULE BuildCluster_proofs ------------------------
(***************************************************************************)
(* What the controller relies on when it hears of a build node: the        *)
(* reports are those that its own model admits, a verdict is about the     *)
(* build at hand, and the node has one build of the master's at a time.    *)
(*                                                                         *)
(* The argument looks at the trail: all that the proxy may still learn, in *)
(* the order in which it will: the messages in transit, then the state of  *)
(* the node.  The places where a package of the master's appears in it are *)
(* what the invariant speaks of.                                           *)
(***************************************************************************)
EXTENDS BuildCluster, TLAPS

-----------------------------------------------------------------------------
(* The inductive invariant.                                                *)

Reports == ReportsAbout(Names) \cup {Idle, Maintenance}
Messages == Reports \cup {Hello}
States == Reports \cup {Failed(p, "other") : p \in Names}
SlotStates == {Unused} \cup [step : {"asked", "creating", "running"} \cup Exits, pkg : Names]
Requests == Packages \cup {"identify", "get_status", "reset"}

\* What the proxy has learnt last.
Learnt == View(stored, FALSE)

Trail == Append(toMaster, node)

Own(m) == m.pkg \in Packages
OwnOf(q) == {q[k] : k \in {i \in DOMAIN q : Own(q[i])}}

\* The types of the node's variables; its state may be a failure that it cannot
\* report.
NodeTyped ==
  /\ node \in States /\ slots \in [Slots -> SlotStates]
  /\ worker_process \in Slots \cup {NoWorker}
  /\ monitors \in [Slots -> Slots \cup {NoMonitor, Created}]
  /\ subscribed \in BOOLEAN /\ toMaster \in Seq(Messages)

\* Those of the master's.  What the proxy stores is something that it can show.
MasterTyped ==
  /\ known \in BOOLEAN /\ Learnt \in Reports /\ busy \in BOOLEAN /\ building \in BOOLEAN
  /\ task \in Packages \cup {NoTask, ResetTask}
  /\ toNode \in Seq(Requests)
  /\ lastExit \in Exits \cup {"none"}

TypeOK == NodeTyped /\ MasterTyped

\* The process that worker_process refers to was started, and the state is about
\* its package until a handler changes it.  Once a worker's end is understood
\* nothing refers to it any more, unless its code has no meaning.
Started ==
  worker_process \in Slots =>
    /\ slots[worker_process].step \in {"running"} \cup Exits
    /\ node.st \in {"building", "finished", "failed"} => node.pkg = slots[worker_process].pkg
    /\ node.st \in {"finished", "failed"} =>
         node.why = "other" /\ slots[worker_process].step = "other"

\* Where an order to build may be: on its way, or taken up and not yet carried out.
Orders == {k \in DOMAIN toNode : toNode[k] \in Packages}
Live == {i \in Slots : slots[i].pkg \in Packages /\ slots[i].step \notin Exits}

\* There is one such order at a time, and only while the master waits for it.
OneOrder ==
  /\ \A k \in Orders : building /\ toNode[k] = task
  /\ \A i \in Live : building /\ slots[i].pkg = task
  /\ \A k, l \in Orders : k = l
  /\ \A i, j \in Live : i = j
  /\ Orders = {} \/ Live = {}

\* Before the worker runs nothing is said of the master's packages, and only that
\* it is being built until it ends.
Quiet ==
  /\ \A m \in OwnOf(Trail) :
       Orders = {} /\ \A i \in Live : slots[i].step = "running" /\ m.st = "building"
  /\ \A i \in Live : Own(node) => worker_process = i

\* In a sequence of messages the states of the master's builds are next to each
\* other, and verdicts come last.
Together(q) ==
  \A j, k, l \in DOMAIN q :
    (j <= k /\ k <= l /\ Own(q[j]) /\ Own(q[l])) => (Own(q[k]) \/ q[k] = Hello)
VerdictsLast(q) ==
  \A k, l \in DOMAIN q :
    (k <= l /\ Own(q[k]) /\ Own(q[l]) /\ q[k].st # "building") => q[l].st # "building"

\* The same, and nothing is in front of them.
First(q) ==
  \A k, l \in DOMAIN q : (k <= l /\ Own(q[l])) => (Own(q[k]) \/ q[k] = Hello)

\* While the master waits for a verdict, what it is going to hear of a package of
\* its own is about the one that it assigned, and agrees with its worker's end.
Waiting ==
  building =>
    /\ known /\ task \in Packages
    /\ OwnOf(Trail) \subseteq {Building(task), Outcome(task, lastExit)}
    /\ Together(Trail) /\ VerdictsLast(Trail)
    /\ busy => Learnt = Idle
    /\ worker_process \in Slots /\ Own(node) /\ slots[worker_process].step \in Exits =>
         lastExit = slots[worker_process].step

\* Otherwise it is going to hear only what it has heard already.
Settled ==
  ~building =>
    /\ OwnOf(Trail) \subseteq {Learnt}
    /\ Own(Learnt) => Learnt.st # "building"
    /\ First(Trail)

Unknown ==
  ~known => task = NoTask /\ ~busy /\ ~building /\ stored = Idle

IInv == TypeOK /\ Started /\ OneOrder /\ Quiet /\ Waiting /\ Settled /\ Unknown

-----------------------------------------------------------------------------
(* Messages.                                                               *)

\* What a message with a state looks like.
LEMMA ReportForms ==
  ASSUME NEW m \in Reports
  PROVE  \/ m = Idle \/ m = Maintenance
         \/ \E p \in Names : m = Building(p) \/ m = Finished(p)
         \/ \E p \in Names, why \in Reasons : m = Failed(p, why)
BY DEF Reports, ReportsAbout

\* An answer to `identify' is none of them, and is about no package.
LEMMA HelloIsNoReport == Hello \notin Reports /\ ~Own(Hello)
<1>1. ~Own(Hello)
  BY BuildNodeAssumption, BuildClusterAssumption DEF Own, Hello, Plain, Shows
<1>2. ASSUME Hello \in Reports PROVE FALSE
  BY <1>2, ReportForms
     DEF Hello, Idle, Maintenance, Building, Finished, Failed, Plain, Shows
<1> QED
  BY <1>1, <1>2

\* The proxy comes to show what a message says, and looks at it if it does not
\* show that yet.
LEMMA Heard ==
  ASSUME Learnt \in Reports, NEW m \in Reports
  PROVE  View(Updated(m), FALSE) = m /\ (Differs(m) <=> m # Learnt)
<1>n. /\ \A p \in Names : p # "no package"
      /\ \A why \in Reasons : why # "no reason"
  BY BuildNodeAssumption DEF Reasons
<1>s. \A a, b, c : Shows(a, b, c).st = a /\ Shows(a, b, c).pkg = b /\ Shows(a, b, c).why = c
  BY DEF Shows
<1>m. m # Hello
  BY HelloIsNoReport
<1>f. PICK st, p, why :
        /\ m = Shows(st, p, why)
        /\ \/ st \in {"idle", "maintenance"} /\ p = "no package" /\ why = "no reason"
           \/ st \in {"building", "finished"} /\ p \in Names /\ why = "no reason"
           \/ st = "failed" /\ p \in Names /\ why \in Reasons
  BY ReportForms DEF Idle, Maintenance, Building, Finished, Failed, Plain
<1>g. m.st = st /\ m.pkg = p /\ m.why = why
  BY <1>f DEF Shows
<1>u. Updated(m) = Shows(st, IF p # "no package" THEN p ELSE stored.pkg,
                         IF st = "failed" THEN why ELSE stored.why)
  BY <1>g DEF Updated, Shows
<1>v. View(Updated(m), FALSE) = m
  <2>1. CASE st \in {"idle", "maintenance"}
    <3>1. Updated(m).st = st
      BY <1>g DEF Updated
    <3> QED
      BY <3>1, <2>1, <1>f DEF View, Plain
  <2>2. CASE st \in {"building", "finished"}
    <3>1. p # "no package"
      BY <1>f, <1>n, <2>2
    <3>2. Updated(m).st = st /\ Updated(m).pkg = p
      BY <1>g, <3>1 DEF Updated
    <3> QED
      BY <3>2, <2>2, <1>f DEF View
  <2>3. CASE st = "failed"
    <3>1. Updated(m) = m
      BY <1>u, <1>f, <1>n, <2>3
    <3> QED
      BY <3>1, <1>g, <2>3 DEF View
  <2> QED
    BY <2>1, <2>2, <2>3, <1>f
<1>l. PICK st2, p2, why2 :
        /\ Learnt = Shows(st2, p2, why2) /\ stored.st = st2
        /\ \/ st2 \in {"idle", "maintenance"} /\ p2 = "no package" /\ why2 = "no reason"
           \/ /\ st2 \in {"building", "finished"} /\ p2 \in Names /\ why2 = "no reason"
              /\ stored.pkg = p2
           \/ /\ st2 = "failed" /\ p2 \in Names /\ why2 \in Reasons
              /\ stored.pkg = p2 /\ stored.why = why2
  <2>0. PICK st2, p2, why2 :
        /\ Learnt = Shows(st2, p2, why2)
        /\ \/ st2 \in {"idle", "maintenance"} /\ p2 = "no package" /\ why2 = "no reason"
           \/ st2 \in {"building", "finished"} /\ p2 \in Names /\ why2 = "no reason"
           \/ st2 = "failed" /\ p2 \in Names /\ why2 \in Reasons
    BY ReportForms DEF Idle, Maintenance, Building, Finished, Failed, Plain
  <2>x. Learnt.st = st2 /\ Learnt.pkg = p2 /\ Learnt.why = why2
    BY <2>0 DEF Shows
  <2>1. CASE stored.st \in {"idle", "maintenance"}
    <3>1. Learnt = Shows(stored.st, "no package", "no reason")
      BY <2>1 DEF View, Learnt, Plain
    <3>2. st2 = stored.st
      BY <3>1, <2>x, <1>s
    <3> QED
      BY <3>2, <2>0, <2>1
  <2>2. CASE stored.st \in {"building", "finished"}
    <3>1. Learnt = Shows(stored.st, stored.pkg, "no reason")
      BY <2>2 DEF View, Learnt
    <3>2. Learnt.st = stored.st /\ Learnt.pkg = stored.pkg
      BY <3>1 DEF Shows
    <3>3. st2 = stored.st /\ p2 = stored.pkg
      BY <3>2, <2>x
    <3> QED
      BY <3>3, <2>0, <2>2
  <2>3. CASE stored.st \notin {"idle", "maintenance", "building", "finished"}
    <3>1. Learnt = stored
      BY <2>3 DEF View, Learnt
    <3>2. st2 = stored.st /\ p2 = stored.pkg /\ why2 = stored.why
      BY <3>1, <2>x
    <3> QED
      BY <3>2, <2>0, <2>3
  <2> QED
    BY <2>1, <2>2, <2>3
<1>e. m # Learnt <=> ~(st = st2 /\ p = p2 /\ why = why2)
  BY <1>f, <1>l DEF Shows
<1>d. Differs(m) <=> (\/ st # st2
                      \/ p # "no package" /\ p # stored.pkg
                      \/ why # "no reason" /\ why # stored.why)
  BY <1>m, <1>g, <1>l DEF Differs
<1>c. Differs(m) <=> ~(st = st2 /\ p = p2 /\ why = why2)
  <2>1. CASE st \in {"idle", "maintenance"}
    BY <2>1, <1>d, <1>f, <1>l
  <2>2. CASE st \in {"building", "finished"}
    BY <2>2, <1>d, <1>f, <1>l, <1>n
  <2>3. CASE st = "failed"
    BY <2>3, <1>d, <1>f, <1>l, <1>n
  <2> QED
    BY <2>1, <2>2, <2>3, <1>f
<1> QED
  BY <1>e, <1>v, <1>c

-----------------------------------------------------------------------------
(* Sequences of messages.                                                  *)

\* All messages of r occur in q too, in the same order, or are answers to
\* `identify'.
Within(r, q) ==
  \E g \in [DOMAIN r -> DOMAIN q] :
    /\ \A k \in DOMAIN r : r[k] = q[g[k]] \/ r[k] = Hello
    /\ \A k, l \in DOMAIN r : k <= l => g[k] <= g[l]

\* No property of q is lost in r.
Keeps(r, q) ==
  /\ OwnOf(r) \subseteq OwnOf(q)
  /\ Together(q) => Together(r)
  /\ VerdictsLast(q) => VerdictsLast(r)
  /\ First(q) => First(r)

\* What holds of the messages of q holds of those within it.
LEMMA WithinKeeps ==
  ASSUME NEW r, NEW q, Within(r, q)
  PROVE  Keeps(r, q)
<1> PICK g \in [DOMAIN r -> DOMAIN q] :
      /\ \A k \in DOMAIN r : r[k] = q[g[k]] \/ r[k] = Hello
      /\ \A k, l \in DOMAIN r : k <= l => g[k] <= g[l]
  BY DEF Within
<1>h. \A k \in DOMAIN r : g[k] \in DOMAIN q /\ (Own(r[k]) => r[k] = q[g[k]])
  BY HelloIsNoReport
<1>1. OwnOf(r) \subseteq OwnOf(q)
  BY <1>h DEF OwnOf
<1>2. Together(q) => Together(r)
  BY <1>h DEF Together
<1>3. VerdictsLast(q) => VerdictsLast(r)
  BY <1>h DEF VerdictsLast
<1>4. First(q) => First(r)
  BY <1>h DEF First
<1> QED
  BY <1>1, <1>2, <1>3, <1>4 DEF Keeps

\* Some messages of q, or more of them.
LEMMA Shapes ==
  ASSUME NEW S, NEW q \in Seq(S), NEW n \in S, NEW m \in S, Hello \in S
  PROVE  /\ q # <<>> => Keeps(Append(Tail(q), n), Append(q, n))
         /\ Keeps(Append(Append(q, Hello), n), Append(q, n))
         /\ Keeps(Append(Append(q, n), n), Append(q, n))
         /\ Keeps(Append(Append(q, m), m), Append(Append(q, n), m))
         /\ Keeps(Append(q, m), Append(Append(q, n), m))
<1>1. ASSUME q # <<>> PROVE Within(Append(Tail(q), n), Append(q, n))
  <2> DEFINE r == Append(Tail(q), n)
             t == Append(q, n)
             g == [k \in 1..Len(q) |-> k + 1]
  <2>1. DOMAIN r = 1..Len(q) /\ DOMAIN t = 1..(Len(q) + 1)
    BY <1>1
  <2>2. \A k \in 1..Len(q) : r[k] = t[g[k]] \/ r[k] = Hello
    BY <1>1
  <2>3. /\ g \in [1..Len(q) -> 1..(Len(q) + 1)]
        /\ \A k, l \in 1..Len(q) : k <= l => g[k] <= g[l]
    BY Len(q) \in Nat
  <2> HIDE DEF g, r, t
  <2>4. Within(r, t)
    BY <2>1, <2>2, <2>3 DEF Within
  <2> QED
    BY <2>4 DEF r, t
<1>2. ASSUME NEW h \in S, h \in {Hello, n} PROVE Within(Append(Append(q, h), n), Append(q, n))
  <2> DEFINE r == Append(Append(q, h), n)
             t == Append(q, n)
             g == [k \in 1..(Len(q) + 2) |-> IF k <= Len(q) THEN k ELSE Len(q) + 1]
  <2>1. DOMAIN r = 1..(Len(q) + 2) /\ DOMAIN t = 1..(Len(q) + 1)
    OBVIOUS
  <2>2. \A k \in 1..(Len(q) + 2) : r[k] = t[g[k]] \/ r[k] = Hello
    BY <1>2
  <2>3. /\ g \in [1..(Len(q) + 2) -> 1..(Len(q) + 1)]
        /\ \A k, l \in 1..(Len(q) + 2) : k <= l => g[k] <= g[l]
    OBVIOUS
  <2> HIDE DEF g, r, t
  <2>4. Within(r, t)
    BY <2>1, <2>2, <2>3 DEF Within
  <2> QED
    BY <2>4 DEF r, t
<1>3. Within(Append(Append(q, m), m), Append(Append(q, n), m))
  <2> DEFINE r == Append(Append(q, m), m)
             t == Append(Append(q, n), m)
             g == [k \in DOMAIN r |-> IF k <= Len(q) THEN k ELSE Len(q) + 2]
  <2>1. DOMAIN r = 1..(Len(q) + 2) /\ DOMAIN t = 1..(Len(q) + 2)
    OBVIOUS
  <2>2. \A k \in DOMAIN r : r[k] = t[g[k]] \/ r[k] = Hello
    BY <2>1
  <2>3. g \in [DOMAIN r -> DOMAIN t] /\ \A k, l \in DOMAIN r : k <= l => g[k] <= g[l]
    BY <2>1
  <2> HIDE DEF g
  <2> QED
    BY <2>2, <2>3 DEF Within
<1>4. Within(Append(q, m), Append(Append(q, n), m))
  <2> DEFINE r == Append(q, m)
             t == Append(Append(q, n), m)
             g == [k \in DOMAIN r |-> IF k <= Len(q) THEN k ELSE Len(q) + 2]
  <2>1. DOMAIN r = 1..(Len(q) + 1) /\ DOMAIN t = 1..(Len(q) + 2)
    OBVIOUS
  <2>2. \A k \in DOMAIN r : r[k] = t[g[k]] \/ r[k] = Hello
    BY <2>1
  <2>3. g \in [DOMAIN r -> DOMAIN t] /\ \A k, l \in DOMAIN r : k <= l => g[k] <= g[l]
    BY <2>1
  <2> HIDE DEF g
  <2> QED
    BY <2>2, <2>3 DEF Within
<1> QED
  BY <1>1, <1>2, <1>3, <1>4, WithinKeeps

\* A message about no package of the master's at the end disturbs nothing.
LEMMA ForeignAppended ==
  ASSUME NEW S, NEW q \in Seq(S), NEW m \in S, ~Own(m)
  PROVE  Keeps(Append(q, m), q)
<1>1. DOMAIN Append(q, m) = 1..(Len(q) + 1) /\ DOMAIN q = 1..Len(q)
  OBVIOUS
<1>2. \A k \in 1..Len(q) : Append(q, m)[k] = q[k]
  OBVIOUS
<1>3. Append(q, m)[Len(q) + 1] = m
  OBVIOUS
<1>4. \A k \in DOMAIN Append(q, m) : Own(Append(q, m)[k]) => k \in DOMAIN q
  BY <1>1, <1>3
<1>5. \A k, l \in DOMAIN Append(q, m) : k <= l /\ l \in DOMAIN q => k \in DOMAIN q
  BY <1>1
<1>6. \A k \in DOMAIN q : Append(q, m)[k] = q[k] /\ k \in DOMAIN Append(q, m)
  BY <1>1, <1>2
<1> DEFINE r == Append(q, m)
<1> HIDE DEF r
<1>7. OwnOf(r) \subseteq OwnOf(q)
  BY <1>4, <1>6 DEF OwnOf, r
<1>8. Together(q) => Together(r)
  BY <1>4, <1>5, <1>6 DEF Together, r
<1>9. VerdictsLast(q) => VerdictsLast(r)
  BY <1>4, <1>5, <1>6 DEF VerdictsLast, r
<1>10. First(q) => First(r)
  BY <1>4, <1>5, <1>6 DEF First, r
<1> QED
  BY <1>7, <1>8, <1>9, <1>10 DEF Keeps, r

\* One about a package of the master's, behind its kin or alone.
LEMMA OwnAppended ==
  ASSUME NEW S, NEW q \in Seq(S), NEW m \in S, Own(m),
         OwnOf(q) = {} \/ (q # <<>> /\ Own(q[Len(q)]) /\ m.st # "building")
  PROVE  /\ OwnOf(Append(q, m)) \subseteq OwnOf(q) \cup {m}
         /\ Together(q) => Together(Append(q, m))
         /\ VerdictsLast(q) => VerdictsLast(Append(q, m))
<1> DEFINE r == Append(q, m)
<1>1. DOMAIN r = DOMAIN q \cup {Len(q) + 1} /\ \A k \in DOMAIN q : k <= Len(q) /\ k \in Nat
  OBVIOUS
<1>2. \A k \in DOMAIN q : r[k] = q[k]
  OBVIOUS
<1>3. r[Len(q) + 1] = m
  OBVIOUS
<1>4. OwnOf(q) = {} => \A k \in DOMAIN q : ~Own(q[k])
  BY DEF OwnOf
<1>5. Len(q) \in Nat /\ (q # <<>> => Len(q) \in DOMAIN q)
  OBVIOUS
<1> HIDE DEF r
<1>6. OwnOf(r) \subseteq OwnOf(q) \cup {m}
  BY <1>1, <1>2, <1>3 DEF OwnOf
<1>7. Together(q) => Together(r)
  <2> SUFFICES ASSUME Together(q), NEW j \in DOMAIN r, NEW k \in DOMAIN r, NEW l \in DOMAIN r,
                      j <= k, k <= l, Own(r[j]), Own(r[l])
               PROVE  Own(r[k]) \/ r[k] = Hello
    BY DEF Together
  <2>1. CASE k = Len(q) + 1
    BY <2>1, <1>3
  <2>2. CASE k # Len(q) + 1 /\ l # Len(q) + 1
    <3>1. j \in DOMAIN q /\ k \in DOMAIN q /\ l \in DOMAIN q
      BY <2>2, <1>1, <1>5
    <3> QED
      BY <3>1, <1>2 DEF Together
  <2>3. CASE k # Len(q) + 1 /\ l = Len(q) + 1
    <3>1. j \in DOMAIN q /\ k \in DOMAIN q /\ k <= Len(q)
      BY <2>3, <1>1, <1>5
    <3>2. Own(q[j])
      BY <3>1, <1>2
    <3>3. Len(q) \in DOMAIN q /\ Own(q[Len(q)])
      BY <3>1, <3>2, <1>4, <1>5
    <3> QED
      BY <3>1, <3>2, <3>3, <1>2 DEF Together
  <2> QED
    BY <2>1, <2>2, <2>3
<1>8. VerdictsLast(q) => VerdictsLast(r)
  <2> SUFFICES ASSUME VerdictsLast(q), NEW k \in DOMAIN r, NEW l \in DOMAIN r,
                      k <= l, Own(r[k]), Own(r[l]), r[k].st # "building"
               PROVE  r[l].st # "building"
    BY DEF VerdictsLast
  <2>1. CASE l = Len(q) + 1
    <3>1. CASE k = Len(q) + 1
      BY <3>1, <2>1
    <3>2. CASE k # Len(q) + 1
      BY <3>2, <2>1, <1>1, <1>2, <1>3, <1>4
    <3> QED
      BY <3>1, <3>2
  <2>2. CASE l # Len(q) + 1
    <3>1. k \in DOMAIN q /\ l \in DOMAIN q
      BY <2>2, <1>1, <1>5
    <3> QED
      BY <3>1, <1>2 DEF VerdictsLast
  <2> QED
    BY <2>1, <2>2
<1> QED
  BY <1>6, <1>7, <1>8 DEF r

-----------------------------------------------------------------------------
(* Types.                                                                  *)

\* The names that the model gives to what is no package are none.
LEMMA NamesApart ==
  /\ Packages \subseteq Names /\ Foreign \subseteq Names /\ Packages \cap Foreign = {}
  /\ \A p \in Names : /\ p # "no package" /\ p # NoTask /\ p # ResetTask
                      /\ p \notin {"identify", "get_status", "reset"}
BY BuildNodeAssumption, BuildClusterAssumption DEF NoTask, ResetTask

\* What may be collected, and that all else stays as it is.
LEMMA CollectedKeeps ==
  ASSUME NEW ss \in [Slots -> SlotStates], NEW w, NEW ms
  PROVE  /\ Collected(ss, w, ms) \in [Slots -> SlotStates]
         /\ \A i \in Slots :
              \/ Collected(ss, w, ms)[i] = ss[i]
              \/ Collected(ss, w, ms)[i] = Unused /\ ss[i].step \in Exits /\ w # i
<1>1. Unused \in SlotStates
  BY DEF Unused, SlotStates
<1> QED
  BY <1>1 DEF Collected

\* A worker process is none of the two values that stand for there being none.
LEMMA SlotNames == NoWorker \notin Slots /\ NoMonitor \notin Slots /\ Created \notin Slots
BY BuildNodeAssumption DEF NoWorker, NoMonitor, Created

\* What the proxy stores after a message that it looks at.
LEMMA Learns ==
  ASSUME Learnt \in Reports, NEW m \in Messages, Differs(m), stored' = Updated(m)
  PROVE  m \in Reports /\ m # Learnt /\ Learnt' = m
<1>1. m # Hello
  BY DEF Differs
<1>2. m \in Reports
  BY <1>1 DEF Messages
<1>3. View(Updated(m), FALSE) = m /\ m # Learnt
  BY <1>2, Heard
<1>4. Learnt' = View(stored', FALSE)
  BY DEF Learnt, View
<1> QED
  BY <1>2, <1>3, <1>4

\* The states of a node, taken apart.
LEMMA StateForms ==
  /\ Idle \in States /\ Maintenance \in States /\ Hello \in Messages /\ Reports \subseteq States
  /\ \A p \in Names : Building(p) \in States
  /\ \A p \in Names, code \in Exits : Outcome(p, code) \in States
  /\ \A s \in States : s.st \in {"building", "finished", "failed"} => s.pkg \in Names
  /\ \A s \in States : s.st = "failed" /\ s.why \notin Reasons => s.why = "other"
  /\ \A s \in States : ~(s.st = "failed" /\ s.why \notin Reasons) => s \in Reports
  /\ \A p \in Names, code \in Exits \ {"other"} : Outcome(p, code) \in Reports
<1>1. Idle \in States /\ Maintenance \in States /\ Hello \in Messages /\ Reports \subseteq States
  BY DEF Messages, States, Reports
<1>2. \A p \in Names : Building(p) \in States
  BY DEF States, Reports, ReportsAbout
<1>3. \A p \in Names, code \in Exits \ {"other"} : Outcome(p, code) \in Reports
  BY DEF Outcome, Exits, Reports, ReportsAbout
<1>4. \A p \in Names : Outcome(p, "other") \in States
  BY DEF Outcome, States
<1>5. ASSUME NEW s \in States
      PROVE  /\ s.st \in {"building", "finished", "failed"} => s.pkg \in Names
             /\ s.st = "failed" /\ s.why \notin Reasons => s.why = "other"
             /\ ~(s.st = "failed" /\ s.why \notin Reasons) => s \in Reports
  <2> USE DEF Building, Finished, Failed, Idle, Maintenance, Plain, Shows
  <2>1. Idle.st = "idle" /\ Maintenance.st = "maintenance"
    OBVIOUS
  <2>2. ASSUME NEW p \in Names
        PROVE  /\ Building(p).st = "building" /\ Building(p).pkg \in Names
               /\ Finished(p).st = "finished" /\ Finished(p).pkg \in Names
    OBVIOUS
  <2>3. ASSUME NEW p \in Names, NEW why \in Reasons, s = Failed(p, why)
        PROVE  s.st = "failed" /\ s.pkg \in Names /\ s.why \in Reasons
    BY <2>3
  <2>4. ASSUME NEW p \in Names, s = Failed(p, "other")
        PROVE  s.st = "failed" /\ s.pkg \in Names /\ s.why = "other"
    BY <2>4
  <2>5. s \in Reports \/ \E p \in Names : s = Failed(p, "other")
    BY DEF States
  <2>6. "other" \notin Reasons
    BY DEF Reasons
  <2> HIDE DEF Building, Finished, Failed, Idle, Maintenance, Plain, Shows
  <2>7. CASE s \in Reports /\ (s = Idle \/ s = Maintenance)
    BY <2>1, <2>7
  <2>8. CASE s \in Reports /\ ~(s = Idle \/ s = Maintenance)
    <3>1. \/ \E p \in Names : s = Building(p) \/ s = Finished(p)
          \/ \E p \in Names, why \in Reasons : s = Failed(p, why)
      BY <2>8, ReportForms
    <3> QED
      BY <3>1, <2>2, <2>3, <2>8
  <2>9. CASE \E p \in Names : s = Failed(p, "other")
    BY <2>4, <2>6, <2>9
  <2> QED
    BY <2>5, <2>7, <2>8, <2>9
<1>6. Exits = (Exits \ {"other"}) \cup {"other"}
  BY DEF Exits
<1> QED
  BY <1>1, <1>2, <1>3, <1>4, <1>5, <1>6

\* The state that cannot be reported.
LEMMA UnreportedForm ==
  ASSUME NEW s \in States, s.st \in {"building", "finished", "failed"}, s.why = "other"
  PROVE  s.st = "failed" /\ s = Failed(s.pkg, "other")
<1>1. \A p, why : /\ Failed(p, why).st = "failed" /\ Failed(p, why).pkg = p
                 /\ Failed(p, why).why = why
  BY DEF Failed, Shows
<1>2. \A p : Building(p).why # "other" /\ Finished(p).why # "other"
  BY DEF Building, Finished, Shows
<1>3. Idle.why # "other" /\ Maintenance.why # "other"
  BY DEF Idle, Maintenance, Plain, Shows
<1>4. s \in Reports => \E p \in Names, why \in Reasons : s = Failed(p, why)
  BY <1>2, <1>3, ReportForms
<1>5. \E p : s = Failed(p, "other")
  BY <1>1, <1>4 DEF States
<1> QED
  BY <1>1, <1>5

\* What is appended to a channel.
LEMMA Typed ==
  ASSUME NEW S, NEW q \in Seq(S)
  PROVE  /\ \A e \in S : Append(q, e) \in Seq(S)
         /\ q # <<>> => Tail(q) \in Seq(S) /\ Head(q) \in S
OBVIOUS

\* The messages that a change of state sends are reports.
LEMMA BecomesTyped ==
  ASSUME NEW s \in Reports, toMaster \in Seq(Messages), Becomes(s)
  PROVE  node' \in States /\ toMaster' \in Seq(Messages)
<1>1. s \in Messages /\ s \in States
  BY DEF Messages, States
<1>2. toMaster' = toMaster \/ toMaster' = Append(toMaster, s)
  BY DEF Becomes, Notify
<1> QED
  BY <1>1, <1>2, Typed DEF Becomes

\* Requests of a client keep the types.
LEMMA RequestsTyped ==
  ASSUME NodeTyped, subscribed' \in BOOLEAN,
         \/ \E p \in Names : RequestStart(p)
         \/ RequestReset \/ EnableMaintenance \/ DisableMaintenance \/ SendStatus
  PROVE  NodeTyped'
<1>0. Idle \in Reports /\ Maintenance \in Reports
  BY DEF Reports
<1>1. ASSUME NEW p \in Names, RequestStart(p) PROVE NodeTyped'
  <2>1. PICK i \in Slots : slots' = [slots EXCEPT ![i] = [step |-> "asked", pkg |-> p]]
    BY <1>1 DEF RequestStart
  <2>2. [step |-> "asked", pkg |-> p] \in SlotStates
    BY DEF SlotStates
  <2> QED
    BY <1>1, <2>1, <2>2 DEF RequestStart, NodeTyped
<1>2. CASE RequestReset
  BY <1>2, <1>0, BecomesTyped DEF RequestReset, NodeTyped, tasks
<1>3. CASE EnableMaintenance
  BY <1>3, <1>0, BecomesTyped DEF EnableMaintenance, NodeTyped, tasks
<1>4. CASE DisableMaintenance
  BY <1>4, <1>0, BecomesTyped DEF DisableMaintenance, NodeTyped, tasks
<1>5. CASE SendStatus
  <2>1. toMaster' = toMaster \/ (node \in Messages /\ toMaster' = Append(toMaster, node))
    BY <1>5, StateForms DEF SendStatus, NodeTyped, Messages
  <2>2. toMaster' \in Seq(Messages)
    BY <2>1, Typed DEF NodeTyped
  <2> QED
    BY <1>5, <2>2 DEF SendStatus, NodeTyped, tasks
<1> QED
  BY <1>1, <1>2, <1>3, <1>4, <1>5

\* A slot in which a task or a process goes on.
LEMMA SlotTyped ==
  ASSUME NEW i \in Slots, slots \in [Slots -> SlotStates], slots[i].step # "unused",
         NEW st \in {"creating", "running"} \cup Exits
  PROVE  /\ [slots EXCEPT ![i].step = st] \in [Slots -> SlotStates]
         /\ slots[i].pkg \in Names /\ [slots EXCEPT ![i].step = st][i].step = st
         /\ [slots EXCEPT ![i].step = st][i].pkg = slots[i].pkg
         /\ \A j \in Slots : j # i => [slots EXCEPT ![i].step = st][j] = slots[j]
<1>1. slots[i] \in [step : {"asked", "creating", "running"} \cup Exits, pkg : Names]
  <2>1. slots[i] \in SlotStates
    OBVIOUS
  <2>0. Unused.step = "unused"
    BY DEF Unused
  <2>2. slots[i] # Unused
    BY <2>0
  <2> QED
    BY <2>1, <2>2 DEF SlotStates
<1>2. [slots[i] EXCEPT !.step = st] \in SlotStates
  BY <1>1 DEF SlotStates
<1> QED
  BY <1>1, <1>2

\* The steps of the node's tasks keep the types.
LEMMA TasksTyped ==
  ASSUME NodeTyped, NEW i \in Slots,
         \/ NodeSteps(i) \/ StartFails(i) \/ \E code \in Exits : WorkerExits(i, code)
  PROVE  NodeTyped'
<1> USE DEF NodeTyped
<1>s. Unused \in SlotStates
  BY DEF Unused, SlotStates
<1>1. CASE StartBegins(i)
  <2>1. slots[i].step = "asked"
    BY <1>1 DEF StartBegins
  <2>2. [slots EXCEPT ![i].step = "creating"] \in [Slots -> SlotStates]
    BY <2>1, SlotTyped
  <2>3. slots' = [slots EXCEPT ![i].step = "creating"] \/ slots' = [slots EXCEPT ![i] = Unused]
    BY <1>1 DEF StartBegins
  <2> QED
    BY <1>1, <1>s, <2>2, <2>3 DEF StartBegins
<1>2. CASE StartEnds(i)
  <2>1. slots[i].step = "creating"
    BY <1>2 DEF StartEnds
  <2>2. [slots EXCEPT ![i].step = "running"] \in [Slots -> SlotStates] /\ slots[i].pkg \in Names
    BY <2>1, SlotTyped
  <2>3. slots' \in [Slots -> SlotStates]
    BY <1>2, <2>2, CollectedKeeps DEF StartEnds
  <2>4. Building(slots[i].pkg) \in Reports
    BY <2>2 DEF Reports, ReportsAbout
  <2>5. node' \in States /\ toMaster' \in Seq(Messages)
    BY <1>2, <2>4, BecomesTyped DEF StartEnds
  <2>6. monitors' \in [Slots -> Slots \cup {NoMonitor, Created}]
    BY <1>2 DEF StartEnds
  <2> QED
    BY <1>2, <2>3, <2>5, <2>6 DEF StartEnds
<1>3. CASE StartFails(i)
  BY <1>3, <1>s DEF StartFails
<1>4. ASSUME NEW code \in Exits, WorkerExits(i, code) PROVE NodeTyped'
  <2>1. slots[i].step = "running"
    BY <1>4 DEF WorkerExits
  <2>2. [slots EXCEPT ![i].step = code] \in [Slots -> SlotStates]
    BY <2>1, SlotTyped
  <2>3. slots' \in [Slots -> SlotStates]
    BY <1>4, <2>2, CollectedKeeps DEF WorkerExits
  <2> QED
    BY <1>4, <2>3 DEF WorkerExits
<1>5. CASE MonitorBegins(i)
  <2>1. slots' \in [Slots -> SlotStates]
    BY <1>5, CollectedKeeps DEF MonitorBegins
  <2>2. monitors' \in [Slots -> Slots \cup {NoMonitor, Created}]
    BY <1>5 DEF MonitorBegins
  <2> QED
    BY <1>5, <2>1, <2>2 DEF MonitorBegins
<1>6. CASE MonitorEnds(i)
  <2>1. slots' \in [Slots -> SlotStates]
    BY <1>6, CollectedKeeps DEF MonitorEnds
  <2>2. monitors' \in [Slots -> Slots \cup {NoMonitor, Created}] /\ subscribed' = subscribed
    BY <1>6 DEF MonitorEnds
  <2> DEFINE code == IF worker_process = NoWorker THEN "none" ELSE slots[worker_process].step
  <2>3. CASE ~Understood(code)
    BY <1>6, <2>1, <2>2, <2>3 DEF MonitorEnds
  <2>4. CASE Understood(code) /\ code = "other"
    <3>1. /\ node' = Outcome(node.pkg, code)
          /\ UNCHANGED <<worker_process, toMaster>>
      BY <1>6, <2>4 DEF MonitorEnds
    <3>2. node.pkg \in Names /\ code \in Exits
      BY <2>4, StateForms DEF Understood
    <3>3. node' \in States
      BY <3>1, <3>2, StateForms
    <3> QED
      BY <2>1, <2>2, <3>1, <3>3
  <2>5. CASE Understood(code) /\ code # "other"
    <3>1. Becomes(Outcome(node.pkg, code)) /\ worker_process' = NoWorker
      BY <1>6, <2>5 DEF MonitorEnds
    <3>2. node.pkg \in Names /\ code \in Exits \ {"other"}
      BY <2>5, StateForms DEF Understood
    <3>3. Outcome(node.pkg, code) \in Reports
      BY <3>2, StateForms
    <3>4. node' \in States /\ toMaster' \in Seq(Messages)
      BY <3>1, <3>3, BecomesTyped
    <3> QED
      BY <2>1, <2>2, <3>1, <3>4
  <2> QED
    BY <2>3, <2>4, <2>5
<1> QED
  BY <1>1, <1>2, <1>3, <1>4, <1>5, <1>6 DEF NodeSteps

\* What the controller makes of its entry is a package, nothing, or a reset.
LEMMA TaskTyped ==
  ASSUME NEW s, task \in Packages \cup {NoTask, ResetTask}
  PROVE  TaskAfter(s) \in Packages \cup {NoTask, ResetTask}
BY DEF TaskAfter

\* A message is received by a proxy that exists, or makes one.
LEMMA MasterReceivesTyped ==
  ASSUME TypeOK, MasterReceives
  PROVE  TypeOK'
<1> DEFINE m == Head(toMaster)
<1>1. m \in Messages /\ toMaster' \in Seq(Messages)
  BY Typed DEF MasterReceives, TypeOK, NodeTyped
<1>2. NodeTyped'
  BY <1>1 DEF MasterReceives, TypeOK, NodeTyped, tasks
<1> HIDE DEF m
<1>u. Learnt = View(stored, FALSE) /\ Learnt' = View(stored', FALSE)
  BY DEF Learnt, View
<1>3. CASE known /\ Received(m)
  <2>0. known' = known /\ lastExit' = lastExit
    BY <1>3 DEF MasterReceives, Discovered
  <2>1. CASE ~Differs(m)
    BY <1>3, <2>0, <2>1, <1>2, <1>u DEF Received, TypeOK, MasterTyped
  <2>2. CASE Differs(m)
    <3> DEFINE s == View(Updated(m), FALSE)
    <3>1. /\ stored' = Updated(m) /\ busy' = ResetsAfter(s) /\ task' = TaskAfter(s)
          /\ building' = (building /\ ~IsVerdict(s))
          /\ toNode' = IF ResetsAfter(s) THEN Append(toNode, "reset") ELSE toNode
      BY <1>3, <2>2 DEF Received
    <3>2. Learnt' \in Reports
      BY <3>1, <2>2, <1>1, Learns DEF TypeOK, MasterTyped
    <3>3. task' \in Packages \cup {NoTask, ResetTask}
      BY <3>1, TaskTyped DEF TypeOK, MasterTyped
    <3>4. busy' \in BOOLEAN /\ building' \in BOOLEAN
      BY <3>1 DEF ResetsAfter, IsVerdict, TypeOK, MasterTyped
    <3>5. "reset" \in Requests
      BY DEF Requests
    <3>6. toNode' \in Seq(Requests)
      BY <3>1, <3>5, Typed DEF TypeOK, MasterTyped
    <3> QED
      BY <2>0, <1>2, <3>2, <3>3, <3>4, <3>6 DEF TypeOK, MasterTyped
  <2> QED
    BY <2>1, <2>2
<1>4. CASE ~known /\ Discovered(m)
  <2>0. /\ known' = TRUE /\ lastExit' = lastExit /\ UNCHANGED <<busy, task, building>>
        /\ stored' = IF Differs(m) THEN Updated(m) ELSE stored
        /\ toNode' = Append(toNode, "get_status")
    BY <1>4 DEF MasterReceives, Discovered
  <2>1. Learnt' \in Reports
    <3>1. CASE Differs(m)
      BY <3>1, <2>0, <1>1, Learns DEF TypeOK, MasterTyped
    <3>2. CASE ~Differs(m)
      BY <3>2, <2>0, <1>u DEF TypeOK, MasterTyped
    <3> QED
      BY <3>1, <3>2
  <2>2. "get_status" \in Requests
    BY DEF Requests
  <2>3. toNode' \in Seq(Requests)
    BY <2>0, <2>2, Typed DEF TypeOK, MasterTyped
  <2> QED
    BY <2>0, <2>1, <2>3, <1>2 DEF TypeOK, MasterTyped
<1> QED
  BY <1>3, <1>4 DEF MasterReceives, m

\* The types are those of the variables after every step.
LEMMA TypePreserved ==
  ASSUME TypeOK, [Next]_vars
  PROVE  TypeOK'
<1> USE DEF TypeOK, proxyVars, counters
<1>u. UNCHANGED stored => Learnt' = Learnt
  BY DEF Learnt, View
<1>r. /\ "get_status" \in Requests /\ "identify" \in Requests /\ "reset" \in Requests
      /\ \A p \in Packages : p \in Requests /\ p \in Names
      /\ \A f \in Foreign : f \in Names
  BY NamesApart DEF Requests
<1>f. UNCHANGED <<nodeVars>> => NodeTyped'
  BY DEF nodeVars, tasks, NodeTyped
<1>1. CASE MasterReceives
  BY <1>1, MasterReceivesTyped
<1>2. CASE Poll
  <2>1. toNode' \in Seq(Requests)
    BY <1>2, <1>r, Typed DEF Poll, MasterTyped
  <2> QED
    BY <1>2, <1>f, <1>u, <2>1 DEF Poll, MasterTyped
<1>3. CASE Search
  <2>1. toNode' \in Seq(Requests)
    BY <1>3, <1>r, Typed DEF Search, MasterTyped
  <2> QED
    BY <1>3, <1>f, <1>u, <2>1 DEF Search, MasterTyped
<1>4. ASSUME NEW p \in Packages, Assign(p) PROVE TypeOK'
  <2>1. toNode' \in Seq(Requests)
    BY <1>4, <1>r, Typed DEF Assign, MasterTyped
  <2> QED
    BY <1>4, <1>f, <1>u, <2>1 DEF Assign, MasterTyped
<1>5. CASE NodeReceives
  <2>1. toNode' \in Seq(Requests) /\ Head(toNode) \in Requests
    BY <1>5, Typed DEF NodeReceives, MasterTyped
  <2>2. MasterTyped'
    BY <1>5, <1>u, <2>1 DEF NodeReceives, MasterTyped
  <2>3. CASE Head(toNode) = "identify"
    <3>1. toMaster' = Append(toMaster, Hello) /\ UNCHANGED <<node, tasks>>
      BY <1>5, <2>3 DEF NodeReceives, Handle
    <3>2. toMaster' \in Seq(Messages)
      BY <3>1, StateForms, Typed DEF NodeTyped
    <3> QED
      BY <1>5, <2>2, <3>1, <3>2 DEF NodeReceives, NodeTyped, tasks
  <2>4. CASE Head(toNode) # "identify"
    <3>1. \/ SendStatus \/ RequestReset \/ \E p \in Names : RequestStart(p)
      <4>1. CASE Head(toNode) \in {"get_status", "reset"}
        BY <1>5, <2>4, <4>1 DEF NodeReceives, Handle
      <4>2. CASE Head(toNode) \notin {"get_status", "reset"}
        <5>1. Head(toNode) \in Names
          BY <2>1, <2>4, <4>2, <1>r DEF Requests
        <5>2. RequestStart(Head(toNode))
          BY <1>5, <2>4, <4>2 DEF NodeReceives, Handle
        <5> QED
          BY <5>1, <5>2
      <4> QED
        BY <4>1, <4>2
    <3>2. subscribed' \in BOOLEAN
      BY <1>5 DEF NodeReceives
    <3>3. NodeTyped'
      BY <3>1, <3>2, RequestsTyped
    <3> QED
      BY <2>2, <3>3
  <2> QED
    BY <2>3, <2>4
<1>6. CASE OtherClient
  <2>1. MasterTyped'
    BY <1>6, <1>u DEF OtherClient, MasterTyped
  <2>2. subscribed' \in BOOLEAN
    BY <1>6 DEF OtherClient, NodeTyped
  <2>3. \/ RequestReset \/ EnableMaintenance \/ DisableMaintenance
        \/ \E p \in Names : RequestStart(p)
    BY <1>6, <1>r DEF OtherClient
  <2>4. NodeTyped'
    BY <2>2, <2>3, RequestsTyped
  <2> QED
    BY <2>1, <2>4
<1>7. CASE GoesWrong
  <2>1. MasterTyped'
    BY <1>7, <1>u DEF GoesWrong, MasterTyped
  <2>2. CASE Forget
    BY <2>1, <2>2 DEF Forget, NodeTyped, tasks
  <2>3. ASSUME NEW i \in Slots, StartFails(i) PROVE TypeOK'
    BY <2>1, <2>3, TasksTyped
  <2> QED
    BY <1>7, <2>2, <2>3 DEF GoesWrong
<1>8. CASE Lose
  <2>1. toNode' \in Seq(Requests) /\ toMaster' \in Seq(Messages)
    BY <1>8, Typed DEF Lose, MasterTyped, NodeTyped
  <2> QED
    BY <1>8, <1>u, <2>1 DEF Lose, MasterTyped, NodeTyped, tasks
<1>9. ASSUME NEW i \in Slots, NodeRuns(i) PROVE TypeOK'
  <2>1. MasterTyped'
    BY <1>9, <1>u DEF NodeRuns, MasterTyped
  <2>2. NodeTyped'
    BY <1>9, TasksTyped DEF NodeRuns
  <2> QED
    BY <2>1, <2>2
<1>10. ASSUME NEW i \in Slots, WorkerEnds(i) PROVE TypeOK'
  <2>1. PICK code \in Exits : WorkerExits(i, code) /\ lastExit' \in {code, lastExit}
    BY <1>10 DEF WorkerEnds
  <2>2. MasterTyped'
    BY <1>10, <1>u, <2>1 DEF WorkerEnds, MasterTyped
  <2>3. NodeTyped'
    BY <2>1, TasksTyped
  <2> QED
    BY <2>2, <2>3
<1>11. CASE UNCHANGED vars
  BY <1>11, <1>f, <1>u DEF vars, MasterTyped
<1> QED
  BY <1>1, <1>2, <1>3, <1>4, <1>5, <1>6, <1>7, <1>8, <1>9, <1>10, <1>11 DEF Next

-----------------------------------------------------------------------------
(* Started: the process and the state.                                     *)

\* It stays so when the process does and the state is that of an idle node, or the
\* same as before.
LEMMA StartedStays ==
  ASSUME Started, worker_process' = worker_process,
         worker_process \in Slots => slots'[worker_process] = slots[worker_process],
         node' = node \/ node'.st \in {"idle", "maintenance"}
  PROVE  Started'
BY DEF Started

\* A request changes the state only to one of a node that is free, and fills an
\* empty slot.
LEMMA StartedAfterRequest ==
  ASSUME NodeTyped, Started,
         \/ \E p \in Names : RequestStart(p)
         \/ RequestReset \/ EnableMaintenance \/ DisableMaintenance \/ SendStatus
  PROVE  Started'
<1>0. Idle.st = "idle" /\ Maintenance.st = "maintenance"
  BY DEF Idle, Maintenance, Plain, Shows
<1>1. ASSUME NEW p \in Names, RequestStart(p) PROVE Started'
  <2>1. PICK i \in Slots : /\ slots[i] = Unused
                           /\ slots' = [slots EXCEPT ![i] = [step |-> "asked", pkg |-> p]]
    BY <1>1 DEF RequestStart
  <2>0. Unused.step \notin {"running"} \cup Exits
    BY DEF Unused, Exits, Reasons
  <2>2. worker_process \in Slots => worker_process # i
    BY <2>0, <2>1 DEF Started
  <2> QED
    BY <1>1, <2>1, <2>2, StartedStays DEF RequestStart, NodeTyped
<1>2. CASE RequestReset
  BY <1>2, <1>0, StartedStays DEF RequestReset, Becomes, tasks
<1>3. CASE EnableMaintenance
  BY <1>3, <1>0, StartedStays DEF EnableMaintenance, Becomes, tasks
<1>4. CASE DisableMaintenance
  BY <1>4, <1>0, StartedStays DEF DisableMaintenance, Becomes, tasks
<1>5. CASE SendStatus
  BY <1>5, StartedStays DEF SendStatus, tasks
<1> QED
  BY <1>1, <1>2, <1>3, <1>4, <1>5

\* What a monitor makes of the process that worker_process refers to: nothing, if
\* there is none, if it has not ended, or if the state names no package.
LEMMA WhatMonitorsDo ==
  ASSUME NodeTyped, Started, NEW i \in Slots, MonitorEnds(i)
  PROVE  /\ UNCHANGED subscribed
         /\ slots' = Collected(slots, worker_process', monitors')
         /\ \/ UNCHANGED <<node, worker_process, toMaster>>
            \/ /\ worker_process \in Slots /\ slots[worker_process].step = "other"
               /\ node.st = "building" /\ node.pkg = slots[worker_process].pkg
               /\ node' = Outcome(node.pkg, "other")
               /\ UNCHANGED <<worker_process, toMaster>>
            \/ /\ worker_process \in Slots
               /\ slots[worker_process].step \in Exits \ {"other"}
               /\ node.st = "building" /\ node.pkg = slots[worker_process].pkg
               /\ Becomes(Outcome(node.pkg, slots[worker_process].step))
               /\ worker_process' = NoWorker
<1> DEFINE code == IF worker_process = NoWorker THEN "none" ELSE slots[worker_process].step
<1>1. UNCHANGED subscribed /\ slots' = Collected(slots, worker_process', monitors')
  BY DEF MonitorEnds
<1>2. CASE ~Understood(code)
  BY <1>1, <1>2 DEF MonitorEnds
<1>3. CASE Understood(code)
  <2>1. code \in Exits /\ node.st \in {"building", "finished", "failed"}
    BY <1>3 DEF Understood
  <2>2. "none" \notin Exits
    BY DEF Exits, Reasons
  <2>3. worker_process \in Slots /\ code = slots[worker_process].step
    BY <2>1, <2>2 DEF NodeTyped
  <2>4. /\ node.pkg = slots[worker_process].pkg
        /\ node.st \in {"finished", "failed"} => node.why = "other" /\ code = "other"
    BY <2>1, <2>3 DEF Started
  <2>5. code = "other" => node' = Outcome(node.pkg, "other")
                          /\ UNCHANGED <<worker_process, toMaster>>
    BY <1>3 DEF MonitorEnds
  <2>6. code # "other" => Becomes(Outcome(node.pkg, code)) /\ worker_process' = NoWorker
    BY <1>3 DEF MonitorEnds
  <2> HIDE DEF code
  <2>7. CASE node.st = "building"
    BY <1>1, <2>1, <2>3, <2>4, <2>5, <2>6, <2>7
  <2>8. CASE node.st # "building"
    <3>1. code = "other" /\ node.why = "other"
      BY <2>1, <2>4, <2>8
    <3>2. node.st = "failed" /\ node = Failed(node.pkg, "other")
      BY <2>1, <2>8, <3>1, UnreportedForm DEF NodeTyped
    <3>3. node' = node
      BY <2>5, <3>1, <3>2 DEF Outcome
    <3> QED
      BY <1>1, <2>5, <3>1, <3>3
  <2> QED
    BY <2>7, <2>8
<1> QED
  BY <1>2, <1>3

\* The steps of the tasks.
LEMMA StartedAfterTask ==
  ASSUME NodeTyped, Started, NEW i \in Slots,
         \/ NodeSteps(i) \/ StartFails(i) \/ \E code \in Exits : WorkerExits(i, code)
  PROVE  Started'
<1>0. /\ {"asked", "creating"} \cap ({"running"} \cup Exits) = {}
      /\ "running" \notin Exits
  BY DEF Exits, Reasons
<1>1. CASE StartBegins(i)
  <2>1. worker_process \in Slots => worker_process # i
    BY <1>0, <1>1 DEF StartBegins, Started
  <2>2. worker_process \in Slots => slots'[worker_process] = slots[worker_process]
    BY <1>1, <2>1 DEF StartBegins, NodeTyped
  <2> QED
    BY <1>1, <2>2, StartedStays DEF StartBegins
<1>2. CASE StartFails(i)
  <2>1. worker_process \in Slots => worker_process # i
    BY <1>0, <1>2 DEF StartFails, Started
  <2>2. worker_process \in Slots => slots'[worker_process] = slots[worker_process]
    BY <1>2, <2>1 DEF StartFails, NodeTyped
  <2> QED
    BY <1>2, <2>2, StartedStays DEF StartFails
<1>3. CASE StartEnds(i)
  <2> DEFINE ss == [slots EXCEPT ![i].step = "running"]
  <2>1. slots[i].step = "creating" /\ slots' = Collected(ss, i, monitors') /\ worker_process' = i
        /\ node' = Building(slots[i].pkg)
    BY <1>3 DEF StartEnds, Becomes
  <2>2. ss \in [Slots -> SlotStates] /\ ss[i].step = "running" /\ ss[i].pkg = slots[i].pkg
    BY <2>1, SlotTyped DEF NodeTyped
  <2> HIDE DEF ss
  <2>3. slots'[i] = ss[i]
    BY <2>1, <2>2, CollectedKeeps
  <2>4. node'.st = "building" /\ node'.pkg = slots[i].pkg
    BY <2>1 DEF Building, Shows
  <2> QED
    BY <2>1, <2>2, <2>3, <2>4 DEF Started
<1>4. ASSUME NEW code \in Exits, WorkerExits(i, code) PROVE Started'
  <2> DEFINE ss == [slots EXCEPT ![i].step = code]
  <2>1. /\ slots[i].step = "running" /\ slots' = Collected(ss, worker_process, monitors)
        /\ UNCHANGED <<node, worker_process>>
    BY <1>4 DEF WorkerExits
  <2>2. /\ ss \in [Slots -> SlotStates] /\ ss[i].step = code /\ ss[i].pkg = slots[i].pkg
        /\ \A j \in Slots : j # i => ss[j] = slots[j]
    BY <2>1, SlotTyped DEF NodeTyped
  <2> HIDE DEF ss
  <2>3. worker_process \in Slots => slots'[worker_process] = ss[worker_process]
    BY <2>1, <2>2, CollectedKeeps
  <2>4. CASE worker_process = i
    BY <2>1, <2>2, <2>3, <2>4, <1>0 DEF Started
  <2>5. CASE worker_process # i
    BY <2>1, <2>2, <2>3, <2>5, StartedStays
  <2> QED
    BY <2>4, <2>5
<1>5. CASE MonitorBegins(i)
  <2>1. worker_process \in Slots => slots'[worker_process] = slots[worker_process]
    BY <1>5, CollectedKeeps DEF MonitorBegins, NodeTyped
  <2> QED
    BY <1>5, <2>1, StartedStays DEF MonitorBegins
<1>6. CASE MonitorEnds(i)
  <2>1. slots' = Collected(slots, worker_process', monitors')
    BY <1>6, WhatMonitorsDo
  <2>2. worker_process \in Slots /\ worker_process' = worker_process =>
          slots'[worker_process] = slots[worker_process]
    BY <2>1, CollectedKeeps DEF NodeTyped
  <2>3. CASE UNCHANGED <<node, worker_process>>
    BY <2>2, <2>3, StartedStays
  <2>4. CASE /\ worker_process \in Slots /\ slots[worker_process].step = "other"
             /\ node.pkg = slots[worker_process].pkg
             /\ node' = Outcome(node.pkg, "other") /\ UNCHANGED worker_process
    <3>1. node'.st = "failed" /\ node'.pkg = node.pkg /\ node'.why = "other"
      BY <2>4 DEF Outcome, Failed, Shows
    <3> QED
      BY <2>2, <2>4, <3>1 DEF Started, Exits
  <2>5. CASE worker_process' = NoWorker
    BY <2>5, SlotNames DEF Started
  <2> QED
    BY <1>6, <2>3, <2>4, <2>5, WhatMonitorsDo
<1> QED
  BY <1>1, <1>2, <1>3, <1>4, <1>5, <1>6 DEF NodeSteps

\* The process and the state belong together after every step.
LEMMA StartedPreserved ==
  ASSUME TypeOK, Started, [Next]_vars
  PROVE  Started'
<1> USE DEF TypeOK
<1>n. \A p \in Packages : p \in Names
  BY NamesApart
<1>f. UNCHANGED <<node, tasks>> => Started'
  BY DEF tasks, Started
<1>1. CASE MasterReceives \/ Poll \/ Search \/ Lose
  BY <1>1, <1>f DEF MasterReceives, Poll, Search, Lose, nodeVars
<1>2. ASSUME NEW p \in Packages, Assign(p) PROVE Started'
  BY <1>2, <1>f DEF Assign, nodeVars
<1>3. CASE NodeReceives
  <2>1. CASE Head(toNode) = "identify"
    BY <1>3, <2>1, <1>f DEF NodeReceives, Handle
  <2>2. CASE Head(toNode) \in {"get_status", "reset"}
    BY <1>3, <2>2, StartedAfterRequest DEF NodeReceives, Handle
  <2>3. CASE Head(toNode) \notin {"identify", "get_status", "reset"}
    <3>1. Head(toNode) \in Names
      BY <1>3, <1>n, <2>3, Typed DEF NodeReceives, MasterTyped, Requests
    <3>2. RequestStart(Head(toNode))
      BY <1>3, <2>3 DEF NodeReceives, Handle
    <3> QED
      BY <3>1, <3>2, StartedAfterRequest
  <2> QED
    BY <2>1, <2>2, <2>3
<1>4. CASE OtherClient
  BY <1>4, NamesApart, StartedAfterRequest DEF OtherClient
<1>5. CASE GoesWrong
  BY <1>5, <1>f, StartedAfterTask DEF GoesWrong, Forget
<1>6. ASSUME NEW i \in Slots, NodeRuns(i) \/ WorkerEnds(i) PROVE Started'
  BY <1>6, StartedAfterTask DEF NodeRuns, WorkerEnds
<1>7. CASE UNCHANGED vars
  BY <1>7, <1>f DEF vars, nodeVars
<1> QED
  BY <1>1, <1>2, <1>3, <1>4, <1>5, <1>6, <1>7 DEF Next

-----------------------------------------------------------------------------
(* Steps that leave the master's builds alone.                             *)

\* What the invariant says of the master's builds.
Builds == OneOrder /\ Quiet /\ Waiting /\ Settled /\ Unknown

\* Neither a new order nor a new worker of the master's, and none goes back to
\* what it was before it ran.
LiveKept ==
  \A i \in Live' : /\ i \in Live /\ slots'[i].pkg = slots[i].pkg
                   /\ slots[i].step = "running" => slots'[i].step = "running"
OrdersKept ==
  \E shift \in {0, 1} : \A k \in Orders' : k + shift \in Orders /\ toNode'[k] = toNode[k + shift]

\* A state about a package of the master's is one from before.
StateKept ==
  Own(node') =>
    /\ node' = node /\ worker_process' = worker_process
    /\ worker_process \in Slots /\ slots'[worker_process].step \in Exits =>
         slots[worker_process].step = slots'[worker_process].step

Undisturbed ==
  /\ Keeps(Trail', Trail) /\ LiveKept /\ OrdersKept /\ StateKept
  /\ UNCHANGED <<known, task, building, lastExit>>
  /\ UNCHANGED <<stored, busy>> \/ (known /\ building /\ ~busy')

\* Of such steps the invariant takes no notice.
LEMMA UndisturbedKeeps ==
  ASSUME Builds, Undisturbed, toNode' \in Seq(Requests)
  PROVE  Builds'
<1> USE DEF Builds
<1>1. UNCHANGED <<stored>> => Learnt' = Learnt
  BY DEF Learnt, View
<1>b. UNCHANGED <<stored, busy>> \/ (known /\ building /\ ~busy')
  BY DEF Undisturbed
<1>2. OwnOf(Trail') \subseteq OwnOf(Trail) /\ OwnOf(Trail)' = OwnOf(Trail')
  BY DEF Undisturbed, Keeps, OwnOf, Own
<1>l. LiveKept /\ OrdersKept /\ StateKept /\ UNCHANGED <<known, task, building, lastExit>>
  BY DEF Undisturbed
<1>o. Orders = {} => Orders' = {}
  BY <1>l DEF OrdersKept
<1>3. OneOrder'
  <2>1. PICK shift \in {0, 1} :
          \A k \in Orders' : k + shift \in Orders /\ toNode'[k] = toNode[k + shift]
    BY <1>l DEF OrdersKept
  <2>2. Orders' \subseteq Nat
    BY DEF Orders
  <2>3. \A k \in Orders' : building' /\ toNode'[k] = task'
    BY <2>1, <1>l DEF OneOrder
  <2>4. \A k, l \in Orders' : k = l
    BY <2>1, <2>2 DEF OneOrder
  <2>5. \A i \in Live' : building' /\ slots'[i].pkg = task'
    BY <1>l DEF LiveKept, OneOrder
  <2>6. \A i, j \in Live' : i = j
    BY <1>l DEF LiveKept, OneOrder
  <2>7. Orders' = {} \/ Live' = {}
    BY <1>l, <1>o DEF LiveKept, OneOrder
  <2> QED
    BY <2>3, <2>4, <2>5, <2>6, <2>7 DEF OneOrder
<1>4. Quiet'
  <2>1. \A m \in OwnOf(Trail') :
          Orders' = {} /\ \A i \in Live' : slots'[i].step = "running" /\ m.st = "building"
    BY <1>2, <1>l, <1>o DEF Quiet, LiveKept
  <2>2. \A i \in Live' : Own(node') => worker_process' = i
    BY <1>l DEF Quiet, LiveKept, StateKept, Own
  <2> QED
    BY <1>2, <2>1, <2>2 DEF Quiet, Own
<1>5. Waiting'
  <2> SUFFICES ASSUME building'
               PROVE  Waiting'
    BY DEF Waiting
  <2>1. building
    BY <1>l
  <2>2. known' /\ task' \in Packages /\ (busy' => Learnt' = Idle)
    BY <1>1, <1>b, <1>l, <2>1 DEF Waiting
  <2>3. OwnOf(Trail') \subseteq {Building(task'), Outcome(task', lastExit')}
    BY <1>2, <1>l, <2>1 DEF Waiting
  <2>4. Together(Trail') /\ VerdictsLast(Trail')
    BY <2>1 DEF Waiting, Undisturbed, Keeps
  <2>5. worker_process' \in Slots /\ Own(node') /\ slots'[worker_process'].step \in Exits =>
          lastExit' = slots'[worker_process'].step
    BY <1>l, <2>1 DEF Waiting, StateKept, Own
  <2>6. Together(Trail)' /\ VerdictsLast(Trail)'
    BY <2>4 DEF Together, VerdictsLast, Own
  <2> QED
    BY <2>2, <2>3, <2>5, <2>6, <1>2 DEF Waiting, Own, Building, Outcome
<1>6. Settled'
  <2> SUFFICES ASSUME ~building'
               PROVE  Settled'
    BY DEF Settled
  <2>1. ~building
    BY <1>l
  <2>2. OwnOf(Trail') \subseteq {Learnt'} /\ (Own(Learnt') => Learnt'.st # "building")
    BY <1>1, <1>2, <1>b, <2>1 DEF Settled
  <2>3. First(Trail') /\ (First(Trail') <=> First(Trail)')
    BY <2>1 DEF Settled, Undisturbed, Keeps, First, Own
  <2> QED
    BY <1>2, <2>2, <2>3 DEF Settled, Own
<1>7. Unknown'
  BY <1>b, <1>l DEF Unknown
<1> QED
  BY <1>3, <1>4, <1>5, <1>6, <1>7

-----------------------------------------------------------------------------
(* What leaves them alone.                                                 *)

\* Requests that arrive or get lost, and requests for anything but a build.
LEMMA ChannelKeeps ==
  ASSUME toNode \in Seq(Requests),
         \/ toNode' = toNode \/ (toNode # <<>> /\ toNode' = Tail(toNode))
         \/ toNode' = Append(toNode, "get_status") \/ toNode' = Append(toNode, "identify")
         \/ toNode' = Append(toNode, "reset")
  PROVE  OrdersKept
<1>0. /\ "get_status" \notin Packages /\ "identify" \notin Packages /\ "reset" \notin Packages
      /\ "get_status" \in Requests /\ "identify" \in Requests /\ "reset" \in Requests
  BY NamesApart DEF Requests
<1>1. CASE toNode' = toNode
  <2>1. Orders' = Orders /\ \A k \in Orders : k + 0 = k
    BY <1>1 DEF Orders
  <2> QED
    BY <1>1, <2>1 DEF OrdersKept
<1>2. CASE toNode # <<>> /\ toNode' = Tail(toNode)
  <2>1. \A k \in DOMAIN toNode' : k + 1 \in DOMAIN toNode /\ toNode'[k] = toNode[k + 1]
    BY <1>2
  <2>2. \A k \in Orders' : k + 1 \in Orders /\ toNode'[k] = toNode[k + 1]
    BY <2>1 DEF Orders
  <2> QED
    BY <2>2 DEF OrdersKept
<1>3. ASSUME NEW r \in Requests, r \notin Packages, toNode' = Append(toNode, r)
      PROVE  OrdersKept
  <2>1. \A k \in DOMAIN toNode' : k \in Nat /\ k + 0 = k
    BY <1>3
  <2>2. \A k \in DOMAIN toNode' : \/ k \in DOMAIN toNode /\ toNode'[k] = toNode[k]
                                  \/ toNode'[k] = r
    BY <1>3
  <2>3. \A k \in Orders' : k + 0 \in Orders /\ toNode'[k] = toNode[k + 0]
    BY <1>3, <2>1, <2>2 DEF Orders
  <2> QED
    BY <2>3 DEF OrdersKept
<1> QED
  BY <1>0, <1>1, <1>2, <1>3

\* The trail, when the node's state stays.
LEMMA TrailStays ==
  ASSUME NodeTyped, UNCHANGED node,
         \/ toMaster' = toMaster \/ (toMaster # <<>> /\ toMaster' = Tail(toMaster))
         \/ toMaster' = Append(toMaster, Hello) \/ toMaster' = Append(toMaster, node)
  PROVE  Keeps(Trail', Trail)
<1> DEFINE S == Messages \cup States
<1>1. toMaster \in Seq(S) /\ node \in S /\ Hello \in S
  BY StateForms DEF NodeTyped
<1> HIDE DEF S
<1>2. CASE toMaster' = toMaster
  BY <1>2 DEF Trail, Keeps
<1>3. CASE toMaster' # toMaster
  BY <1>1, <1>3, Shapes DEF Trail
<1> QED
  BY <1>2, <1>3

\* The trail, when it changes.
LEMMA TrailGrows ==
  ASSUME NodeTyped, NEW s \in States, Becomes(s)
  PROVE  Keeps(Trail', Append(Trail, s))
<1> DEFINE S == Messages \cup States
<1>1. toMaster \in Seq(S) /\ node \in S /\ s \in S /\ Hello \in S
  BY StateForms DEF NodeTyped
<1> HIDE DEF S
<1>2. node' = s /\ (toMaster' = toMaster \/ toMaster' = Append(toMaster, s))
  BY DEF Becomes, Notify
<1> QED
  BY <1>1, <1>2, Shapes DEF Trail

\* Nothing is lost twice either.
LEMMA KeepsTransitive ==
  ASSUME NEW q, NEW r, NEW t, Keeps(q, r), Keeps(r, t)
  PROVE  Keeps(q, t)
BY DEF Keeps

\* The trail, when it changes to one that is about no package of the master's.
LEMMA TrailGrowsForeign ==
  ASSUME NodeTyped, NEW s \in States, Becomes(s), ~Own(s)
  PROVE  Keeps(Trail', Trail)
<1> DEFINE S == Messages \cup States
<1>1. Trail \in Seq(S)
  BY DEF NodeTyped, Trail
<1>2. s \in S
  OBVIOUS
<1> HIDE DEF S
<1>3. Keeps(Append(Trail, s), Trail)
  BY <1>1, <1>2, ForeignAppended
<1>4. Keeps(Trail', Append(Trail, s))
  BY TrailGrows
<1> QED
  BY <1>3, <1>4, KeepsTransitive

\* The live slots, when one of them is emptied, filled by another client, or goes on.
LEMMA EmptiedKeeps ==
  ASSUME slots \in [Slots -> SlotStates], NEW i \in Slots, slots' = [slots EXCEPT ![i] = Unused]
  PROVE  LiveKept
<1>1. Unused.pkg \notin Packages
  BY NamesApart DEF Unused
<1> QED
  BY <1>1 DEF LiveKept, Live

\* And when processes are collected.
LEMMA CollectedLiveKeeps ==
  ASSUME slots \in [Slots -> SlotStates], NEW w, NEW ms, slots' = Collected(slots, w, ms)
  PROVE  LiveKept
<1>1. Unused.pkg \notin Packages
  BY NamesApart DEF Unused
<1>2. \A i \in Slots : slots'[i] = slots[i] \/ slots'[i] = Unused
  BY CollectedKeeps
<1> QED
  BY <1>1, <1>2 DEF LiveKept, Live

\* A state about a package of the master's is one of a build.
LEMMA OwnForms ==
  /\ \A s \in States : Own(s) => s.st \in {"building", "finished", "failed"}
  /\ ~Own(Idle) /\ ~Own(Maintenance) /\ \A f \in Foreign : ~Own(Building(f))
  /\ \A p, code : Own(Outcome(p, code)) <=> p \in Packages
  /\ \A p, code : Outcome(p, code).st # "building"
  /\ \A p : Building(p).st = "building" /\ (Own(Building(p)) <=> p \in Packages)
<1>1. ~Own(Idle) /\ ~Own(Maintenance)
  BY NamesApart DEF Own, Idle, Maintenance, Plain, Shows
<1>2. \A p : Building(p).st = "building" /\ (Own(Building(p)) <=> p \in Packages)
  BY DEF Own, Building, Shows
<1>3. \A p : Finished(p).st = "finished" /\ (Own(Finished(p)) <=> p \in Packages)
  BY DEF Own, Finished, Shows
<1>4. \A p, why : Failed(p, why).st = "failed" /\ (Own(Failed(p, why)) <=> p \in Packages)
  BY DEF Own, Failed, Shows
<1>5. ASSUME NEW s \in States, Own(s) PROVE s.st \in {"building", "finished", "failed"}
  <2>1. CASE s \in Reports
    <3>1. \/ \E p \in Names : s = Building(p) \/ s = Finished(p)
          \/ \E p \in Names, why \in Reasons : s = Failed(p, why)
      BY <2>1, <1>1, <1>5, ReportForms
    <3> QED
      BY <3>1, <1>2, <1>3, <1>4
  <2>2. CASE s \notin Reports
    BY <2>2, <1>4 DEF States
  <2> QED
    BY <2>1, <2>2
<1>6. \A f \in Foreign : ~Own(Building(f))
  BY <1>2, NamesApart
<1>7. \A p, code : (Own(Outcome(p, code)) <=> p \in Packages) /\ Outcome(p, code).st # "building"
  BY <1>3, <1>4 DEF Outcome
<1> QED
  BY <1>1, <1>2, <1>5, <1>6, <1>7

\* Requests for anything but a build of the master's.
LEMMA RequestsUndisturb ==
  ASSUME NodeTyped,
         \/ RequestReset \/ EnableMaintenance \/ DisableMaintenance \/ SendStatus
         \/ \E f \in Foreign : RequestStart(f)
  PROVE  Keeps(Trail', Trail) /\ LiveKept /\ StateKept
<1>f. UNCHANGED <<tasks>> => LiveKept
  BY DEF tasks, LiveKept, Live
<1>s. UNCHANGED <<node, worker_process>> /\
        (worker_process \in Slots /\ slots'[worker_process].step \in Exits =>
           slots[worker_process].step = slots'[worker_process].step) => StateKept
  BY DEF StateKept
<1>b. ASSUME NEW s \in {Idle, Maintenance}, Becomes(s), UNCHANGED <<tasks>>
      PROVE  Keeps(Trail', Trail) /\ LiveKept /\ StateKept
  <2>1. s \in States /\ ~Own(s) /\ node' = s
    BY <1>b, StateForms, OwnForms DEF Becomes
  <2>2. Keeps(Trail', Trail)
    BY <1>b, <2>1, TrailGrowsForeign
  <2>3. StateKept
    BY <2>1 DEF StateKept, Own
  <2> QED
    BY <1>b, <1>f, <2>2, <2>3
<1>u. ASSUME UNCHANGED <<node, toMaster, tasks>>
      PROVE  Keeps(Trail', Trail) /\ LiveKept /\ StateKept
  BY <1>u, <1>f, <1>s, TrailStays DEF tasks
<1>1. CASE RequestReset
  BY <1>1, <1>b, <1>u DEF RequestReset
<1>2. CASE EnableMaintenance
  BY <1>2, <1>b, <1>u DEF EnableMaintenance
<1>3. CASE DisableMaintenance
  BY <1>3, <1>b, <1>u DEF DisableMaintenance
<1>4. CASE SendStatus
  BY <1>4, <1>f, <1>s, TrailStays DEF SendStatus, tasks
<1>5. ASSUME NEW f \in Foreign, RequestStart(f)
      PROVE  Keeps(Trail', Trail) /\ LiveKept /\ StateKept
  <2>1. PICK i \in Slots : slots' = [slots EXCEPT ![i] = [step |-> "asked", pkg |-> f]]
    BY <1>5 DEF RequestStart
  <2>2. f \notin Packages /\ "asked" \notin Exits
    BY NamesApart DEF Exits, Reasons
  <2>3. LiveKept
    BY <2>1, <2>2 DEF LiveKept, Live, NodeTyped
  <2>4. StateKept
    BY <1>5, <1>s, <2>1, <2>2 DEF RequestStart, NodeTyped
  <2> QED
    BY <1>5, <2>3, <2>4, TrailStays DEF RequestStart
<1> QED
  BY <1>1, <1>2, <1>3, <1>4, <1>5

\* The tasks and workers, unless a build of the master's begins or ends.
LEMMA TasksUndisturb ==
  ASSUME NodeTyped, Started, NEW i \in Slots,
         \/ StartBegins(i) \/ StartFails(i) \/ MonitorBegins(i)
         \/ slots[i].pkg \notin Packages
              /\ (StartEnds(i) \/ \E code \in Exits : WorkerExits(i, code))
         \/ MonitorEnds(i) /\ (Own(node') => node' = node)
  PROVE  Keeps(Trail', Trail) /\ LiveKept /\ StateKept
<1> USE DEF NodeTyped
<1>u. UNCHANGED <<node, toMaster>> => Keeps(Trail', Trail)
  BY TrailStays
<1>e. "creating" \notin Exits /\ "running" \notin Exits /\ "asked" \notin Exits
      /\ Unused.step \notin Exits
  BY DEF Unused, Exits, Reasons
<1>1. CASE StartBegins(i)
  <2>1. CASE slots' = [slots EXCEPT ![i] = Unused]
    <3>1. LiveKept
      BY <2>1, EmptiedKeeps
    <3>2. StateKept
      BY <1>1, <1>e, <2>1 DEF StartBegins, StateKept
    <3> QED
      BY <1>1, <1>u, <3>1, <3>2 DEF StartBegins
  <2>2. CASE slots' = [slots EXCEPT ![i].step = "creating"]
    <3>0. slots[i].step = "asked"
      BY <1>1 DEF StartBegins
    <3>1. /\ slots'[i].step = "creating" /\ slots'[i].pkg = slots[i].pkg
          /\ \A j \in Slots : j # i => slots'[j] = slots[j]
      BY <2>2, <3>0, SlotTyped
    <3>2. LiveKept
      BY <1>e, <3>0, <3>1 DEF LiveKept, Live
    <3>3. StateKept
      BY <1>1, <1>e, <3>1 DEF StartBegins, StateKept
    <3> QED
      BY <1>1, <1>u, <3>2, <3>3 DEF StartBegins
  <2> QED
    BY <1>1, <2>1, <2>2 DEF StartBegins
<1>2. CASE StartFails(i)
  <2>1. LiveKept
    BY <1>2, EmptiedKeeps DEF StartFails
  <2>2. StateKept
    BY <1>2, <1>e DEF StartFails, StateKept
  <2> QED
    BY <1>2, <1>u, <2>1, <2>2 DEF StartFails
<1>3. CASE MonitorBegins(i)
  <2>1. slots' = Collected(slots, worker_process, monitors')
    BY <1>3 DEF MonitorBegins
  <2>2. LiveKept
    BY <2>1, CollectedLiveKeeps
  <2>3. StateKept
    BY <1>3, <2>1, CollectedKeeps DEF MonitorBegins, StateKept
  <2> QED
    BY <1>3, <1>u, <2>2, <2>3 DEF MonitorBegins
<1>4. CASE slots[i].pkg \notin Packages /\ StartEnds(i)
  <2> DEFINE ss == [slots EXCEPT ![i].step = "running"]
  <2>1. /\ slots[i].step = "creating" /\ slots' = Collected(ss, i, monitors')
        /\ Becomes(Building(slots[i].pkg)) /\ node' = Building(slots[i].pkg)
    BY <1>4 DEF StartEnds, Becomes
  <2>2. /\ ss \in [Slots -> SlotStates] /\ ss[i].step = "running" /\ ss[i].pkg = slots[i].pkg
        /\ slots[i].pkg \in Names /\ \A j \in Slots : j # i => ss[j] = slots[j]
    BY <2>1, SlotTyped
  <2> HIDE DEF ss
  <2>3. \A j \in Slots : slots'[j] = ss[j] \/ slots'[j] = Unused
    BY <2>1, <2>2, CollectedKeeps
  <2>4. Unused.pkg \notin Packages
    BY NamesApart DEF Unused
  <2>5. LiveKept
    BY <1>4, <2>2, <2>3, <2>4 DEF LiveKept, Live
  <2>6. Building(slots[i].pkg) \in States /\ ~Own(Building(slots[i].pkg))
    BY <1>4, <2>2, StateForms, OwnForms
  <2>7. StateKept
    BY <2>1, <2>6 DEF StateKept, Own
  <2>8. Keeps(Trail', Trail)
    BY <2>1, <2>6, TrailGrowsForeign
  <2> QED
    BY <2>5, <2>7, <2>8
<1>5. ASSUME slots[i].pkg \notin Packages, NEW code \in Exits, WorkerExits(i, code)
      PROVE  Keeps(Trail', Trail) /\ LiveKept /\ StateKept
  <2> DEFINE ss == [slots EXCEPT ![i].step = code]
  <2>1. /\ slots[i].step = "running" /\ slots' = Collected(ss, worker_process, monitors)
        /\ UNCHANGED <<node, worker_process, toMaster>>
    BY <1>5 DEF WorkerExits
  <2>2. /\ ss \in [Slots -> SlotStates] /\ ss[i].pkg = slots[i].pkg
        /\ \A j \in Slots : j # i => ss[j] = slots[j]
    BY <2>1, SlotTyped
  <2> HIDE DEF ss
  <2>3. \A j \in Slots : slots'[j] = ss[j] \/ slots'[j] = Unused
    BY <2>1, <2>2, CollectedKeeps
  <2>4. Unused.pkg \notin Packages
    BY NamesApart DEF Unused
  <2>5. LiveKept
    BY <1>5, <2>2, <2>3, <2>4 DEF LiveKept, Live
  <2>6. Own(node) => worker_process # i
    <3>1. Own(node) => node.st \in {"building", "finished", "failed"}
      BY OwnForms
    <3> QED
      BY <1>5, <3>1 DEF Started, Own
  <2>7. StateKept
    BY <2>1, <2>2, <2>3, <2>6, <1>e DEF StateKept, Own
  <2> QED
    BY <1>u, <2>1, <2>5, <2>7
<1>6. CASE MonitorEnds(i) /\ (Own(node') => node' = node)
  <2>1. slots' = Collected(slots, worker_process', monitors')
    BY <1>6, WhatMonitorsDo
  <2>2. LiveKept
    BY <2>1, CollectedLiveKeeps
  <2>3. CASE UNCHANGED <<node, worker_process, toMaster>>
    <3>1. StateKept
      BY <2>1, <2>3, CollectedKeeps DEF StateKept
    <3> QED
      BY <1>u, <2>2, <2>3, <3>1
  <2>4. ASSUME worker_process \in Slots, NEW code \in Exits, node.st = "building",
               node' = Outcome(node.pkg, code),
               \/ UNCHANGED <<worker_process, toMaster>> \/ Becomes(Outcome(node.pkg, code))
        PROVE  Keeps(Trail', Trail) /\ LiveKept /\ StateKept
    <3>1. node.pkg \in Names /\ node' \in States
      BY <2>4, StateForms
    <3>2. ~Own(node')
      BY <1>6, <2>4, OwnForms
    <3>3. StateKept
      BY <3>2 DEF StateKept
    <3>4. CASE Becomes(node')
      BY <3>1, <3>2, <3>3, <3>4, <2>2, TrailGrowsForeign
    <3>5. CASE UNCHANGED toMaster
      <4> DEFINE S == Messages \cup States
      <4>1. toMaster \in Seq(S) /\ node \in S /\ node' \in S /\ Trail \in Seq(S) /\ Hello \in S
        BY <3>1, StateForms DEF Trail
      <4> HIDE DEF S
      <4>2. Keeps(Append(Append(toMaster, node), node'), Append(toMaster, node))
        BY <4>1, <3>2, ForeignAppended DEF Trail
      <4>3. Keeps(Append(toMaster, node'), Append(Append(toMaster, node), node'))
        BY <4>1, Shapes
      <4>4. Keeps(Append(toMaster, node'), Append(toMaster, node))
        BY <4>2, <4>3, KeepsTransitive
      <4> QED
        BY <3>3, <3>5, <2>2, <4>4 DEF Trail
    <3> QED
      BY <2>4, <3>4, <3>5
  <2>5. "other" \in Exits
    BY DEF Exits
  <2> QED
    BY <1>6, <2>3, <2>4, <2>5, WhatMonitorsDo DEF Becomes
<1> QED
  BY <1>1, <1>2, <1>3, <1>4, <1>5, <1>6

-----------------------------------------------------------------------------
(* Steps of the master's builds.                                           *)

\* A trail that says nothing of the master's packages.
LEMMA NothingSaid ==
  /\ \A q : OwnOf(q) = {} => Together(q) /\ VerdictsLast(q) /\ First(q)
  /\ \A q : \A m \in OwnOf(q) : Own(m)
  /\ NodeTyped => (Own(node) => node \in OwnOf(Trail))
<1>1. ASSUME NEW q, OwnOf(q) = {} PROVE Together(q) /\ VerdictsLast(q) /\ First(q)
  <2>1. \A k \in DOMAIN q : ~Own(q[k])
    BY <1>1 DEF OwnOf
  <2> QED
    BY <2>1 DEF Together, VerdictsLast, First
<1>2. \A q : \A m \in OwnOf(q) : Own(m)
  BY DEF OwnOf
<1>3. ASSUME NodeTyped, Own(node) PROVE node \in OwnOf(Trail)
  <2>1. Len(toMaster) + 1 \in DOMAIN Trail /\ Trail[Len(toMaster) + 1] = node
    BY <1>3 DEF Trail, NodeTyped
  <2> QED
    BY <1>3, <2>1 DEF OwnOf
<1> QED
  BY <1>1, <1>2, <1>3

\* A new order is the only one, and nothing is said of the packages before it is
\* carried out.
LEMMA AssignKeeps ==
  ASSUME TypeOK, Builds, NEW p \in Packages, Assign(p)
  PROVE  Builds'
<1> USE DEF TypeOK, Builds
<1>1. /\ task = NoTask /\ Shown = Idle /\ task' = p /\ building' = TRUE /\ known' = known
      /\ stored' = stored /\ toNode' = Append(toNode, p) /\ UNCHANGED nodeVars
  BY DEF Assign
<1>2. known /\ ~busy /\ Learnt = Idle
  BY <1>1 DEF Shown, View, Learnt, Gone, Busy, Idle, Plain, Shows, MasterTyped
<1>3. ~building /\ Orders = {} /\ Live = {}
  BY <1>1, NamesApart DEF Waiting, OneOrder
<1>4. OwnOf(Trail) = {}
  BY <1>2, <1>3, OwnForms, NothingSaid DEF Settled
<1>5. UNCHANGED <<node, slots, worker_process, toMaster>>
  BY <1>1 DEF nodeVars, tasks
<1>6. Trail' = Trail /\ OwnOf(Trail)' = {} /\ Live' = {} /\ Learnt' = Idle
  BY <1>1, <1>2, <1>3, <1>4, <1>5 DEF Trail, OwnOf, Own, Live, Learnt, View
<1>7. Orders' \subseteq {Len(toNode) + 1}
  <2>1. \A k \in DOMAIN toNode' : \/ k \in DOMAIN toNode /\ toNode'[k] = toNode[k]
                                  \/ k = Len(toNode) + 1
    BY <1>1 DEF MasterTyped
  <2> QED
    BY <1>3, <2>1 DEF Orders
<1>8. \A k \in Orders' : toNode'[k] = p
  BY <1>1, <1>7 DEF MasterTyped
<1>9. OneOrder'
  BY <1>1, <1>6, <1>7, <1>8 DEF OneOrder
<1>10. Quiet'
  BY <1>6 DEF Quiet
<1>11. Waiting'
  <2>1. Together(Trail)' /\ VerdictsLast(Trail)'
    BY <1>4, <1>6, NothingSaid DEF Together, VerdictsLast, Own
  <2>2. ~Own(node)'
    BY <1>4, <1>5, NothingSaid DEF Own
  <2> QED
    BY <1>1, <1>2, <1>6, <2>1, <2>2 DEF Waiting
<1>12. Settled' /\ Unknown'
  BY <1>1, <1>2 DEF Settled, Unknown
<1> QED
  BY <1>9, <1>10, <1>11, <1>12

\* The node takes up the order.
LEMMA OrderTaken ==
  ASSUME TypeOK, Builds, NodeReceives, Head(toNode) \in Packages
  PROVE  Builds'
<1> USE DEF TypeOK, Builds
<1> DEFINE p == Head(toNode)
<1>1. /\ toNode # <<>> /\ toNode' = Tail(toNode)
      /\ UNCHANGED <<known, stored, busy, task, building, lastExit>>
  BY DEF NodeReceives, proxyVars
<1>2. RequestStart(p)
  BY NamesApart DEF NodeReceives, Handle
<1>3. PICK i \in Slots : /\ slots[i] = Unused
                         /\ slots' = [slots EXCEPT ![i] = [step |-> "asked", pkg |-> p]]
                         /\ UNCHANGED <<node, worker_process, toMaster>>
  BY <1>2 DEF RequestStart
<1>4. 1 \in Orders
  BY <1>1 DEF Orders, MasterTyped
<1>5. Orders = {1} /\ Live = {} /\ OwnOf(Trail) = {} /\ building /\ p = task
  BY <1>1, <1>4 DEF OneOrder, Quiet, MasterTyped
<1>6. Orders' = {}
  <2>1. \A k \in DOMAIN toNode' : /\ k + 1 \in DOMAIN toNode /\ k + 1 # 1
                                  /\ toNode'[k] = toNode[k + 1]
    BY <1>1 DEF MasterTyped
  <2> QED
    BY <2>1, <1>5 DEF Orders
<1>7. Live' \subseteq {i} /\ slots'[i].pkg = task
  BY <1>3, <1>5 DEF Live, NodeTyped
<1>8. Trail' = Trail /\ OwnOf(Trail)' = {} /\ Learnt' = Learnt
  BY <1>1, <1>3, <1>5 DEF Trail, OwnOf, Own, Learnt, View
<1>9. OneOrder'
  BY <1>1, <1>5, <1>6, <1>7 DEF OneOrder
<1>10. ~Own(node)'
  BY <1>3, <1>5, NothingSaid DEF Own
<1>11. Quiet'
  BY <1>8, <1>10 DEF Quiet
<1>12. Waiting'
  <2>1. Together(Trail)' /\ VerdictsLast(Trail)'
    BY <1>5, <1>8, NothingSaid DEF Together, VerdictsLast, Own
  <2> QED
    BY <1>1, <1>8, <1>10, <2>1 DEF Waiting
<1>13. Settled' /\ Unknown'
  BY <1>1, <1>5 DEF Settled, Unknown
<1> QED
  BY <1>9, <1>11, <1>12, <1>13

\* The worker is started: the first that is said of the package.
LEMMA OwnStarts ==
  ASSUME TypeOK, Builds, NEW i \in Slots, StartEnds(i), slots[i].pkg \in Packages,
         UNCHANGED <<known, stored, busy, task, building, lastExit, toNode>>
  PROVE  Builds'
<1> USE DEF TypeOK, Builds
<1> DEFINE p == slots[i].pkg
           ss == [slots EXCEPT ![i].step = "running"]
<1>e. "creating" \notin Exits /\ "running" \notin Exits
  BY DEF Exits, Reasons
<1>1. /\ slots[i].step = "creating" /\ slots' = Collected(ss, i, monitors')
      /\ Becomes(Building(p)) /\ node' = Building(p) /\ worker_process' = i
  BY DEF StartEnds, Becomes
<1>2. /\ ss \in [Slots -> SlotStates] /\ ss[i].step = "running" /\ ss[i].pkg = p
      /\ \A j \in Slots : j # i => ss[j] = slots[j]
  BY <1>1, SlotTyped DEF NodeTyped
<1> HIDE DEF ss
<1>3. \A j \in Slots : slots'[j] = ss[j] \/ (slots'[j] = Unused /\ j # i)
  BY <1>1, <1>2, CollectedKeeps
<1>4. Unused.pkg \notin Packages
  BY NamesApart DEF Unused
<1>5. i \in Live
  BY <1>1, <1>e DEF Live
<1>6. building /\ p = task /\ Live = {i} /\ Orders = {}
  BY <1>5 DEF OneOrder
<1>7. OwnOf(Trail) = {}
  BY <1>1, <1>5 DEF Quiet
<1>8. Live' = {i} /\ slots'[i].step = "running" /\ slots'[i].pkg = p
  BY <1>2, <1>3, <1>4, <1>6, <1>e DEF Live
<1>9. Orders' = {}
  BY <1>6 DEF Orders
<1> DEFINE S == Messages \cup States
           b == Building(p)
<1>10. Trail \in Seq(S) /\ b \in S
  <2>1. Trail \in Seq(S)
    BY DEF Trail, NodeTyped
  <2>2. Building(p) \in States
    BY StateForms, NamesApart
  <2> QED
    BY <2>1, <2>2
<1>11. b \in States /\ Own(b) /\ b.st = "building"
  BY StateForms, OwnForms, NamesApart
<1> HIDE DEF S, b
<1>12. /\ OwnOf(Append(Trail, b)) \subseteq {b}
       /\ Together(Append(Trail, b)) /\ VerdictsLast(Append(Trail, b))
  BY <1>7, <1>10, <1>11, OwnAppended, NothingSaid
<1>13. Keeps(Trail', Append(Trail, b))
  BY <1>1, <1>11, TrailGrows DEF b
<1>14. OwnOf(Trail') \subseteq {b} /\ Together(Trail') /\ VerdictsLast(Trail')
  BY <1>12, <1>13 DEF Keeps
<1>15. OwnOf(Trail)' = OwnOf(Trail') /\ Together(Trail)' = Together(Trail')
       /\ VerdictsLast(Trail)' = VerdictsLast(Trail') /\ Learnt' = Learnt
  BY DEF OwnOf, Own, Together, VerdictsLast, Learnt, View
<1>16. OneOrder'
  BY <1>6, <1>8, <1>9 DEF OneOrder
<1>17. Quiet'
  BY <1>1, <1>8, <1>9, <1>11, <1>14, <1>15 DEF Quiet
<1>18. Waiting'
  <2>1. OwnOf(Trail)' \subseteq {Building(task'), Outcome(task', lastExit')}
    BY <1>6, <1>14, <1>15 DEF b
  <2>2. slots'[worker_process'].step \notin Exits
    BY <1>1, <1>8, <1>e
  <2>3. known' /\ task' \in Packages /\ (busy' => Learnt' = Idle)
    BY <1>6, <1>15 DEF Waiting
  <2> HIDE DEF Builds
  <2> QED
    BY <1>14, <1>15, <2>1, <2>2, <2>3 DEF Waiting, Building, Outcome
<1>19. Settled' /\ Unknown'
  BY <1>6 DEF Settled, Unknown
<1> QED
  BY <1>16, <1>17, <1>18, <1>19

\* The worker ends.
LEMMA OwnEnds ==
  ASSUME TypeOK, Started, Builds, NEW i \in Slots, NEW code \in Exits, WorkerExits(i, code),
         slots[i].pkg \in Packages, slots[i].pkg = task => lastExit' = code,
         UNCHANGED <<known, stored, busy, task, building, toNode>>
  PROVE  Builds'
<1> USE DEF TypeOK, Builds
<1> DEFINE ss == [slots EXCEPT ![i].step = code]
<1>e. "running" \notin Exits
  BY DEF Exits, Reasons
<1>1. /\ slots[i].step = "running" /\ slots' = Collected(ss, worker_process, monitors)
      /\ UNCHANGED <<node, worker_process, toMaster>>
  BY DEF WorkerExits
<1>2. /\ ss \in [Slots -> SlotStates] /\ ss[i].step = code
      /\ \A j \in Slots : j # i => ss[j] = slots[j]
  BY <1>1, SlotTyped DEF NodeTyped
<1> HIDE DEF ss
<1>3. \A j \in Slots : slots'[j] = ss[j] \/ (slots'[j] = Unused /\ j # worker_process)
  BY <1>1, <1>2, CollectedKeeps
<1>4. Unused.pkg \notin Packages
  BY NamesApart DEF Unused
<1>5. i \in Live
  BY <1>1, <1>e DEF Live
<1>6. building /\ slots[i].pkg = task /\ Live = {i} /\ Orders = {}
  BY <1>5 DEF OneOrder
<1>7. lastExit' = code
  BY <1>6
<1>8. Live' = {}
  BY <1>2, <1>3, <1>4, <1>6 DEF Live
<1>9. Orders' = {} /\ Trail' = Trail /\ OwnOf(Trail)' = OwnOf(Trail) /\ Learnt' = Learnt
      /\ Together(Trail)' = Together(Trail) /\ VerdictsLast(Trail)' = VerdictsLast(Trail)
  BY <1>1, <1>6 DEF Orders, Trail, OwnOf, Own, Together, VerdictsLast, Learnt, View
<1>10. OneOrder' /\ Quiet'
  BY <1>8, <1>9 DEF OneOrder, Quiet
<1>11. \A m \in OwnOf(Trail) : m = Building(task)
  <2>1. \A m \in OwnOf(Trail) : m.st = "building"
    BY <1>5 DEF Quiet
  <2>2. Outcome(task, lastExit).st # "building"
    BY OwnForms
  <2> QED
    BY <1>6, <2>1, <2>2 DEF Waiting
<1>12. Waiting'
  <2>1. OwnOf(Trail)' \subseteq {Building(task'), Outcome(task', lastExit')}
    BY <1>9, <1>11
  <2>2. Own(node) => worker_process = i /\ slots'[i].step = code
    BY <1>2, <1>3, <1>5 DEF Quiet
  <2>3. Own(node') /\ worker_process' \in Slots => lastExit' = slots'[worker_process'].step
    BY <1>1, <1>7, <2>2
  <2>4. known' /\ task' \in Packages /\ (busy' => Learnt' = Idle)
        /\ Together(Trail)' /\ VerdictsLast(Trail)'
    BY <1>6, <1>9 DEF Waiting
  <2> QED
    BY <2>1, <2>3, <2>4 DEF Waiting, Own, Building, Outcome
<1>13. Settled' /\ Unknown'
  BY <1>6 DEF Settled, Unknown
<1> QED
  BY <1>10, <1>12, <1>13

\* The monitor understands the end of the worker and says what it makes of it.
LEMMA VerdictGiven ==
  ASSUME TypeOK, Started, Builds, NEW i \in Slots, MonitorEnds(i),
         Own(node'), node' # node,
         UNCHANGED <<known, stored, busy, task, building, lastExit, toNode>>
  PROVE  Builds'
<1> USE DEF TypeOK, Builds
<1>1. slots' = Collected(slots, worker_process', monitors') /\ node.st = "building"
  BY WhatMonitorsDo
<1>2. PICK code \in Exits :
        /\ worker_process \in Slots /\ slots[worker_process].step = code
        /\ node.pkg = slots[worker_process].pkg /\ node' = Outcome(node.pkg, code)
        /\ \/ UNCHANGED <<worker_process, toMaster>>
           \/ Becomes(Outcome(node.pkg, code)) /\ worker_process' = NoWorker
  <2>1. "other" \in Exits
    BY DEF Exits
  <2>2. \/ /\ worker_process \in Slots /\ slots[worker_process].step = "other"
           /\ node.pkg = slots[worker_process].pkg /\ node' = Outcome(node.pkg, "other")
           /\ UNCHANGED <<worker_process, toMaster>>
        \/ /\ worker_process \in Slots /\ slots[worker_process].step \in Exits
           /\ node.pkg = slots[worker_process].pkg
           /\ Becomes(Outcome(node.pkg, slots[worker_process].step))
           /\ worker_process' = NoWorker
    BY WhatMonitorsDo
  <2> QED
    BY <2>1, <2>2 DEF Becomes
<1>3. Own(node) /\ node \in OwnOf(Trail)
  BY <1>2, OwnForms, NothingSaid DEF Own
<1>4. Orders = {} /\ \A j \in Live : worker_process = j
  BY <1>3 DEF Quiet
<1>5. Live = {}
  BY <1>2, <1>4 DEF Live
<1>6. building
  <2>1. ASSUME ~building PROVE FALSE
    <3>1. node = Learnt
      BY <1>3, <2>1 DEF Settled
    <3> QED
      BY <1>1, <1>3, <2>1, <3>1 DEF Settled
  <2> QED
    BY <2>1
<1>7. lastExit = code /\ node.pkg = task
  <2>1. lastExit = code
    BY <1>2, <1>3, <1>6 DEF Waiting
  <2>2. node = Building(task)
    BY <1>1, <1>3, <1>6, OwnForms DEF Waiting
  <2> QED
    BY <2>1, <2>2 DEF Building, Shows
<1> DEFINE S == Messages \cup States
           v == Outcome(task, code)
<1>8. v \in States /\ Own(v) /\ v.st # "building" /\ node' = v
  <2>1. task \in Packages
    BY <1>6 DEF Waiting
  <2> QED
    BY <1>2, <1>7, <2>1, StateForms, OwnForms, NamesApart
<1>9. toMaster \in Seq(S) /\ node \in S /\ v \in S /\ Trail \in Seq(S) /\ Hello \in S
  <2>1. toMaster \in Seq(S) /\ node \in S /\ Trail \in Seq(S)
    BY DEF Trail, NodeTyped
  <2>2. Hello \in Messages
    BY StateForms
  <2> QED
    BY <1>8, <2>1, <2>2
<1> HIDE DEF S, v
<1>10. Trail # <<>> /\ Trail[Len(Trail)] = node
  BY <1>9 DEF Trail
<1>11. /\ OwnOf(Append(Trail, v)) \subseteq OwnOf(Trail) \cup {v}
       /\ Together(Trail) => Together(Append(Trail, v))
       /\ VerdictsLast(Trail) => VerdictsLast(Append(Trail, v))
  BY <1>3, <1>8, <1>9, <1>10, OwnAppended
<1>12. Keeps(Trail', Append(Trail, v))
  <2>1. CASE UNCHANGED toMaster
    BY <1>8, <1>9, <2>1, Shapes DEF Trail
  <2>2. CASE Becomes(v)
    BY <1>8, <2>2, TrailGrows
  <2> QED
    BY <1>2, <1>7, <2>1, <2>2 DEF v
<1>13. /\ OwnOf(Trail') \subseteq {Building(task), v}
       /\ Together(Trail') /\ VerdictsLast(Trail')
  BY <1>6, <1>7, <1>11, <1>12 DEF Waiting, Keeps, v
<1>14. OwnOf(Trail)' = OwnOf(Trail') /\ Together(Trail)' = Together(Trail')
       /\ VerdictsLast(Trail)' = VerdictsLast(Trail') /\ Learnt' = Learnt
  BY DEF OwnOf, Own, Together, VerdictsLast, Learnt, View
<1>15. Live' = {} /\ Orders' = {}
  <2>1. LiveKept
    BY <1>1, CollectedLiveKeeps DEF NodeTyped
  <2> QED
    BY <1>4, <1>5, <2>1 DEF LiveKept, Orders
<1>16. OneOrder' /\ Quiet'
  BY <1>15 DEF OneOrder, Quiet
<1>17. Waiting'
  <2>1. worker_process' \in Slots => lastExit = slots'[worker_process'].step
    <3>1. worker_process' \in Slots => worker_process' = worker_process
      BY <1>2, SlotNames
    <3>2. worker_process' \in Slots => slots'[worker_process'] = slots[worker_process']
      BY <1>1, CollectedKeeps DEF NodeTyped
    <3> QED
      BY <1>2, <1>7, <3>1, <3>2
  <2>2. OwnOf(Trail)' \subseteq {Building(task'), Outcome(task', lastExit')}
    BY <1>7, <1>13, <1>14 DEF v
  <2>3. known' /\ task' \in Packages /\ (busy' => Learnt' = Idle)
        /\ Together(Trail)' /\ VerdictsLast(Trail)'
    BY <1>6, <1>13, <1>14 DEF Waiting
  <2> HIDE DEF Builds
  <2> QED
    BY <2>1, <2>2, <2>3 DEF Waiting, Building, Outcome
<1>18. Settled' /\ Unknown'
  BY <1>6 DEF Settled, Unknown
<1> QED
  BY <1>16, <1>17, <1>18

\* The message that the master receives, and the rest of the trail.
LEMMA Taken ==
  ASSUME NodeTyped, MasterReceives
  PROVE  /\ Head(toMaster) \in Messages /\ Keeps(Trail', Trail)
         /\ Own(Head(toMaster)) => Head(toMaster) \in OwnOf(Trail)
         /\ Together(Trail) /\ Own(Head(toMaster)) => First(Trail')
         /\ First(Trail) /\ ~Own(Head(toMaster)) /\ Head(toMaster) # Hello => OwnOf(Trail) = {}
         /\ VerdictsLast(Trail) /\ Own(Head(toMaster)) /\ Head(toMaster).st # "building" =>
              \A m \in OwnOf(Trail) : m.st # "building"
         /\ UNCHANGED <<node, slots, worker_process>>
<1> USE DEF NodeTyped
<1>1. toMaster # <<>> /\ toMaster' = Tail(toMaster) /\ UNCHANGED <<node, slots, worker_process>>
  BY DEF MasterReceives, tasks
<1>2. Head(toMaster) \in Messages /\ Keeps(Trail', Trail)
  BY <1>1, Typed, TrailStays
<1>3. 1 \in DOMAIN Trail /\ Trail[1] = Head(toMaster) /\ \A k \in DOMAIN Trail : 1 <= k
  BY <1>1 DEF Trail
<1>4. \A k \in DOMAIN Trail' : k \in Nat /\ k + 1 \in DOMAIN Trail /\ Trail'[k] = Trail[k + 1]
  BY <1>1 DEF Trail
<1>5. Own(Head(toMaster)) => Head(toMaster) \in OwnOf(Trail)
  BY <1>3 DEF OwnOf
<1>6. ASSUME Together(Trail), Own(Head(toMaster)) PROVE First(Trail')
  <2>1. ASSUME NEW k \in DOMAIN Trail', NEW l \in DOMAIN Trail', k <= l, Own(Trail'[l])
        PROVE  Own(Trail'[k]) \/ Trail'[k] = Hello
    <3>1. /\ k + 1 \in DOMAIN Trail /\ l + 1 \in DOMAIN Trail /\ k + 1 <= l + 1 /\ 1 <= k + 1
          /\ Trail'[k] = Trail[k + 1] /\ Trail'[l] = Trail[l + 1]
      BY <1>4, <2>1
    <3> QED
      BY <1>3, <1>6, <2>1, <3>1 DEF Together
  <2> QED
    BY <2>1 DEF First
<1>7. First(Trail) /\ ~Own(Head(toMaster)) /\ Head(toMaster) # Hello => OwnOf(Trail) = {}
  BY <1>3 DEF First, OwnOf
<1>8. VerdictsLast(Trail) /\ Own(Head(toMaster)) /\ Head(toMaster).st # "building" =>
        \A m \in OwnOf(Trail) : m.st # "building"
  BY <1>3 DEF VerdictsLast, OwnOf
<1> QED
  BY <1>1, <1>2, <1>5, <1>6, <1>7, <1>8

\* A verdict is one that the node can report; and what is one is no other report.
LEMMA Verdicts ==
  ASSUME NEW p \in Packages, NEW m \in Reports
  PROVE  /\ \A code : m = Outcome(p, code) =>
              m \in {Finished(p)} \cup {Failed(p, why) : why \in Reasons}
         /\ m \in {Finished(p)} \cup {Failed(p, why) : why \in Reasons} =>
              Own(m) /\ m.st # "building"
         /\ Building(p) \notin {Finished(p)} \cup {Failed(p, why) : why \in Reasons}
<1>1. \A why : /\ Finished(p).st = "finished" /\ Failed(p, why).st = "failed"
               /\ Building(p).st = "building" /\ Finished(p).pkg = p /\ Failed(p, why).pkg = p
               /\ Failed(p, why).why = why
  BY DEF Finished, Failed, Building, Shows
<1>2. ASSUME NEW code, m = Failed(p, code) PROVE code \in Reasons
  <2>1. m.st = "failed" /\ m.why = code
    BY <1>1, <1>2
  <2>2. \A q, why : /\ Failed(q, why).why = why
                    /\ Building(q).st # "failed" /\ Finished(q).st # "failed"
    BY DEF Failed, Building, Finished, Shows
  <2>3. Idle.st # "failed" /\ Maintenance.st # "failed"
    BY DEF Idle, Maintenance, Plain, Shows
  <2>4. PICK q \in Names, why \in Reasons : m = Failed(q, why)
    BY <2>1, <2>2, <2>3, ReportForms
  <2> QED
    BY <2>1, <2>2, <2>4
<1> QED
  BY <1>1, <1>2 DEF Own, Outcome

\* Whether a sequence is in order does not depend on the state.
LEMMA Rigid ==
  /\ OwnOf(Trail)' = OwnOf(Trail') /\ Together(Trail)' = Together(Trail')
  /\ VerdictsLast(Trail)' = VerdictsLast(Trail') /\ First(Trail)' = First(Trail')
  /\ UNCHANGED toNode => Orders' = Orders
  /\ UNCHANGED slots => Live' = Live
BY DEF OwnOf, Own, Together, VerdictsLast, First, Orders, Live

\* A message that ends the wait, or comes when there is none.
LEMMA WaitIsOver ==
  ASSUME TypeOK, known', ~building', Orders' = {}, Live' = {},
         OwnOf(Trail') \subseteq {Learnt'}, Own(Learnt') => Learnt'.st # "building", First(Trail')
  PROVE  Builds'
<1>1. OneOrder' /\ Quiet'
  <2>1. \A m \in OwnOf(Trail)' :
          Orders' = {} /\ \A i \in Live' : slots'[i].step = "running" /\ m.st = "building"
    OBVIOUS
  <2> QED
    BY <2>1 DEF OneOrder, Quiet
<1>2. Waiting' /\ Unknown'
  BY DEF Waiting, Unknown
<1>3. Settled'
  BY Rigid DEF Settled, Own
<1> QED
  BY <1>1, <1>2, <1>3 DEF Builds

\* A message that is received.
LEMMA ReceivedKeeps ==
  ASSUME TypeOK, TypeOK', Builds, MasterReceives, known, Received(Head(toMaster)), UNCHANGED known
  PROVE  Builds'
<1> USE DEF TypeOK, MasterTyped
<1> DEFINE m == Head(toMaster)
<1>0. /\ m \in Messages /\ Keeps(Trail', Trail) /\ UNCHANGED <<node, slots, worker_process>>
      /\ Own(m) => m \in OwnOf(Trail)
  BY Taken
<1>1. UNCHANGED lastExit
  BY DEF MasterReceives
<1>k. LiveKept /\ StateKept
  <2>1. Live' = Live
    BY <1>0 DEF Live
  <2> QED
    BY <1>0, <2>1 DEF LiveKept, StateKept
<1>2. CASE ~Differs(m)
  <2>1. UNCHANGED <<stored, busy, task, building, toNode>>
    BY <1>2 DEF Received
  <2>2. OrdersKept
    BY <2>1, ChannelKeeps
  <2>3. Undisturbed
    BY <1>0, <1>1, <1>k, <2>1, <2>2 DEF Undisturbed
  <2> QED
    BY <2>3, UndisturbedKeeps
<1>3. CASE Differs(m)
  <2>1. stored' = Updated(m)
    BY <1>3 DEF Received
  <2>2. m \in Reports /\ m # Learnt /\ Learnt' = m
    BY <1>0, <1>3, <2>1, Learns
  <2>3. View(Updated(m), FALSE) = m
    BY <2>2, Heard
  <2>4. /\ busy' = ResetsAfter(m) /\ task' = TaskAfter(m)
        /\ building' = (building /\ ~IsVerdict(m))
        /\ toNode' = IF ResetsAfter(m) THEN Append(toNode, "reset") ELSE toNode
    BY <1>3, <2>3 DEF Received
  <2> HIDE DEF m
  <2>5. OrdersKept
    BY <2>4, ChannelKeeps
  <2>6. Orders = {} => Orders' = {}
    BY <2>5 DEF OrdersKept
  <2>7. Live' = Live
    BY <1>0 DEF Live
  <2>8. m # Hello
    BY <2>2, HelloIsNoReport
  <2>9. CASE ~building
    <3>1. Orders = {} /\ Live = {}
      BY <2>9 DEF Builds, OneOrder
    <3>2. ~Own(m)
      BY <1>0, <2>2, <2>9 DEF Builds, Settled
    <3>3. First(Trail)
      BY <2>9 DEF Builds, Settled
    <3>4. OwnOf(Trail) = {}
      BY <3>2, <3>3, <2>8, Taken DEF m
    <3>5. OwnOf(Trail') = {}
      BY <1>0, <3>4 DEF Keeps
    <3>6. First(Trail')
      BY <1>0, <3>3 DEF Keeps
    <3>7. ~Own(Learnt')
      BY <2>2, <3>2
    <3>8. ~building' /\ known'
      BY <2>4, <2>9
    <3> QED
      BY <2>6, <2>7, <3>1, <3>5, <3>6, <3>7, <3>8, WaitIsOver
  <2>10. CASE building /\ IsVerdict(m)
    <3>1. task \in Packages /\ Own(m) /\ m.st # "building"
      BY <2>2, <2>10, Verdicts DEF IsVerdict
    <3>2. Together(Trail) /\ VerdictsLast(Trail)
          /\ OwnOf(Trail) \subseteq {Building(task), Outcome(task, lastExit)}
      BY <2>10 DEF Builds, Waiting
    <3>3. \A e \in OwnOf(Trail) : e.st # "building"
      BY <3>1, <3>2, Taken DEF m
    <3>4. OwnOf(Trail) \subseteq {m}
      <4>1. OwnOf(Trail) \subseteq {Outcome(task, lastExit)}
        BY <3>2, <3>3, OwnForms
      <4> QED
        BY <1>0, <3>1, <4>1
    <3>5. Orders = {} /\ Live = {}
      BY <1>0, <3>1 DEF Builds, Quiet
    <3>6. OwnOf(Trail') \subseteq {Learnt'}
      BY <1>0, <2>2, <3>4 DEF Keeps
    <3>7. First(Trail')
      BY <3>1, <3>2, Taken DEF m
    <3>8. ~building' /\ known'
      BY <2>4, <2>10
    <3>9. Learnt'.st # "building"
      BY <2>2, <3>1
    <3> QED
      BY <2>6, <2>7, <3>5, <3>6, <3>7, <3>8, <3>9, WaitIsOver
  <2>11. CASE building /\ ~IsVerdict(m)
    <3>1. /\ task \in Packages
          /\ OwnOf(Trail) \subseteq {Building(task), Outcome(task, lastExit)}
      BY <2>11 DEF Builds, Waiting
    <3>2. m \notin {Finished(task)} \cup {Failed(task, why) : why \in Reasons}
      BY <2>11, <3>1 DEF IsVerdict
    <3>3. Own(m) => m = Building(task)
      BY <1>0, <2>2, <3>1, <3>2, Verdicts
    <3>4. ~ResetsAfter(m)
      BY <3>2 DEF ResetsAfter, Reasons
    <3>5. TaskAfter(m) = task
      <4>1. m.pkg \in Packages => m.pkg = task
        <5>1. Building(task).pkg = task
          BY DEF Building, Shows
        <5> QED
          BY <3>3, <5>1 DEF Own
      <4>2. ~Freed(m)
        BY <3>1, NamesApart DEF Freed
      <4>3. m # Failed(task, "node/try_again")
        BY <3>2 DEF Reasons
      <4> QED
        BY <3>4, <4>1, <4>2, <4>3 DEF TaskAfter
    <3>6. UNCHANGED <<known, task, building, lastExit>> /\ ~busy'
      BY <1>1, <2>4, <2>11, <3>4, <3>5
    <3>7. Undisturbed
      BY <1>0, <1>k, <2>5, <2>11, <3>6 DEF Undisturbed
    <3> QED
      BY <3>7, UndisturbedKeeps
  <2> QED
    BY <2>9, <2>10, <2>11
<1> QED
  BY <1>2, <1>3

\* The message that makes the proxy.
LEMMA DiscoveredKeeps ==
  ASSUME TypeOK, TypeOK', Builds, MasterReceives, ~known, Discovered(Head(toMaster))
  PROVE  Builds'
<1> USE DEF TypeOK, MasterTyped
<1> DEFINE m == Head(toMaster)
<1>0. /\ m \in Messages /\ Keeps(Trail', Trail) /\ UNCHANGED <<node, slots, worker_process>>
      /\ Own(m) => m \in OwnOf(Trail)
  BY Taken
<1>1. /\ known' = TRUE /\ UNCHANGED <<busy, task, building>>
      /\ stored' = IF Differs(m) THEN Updated(m) ELSE stored
      /\ toNode' = Append(toNode, "get_status")
  BY DEF Discovered
<1>2. ~building /\ stored = Idle
  BY DEF Builds, Unknown
<1> HIDE DEF m
<1>3. Learnt = Idle
  BY <1>2 DEF Learnt, View, Idle, Plain, Shows
<1>4. OwnOf(Trail) = {} /\ First(Trail)
  BY <1>2, <1>3, OwnForms, NothingSaid DEF Builds, Settled
<1>5. OwnOf(Trail') = {} /\ First(Trail')
  BY <1>0, <1>4 DEF Keeps
<1>6. ~Own(Learnt')
  <2>1. CASE Differs(m)
    <3>1. Learnt' = m
      BY <1>0, <1>1, <2>1, Learns
    <3> QED
      BY <1>0, <1>4, <3>1
  <2>2. CASE ~Differs(m)
    <3>1. Learnt' = Learnt
      BY <1>1, <2>2 DEF Learnt, View
    <3> QED
      BY <1>3, <3>1, OwnForms
  <2> QED
    BY <2>1, <2>2
<1>7. Live' = {} /\ Orders' = {}
  <2>1. Live = {} /\ Orders = {}
    BY <1>2 DEF Builds, OneOrder
  <2>2. OrdersKept
    BY <1>1, ChannelKeeps
  <2> QED
    BY <1>0, <2>1, <2>2 DEF OrdersKept, Live
<1> QED
  BY <1>1, <1>2, <1>5, <1>6, <1>7, WaitIsOver

-----------------------------------------------------------------------------
(* Every step.                                                             *)

\* What is said of the master's builds stays true.
LEMMA BuildsPreserved ==
  ASSUME TypeOK, TypeOK', Started, Builds, [Next]_vars
  PROVE  Builds'
<1> USE DEF TypeOK, MasterTyped
<1>s. UNCHANGED <<node, slots, worker_process>> => LiveKept /\ StateKept
  BY DEF LiveKept, Live, StateKept
<1>u. Keeps(Trail', Trail) /\ LiveKept /\ StateKept /\ OrdersKept
        /\ UNCHANGED <<proxyVars, lastExit>> => Builds'
  BY UndisturbedKeeps DEF Undisturbed, proxyVars
<1>o. UNCHANGED toNode => OrdersKept
  BY ChannelKeeps
<1>1. CASE MasterReceives
  BY <1>1, ReceivedKeeps, DiscoveredKeeps DEF MasterReceives
<1>2. CASE Poll \/ Search
  <2>1. UNCHANGED <<node, slots, worker_process, toMaster, proxyVars, lastExit>>
    BY <1>2 DEF Poll, Search, nodeVars, tasks
  <2>2. OrdersKept
    BY <1>2, ChannelKeeps DEF Poll, Search
  <2>3. Keeps(Trail', Trail)
    BY <2>1, TrailStays
  <2> QED
    BY <1>s, <1>u, <2>1, <2>2, <2>3
<1>3. ASSUME NEW p \in Packages, Assign(p) PROVE Builds'
  BY <1>3, AssignKeeps
<1>4. CASE NodeReceives
  <2>1. CASE Head(toNode) \in Packages
    BY <1>4, <2>1, OrderTaken
  <2>2. CASE Head(toNode) \notin Packages
    <3>1. Head(toNode) \in {"identify", "get_status", "reset"}
      BY <1>4, <2>2, Typed DEF NodeReceives, Requests
    <3>2. OrdersKept
      BY <1>4, ChannelKeeps DEF NodeReceives
    <3>3. UNCHANGED <<proxyVars, lastExit>>
      BY <1>4 DEF NodeReceives
    <3>4. CASE Head(toNode) = "identify"
      <4>1. toMaster' = Append(toMaster, Hello) /\ UNCHANGED <<node, slots, worker_process>>
        BY <1>4, <3>4 DEF NodeReceives, Handle, tasks
      <4>2. Keeps(Trail', Trail)
        BY <4>1, TrailStays
      <4> QED
        BY <1>s, <1>u, <3>2, <3>3, <4>1, <4>2
    <3>5. CASE Head(toNode) \in {"get_status", "reset"}
      <4>1. SendStatus \/ RequestReset
        BY <1>4, <3>5 DEF NodeReceives, Handle
      <4>2. Keeps(Trail', Trail) /\ LiveKept /\ StateKept
        BY <4>1, RequestsUndisturb
      <4> QED
        BY <1>u, <3>2, <3>3, <4>2
    <3> QED
      BY <3>1, <3>4, <3>5
  <2> QED
    BY <2>1, <2>2
<1>5. CASE OtherClient
  <2>1. Keeps(Trail', Trail) /\ LiveKept /\ StateKept
    BY <1>5, RequestsUndisturb DEF OtherClient
  <2> QED
    BY <1>5, <1>o, <1>u, <2>1 DEF OtherClient
<1>6. CASE GoesWrong
  <2>1. CASE Forget
    <3>1. UNCHANGED <<node, slots, worker_process, toMaster>>
      BY <2>1 DEF Forget, tasks
    <3>2. Keeps(Trail', Trail)
      BY <3>1, TrailStays
    <3> QED
      BY <1>6, <1>o, <1>s, <1>u, <3>1, <3>2 DEF GoesWrong
  <2>2. ASSUME NEW i \in Slots, StartFails(i) PROVE Builds'
    <3>1. Keeps(Trail', Trail) /\ LiveKept /\ StateKept
      BY <2>2, TasksUndisturb
    <3> QED
      BY <1>6, <1>o, <1>u, <3>1 DEF GoesWrong
  <2> QED
    BY <1>6, <2>1, <2>2 DEF GoesWrong
<1>7. CASE Lose
  <2>1. UNCHANGED <<node, slots, worker_process, proxyVars, lastExit>>
    BY <1>7 DEF Lose, tasks
  <2>2. OrdersKept
    BY <1>7, ChannelKeeps DEF Lose
  <2>3. Keeps(Trail', Trail)
    BY <1>7, <2>1, TrailStays DEF Lose
  <2> QED
    BY <1>s, <1>u, <2>1, <2>2, <2>3
<1>8. ASSUME NEW i \in Slots, NodeRuns(i) PROVE Builds'
  <2>1. NodeSteps(i) /\ UNCHANGED <<proxyVars, toNode, lastExit>>
    BY <1>8 DEF NodeRuns
  <2>2. UNCHANGED <<known, stored, busy, task, building, lastExit, toNode>>
    BY <2>1 DEF proxyVars
  <2>3. CASE StartEnds(i) /\ slots[i].pkg \in Packages
    BY <2>2, <2>3, OwnStarts
  <2>4. CASE MonitorEnds(i) /\ Own(node') /\ node' # node
    BY <2>2, <2>4, VerdictGiven
  <2>5. CASE \/ StartBegins(i) \/ MonitorBegins(i)
             \/ StartEnds(i) /\ slots[i].pkg \notin Packages
             \/ MonitorEnds(i) /\ (Own(node') => node' = node)
    <3>1. Keeps(Trail', Trail) /\ LiveKept /\ StateKept
      BY <2>5, TasksUndisturb
    <3> QED
      BY <1>o, <1>u, <2>1, <3>1
  <2> QED
    BY <2>1, <2>3, <2>4, <2>5 DEF NodeSteps
<1>9. ASSUME NEW i \in Slots, WorkerEnds(i) PROVE Builds'
  <2>1. PICK code \in Exits :
          /\ WorkerExits(i, code)
          /\ lastExit' = IF slots[i].pkg = task THEN code ELSE lastExit
          /\ UNCHANGED <<proxyVars, toNode>>
    BY <1>9 DEF WorkerEnds
  <2>2. CASE slots[i].pkg \in Packages
    BY <2>1, <2>2, OwnEnds DEF proxyVars
  <2>3. CASE slots[i].pkg \notin Packages
    <3>1. Keeps(Trail', Trail) /\ LiveKept /\ StateKept
      BY <2>1, <2>3, TasksUndisturb
    <3>2. slots[i].pkg # task
      <4>1. slots[i].step # "unused"
        BY <2>1 DEF WorkerExits
      <4>2. slots[i].pkg \in Names
        BY <4>1, SlotTyped DEF NodeTyped
      <4> QED
        BY <2>3, <4>2, NamesApart
    <3> QED
      BY <1>o, <1>u, <2>1, <3>1, <3>2
  <2> QED
    BY <2>2, <2>3
<1>10. CASE UNCHANGED vars
  <2>1. UNCHANGED <<node, slots, worker_process, toMaster, toNode, proxyVars, lastExit>>
    BY <1>10 DEF vars, nodeVars, tasks
  <2>2. Keeps(Trail', Trail)
    BY <2>1, TrailStays
  <2> QED
    BY <1>o, <1>s, <1>u, <2>1, <2>2
<1> QED
  BY <1>1, <1>2, <1>3, <1>4, <1>5, <1>6, <1>7, <1>8, <1>9, <1>10 DEF Next

\* The invariant holds at first: nothing has been said or asked.
LEMMA InitIInv == Init => IInv
<1> SUFFICES ASSUME Init PROVE IInv
  OBVIOUS
<1> USE DEF Init, NodeInit
<1>1. NodeTyped
  <2>1. Unused \in SlotStates /\ Idle \in States /\ <<>> \in Seq(Messages)
    BY StateForms DEF SlotStates
  <2> QED
    BY <2>1 DEF NodeTyped
<1>2. Learnt = Idle /\ Idle \in Reports
  BY DEF Learnt, View, Idle, Plain, Shows, Reports
<1>3. MasterTyped
  <2>1. <<>> \in Seq(Requests)
    OBVIOUS
  <2> QED
    BY <1>2, <2>1 DEF MasterTyped
<1>4. Started
  BY SlotNames DEF Started
<1>5. Orders = {} /\ Live = {}
  <2>1. Unused.pkg \notin Packages
    BY NamesApart DEF Unused
  <2>2. DOMAIN toNode = {}
    OBVIOUS
  <2> QED
    BY <2>1, <2>2 DEF Orders, Live
<1>6. OwnOf(Trail) = {}
  <2>1. DOMAIN Trail = {1} /\ Trail[1] = Idle
    BY DEF Trail
  <2> QED
    BY <2>1, OwnForms DEF OwnOf
<1>7. OneOrder /\ Quiet
  BY <1>5, <1>6 DEF OneOrder, Quiet
<1>8. Waiting /\ Unknown
  BY DEF Waiting, Unknown
<1>9. Settled
  BY <1>2, <1>6, OwnForms, NothingSaid DEF Settled
<1> QED
  BY <1>1, <1>3, <1>4, <1>7, <1>8, <1>9 DEF IInv, TypeOK

\* Every step keeps it.
LEMMA NextIInv == IInv /\ [Next]_vars => IInv'
<1> SUFFICES ASSUME IInv, [Next]_vars PROVE IInv'
  OBVIOUS
<1>1. TypeOK /\ Started /\ Builds
  BY DEF IInv, Builds
<1>2. TypeOK'
  BY <1>1, TypePreserved
<1>3. Started'
  BY <1>1, StartedPreserved
<1>4. Builds'
  BY <1>1, <1>2, BuildsPreserved
<1> QED
  BY <1>2, <1>3, <1>4 DEF IInv, Builds

\* The invariant that all of the below follows from: what is on its way, in
\* whichever order the tasks and the messages come.
THEOREM Inductive == Spec => []IInv
<1>1. Init => IInv
  BY InitIInv
<1>2. IInv /\ [Next]_vars => IInv'
  BY NextIInv
<1> QED
  BY <1>1, <1>2, PTL DEF Spec

\* The variables of the proxy and of the node have their types: in particular a
\* message never makes the proxy show anything but a state of a node.
THEOREM TypeCorrect == Spec => []TypeOK
<1>1. IInv => TypeOK
  BY DEF IInv
<1> QED
  BY <1>1, Inductive, PTL

\* The invariant implies what the model of the controller assumes.
LEMMA AssumedHolds == IInv => ReportsAsAssumed
<1> SUFFICES ASSUME IInv, known, toMaster # <<>>, Differs(Head(toMaster))
             PROVE  View(Updated(Head(toMaster)), FALSE) \in
                      NextReports(IF building THEN {task} ELSE {}, Shown, Foreign)
  BY DEF ReportsAsAssumed
<1> DEFINE m == Head(toMaster)
           own == IF building THEN {task} ELSE {}
<1>t. TypeOK /\ NodeTyped /\ MasterTyped
  BY DEF IInv, TypeOK
<1>1. m \in Messages
  BY <1>t, Typed DEF NodeTyped
<1>2. m # Hello
  BY DEF Differs
<1>3. m \in Reports
  BY <1>1, <1>2 DEF Messages
<1>4. View(Updated(m), FALSE) = m /\ m # Learnt
  BY <1>3, <1>t, Heard DEF MasterTyped
<1>5. Own(m) => m \in OwnOf(Trail)
  <2>1. 1 \in DOMAIN Trail /\ Trail[1] = m
    BY <1>t DEF Trail, NodeTyped
  <2> QED
    BY <2>1 DEF OwnOf
<1> HIDE DEF m
<1>6. Own(m) => building /\ m.pkg = task
  <2>1. ASSUME Own(m), ~building PROVE FALSE
    BY <1>4, <1>5, <2>1 DEF IInv, Settled
  <2>2. ASSUME Own(m), building PROVE m.pkg = task
    <3>1. m \in {Building(task), Outcome(task, lastExit)}
      BY <1>5, <2>2 DEF IInv, Waiting
    <3>2. Building(task).pkg = task /\ Outcome(task, lastExit).pkg = task
      BY DEF Building, Outcome, Finished, Failed, Shows
    <3> QED
      BY <3>1, <3>2
  <2> QED
    BY <2>1, <2>2
<1>7. m \in ReportsAbout(own \cup Foreign) \cup {Idle, Maintenance}
  <2>1. \A p \in Names : p \in Packages \cup Foreign
    BY BuildClusterAssumption
  <2>2. ASSUME NEW p \in Names, m = Building(p) \/ m = Finished(p) PROVE p \in own \cup Foreign
    <3>0. Building(p).pkg = p /\ Finished(p).pkg = p
      BY DEF Building, Finished, Shows
    <3>1. m.pkg = p
      BY <2>2, <3>0
    <3> QED
      BY <1>6, <2>1, <3>1 DEF Own
  <2>3. ASSUME NEW p \in Names, NEW why \in Reasons, m = Failed(p, why)
        PROVE  p \in own \cup Foreign
    <3>1. m.pkg = p
      BY <2>3 DEF Failed, Shows
    <3> QED
      BY <1>6, <2>1, <3>1 DEF Own
  <2> HIDE DEF own
  <2> QED
    BY <1>3, <2>2, <2>3, ReportForms DEF ReportsAbout
<1>8. Shown = View(stored, busy) /\ Learnt = View(stored, FALSE)
  BY DEF Shown, Learnt
<1>9. m \notin (IF own # {} /\ Shown = Busy THEN {Idle} ELSE {Shown})
  <2>0. Busy \notin Reports
    <3>1. Busy.st = "busy"
      BY DEF Busy, Plain, Shows
    <3>2. \A r \in Reports : r.st # "busy"
      <4>1. \A p, why : /\ Building(p).st # "busy" /\ Finished(p).st # "busy"
                        /\ Failed(p, why).st # "busy"
        BY DEF Building, Finished, Failed, Shows
      <4>2. Idle.st # "busy" /\ Maintenance.st # "busy"
        BY DEF Idle, Maintenance, Plain, Shows
      <4> QED
        BY <4>1, <4>2, ReportForms
    <3> QED
      BY <3>1, <3>2
  <2>1. CASE busy
    <3>1. Shown = Busy
      BY <1>8, <2>1 DEF View
    <3>2. building => Learnt = Idle
      BY <2>1 DEF IInv, Waiting
    <3> QED
      BY <1>3, <1>4, <2>0, <3>1, <3>2
  <2>2. CASE ~busy
    <3>1. Shown = Learnt
      BY <1>8, <1>t, <2>2 DEF MasterTyped
    <3>2. Shown # Busy
      BY <1>t, <2>0, <3>1 DEF MasterTyped
    <3> QED
      BY <1>4, <3>1, <3>2
  <2> QED
    BY <1>t, <2>1, <2>2 DEF MasterTyped
<1> QED
  BY <1>4, <1>7, <1>9 DEF NextReports, m

\* What the proxy of a build node shows next is one of the reports that the
\* controller's own model admits: the assumption of BuildMaster is met.
THEOREM ControllerIsToldTheRightThings == Spec => []ReportsAsAssumed
BY AssumedHolds, Inductive, PTL

\* The invariant implies that verdicts are fresh.
LEMMA FreshHolds == IInv => VerdictIsFresh
<1> SUFFICES ASSUME IInv, toMaster # <<>>, Differs(Head(toMaster)), task \in Packages
             PROVE  LET s == View(Updated(Head(toMaster)), FALSE)
                    IN /\ s = Finished(task) => lastExit = "success"
                       /\ \A why \in Reasons : s = Failed(task, why) => lastExit = why
  BY DEF VerdictIsFresh
<1> DEFINE m == Head(toMaster)
<1>t. TypeOK /\ NodeTyped /\ MasterTyped
  BY DEF IInv, TypeOK
<1>1. m \in Messages /\ m # Hello
  BY <1>t, Typed DEF NodeTyped, Differs
<1>2. m \in Reports
  BY <1>1 DEF Messages
<1>3. View(Updated(m), FALSE) = m /\ m # Learnt
  BY <1>2, <1>t, Heard DEF MasterTyped
<1>4. Own(m) => m \in OwnOf(Trail)
  <2>1. 1 \in DOMAIN Trail /\ Trail[1] = m
    BY <1>t DEF Trail, NodeTyped
  <2> QED
    BY <2>1 DEF OwnOf
<1> HIDE DEF m
<1>5. Own(m) => m \in {Building(task), Outcome(task, lastExit)}
  BY <1>3, <1>4 DEF IInv, Settled, Waiting
<1>6. \A p, why : /\ Finished(p).st = "finished" /\ Failed(p, why).st = "failed"
                  /\ Building(p).st = "building" /\ Finished(p).pkg = p
                  /\ Failed(p, why).pkg = p /\ Failed(p, why).why = why
  BY DEF Finished, Failed, Building, Shows
<1>7. m = Finished(task) => lastExit = "success"
  BY <1>5, <1>6 DEF Own, Outcome
<1>8. ASSUME NEW why \in Reasons, m = Failed(task, why) PROVE lastExit = why
  <2>1. m = Outcome(task, lastExit) /\ m.st = "failed" /\ m.why = why
    BY <1>5, <1>6, <1>8 DEF Own
  <2> QED
    BY <1>6, <2>1 DEF Outcome
<1> QED
  BY <1>3, <1>7, <1>8 DEF m

\* A verdict that the controller takes up is that of the worker started for this
\* assignment, never a late answer about an earlier build of the same package.
THEOREM VerdictsAreFresh == Spec => []VerdictIsFresh
BY FreshHolds, Inductive, PTL

\* The invariant implies that there is one own worker.
LEMMA OneHolds == IInv => OneOwnWorker
BY DEF IInv, OneOrder, Orders, Live, OneOwnWorker

\* The master never has two of its builds on one node, nor an order on its way to a
\* node that has one.
THEOREM OneBuildAtATime == Spec => []OneOwnWorker
BY OneHolds, Inductive, PTL

=============================================================================
