------------------------- MODULE PackageBuild_proofs -------------------------
(***************************************************************************)
(* Theorems about a package's way through the build pipeline, for any      *)
(* number of stages, any earlier builds, and without the bounds on what    *)
(* operators outdate, on failures and on deaths of the builder.            *)
(***************************************************************************)
EXTENDS PackageBuild, SequenceTheorems, WellFoundedInduction, TLAPS

-----------------------------------------------------------------------------
(* The inductive invariant.                                                *)

Statuses == {"begin", "success", "failed", "outdated"}
Entries == [stage : Stages \cup {Gone}, status : Statuses, snap : Nat]
Logs == Seq(Entries)

\* The builder does not know yet where to start; a stage's run has begun.
Before == {"idle", "locked", "mounted"}
UnderWay == {"flow", "snapshot", "succeeded", "failed"}

TypeOK ==
  /\ events \in Logs
  /\ snaps \subseteq [stage : Stages \cup {Gone}, run : Nat, holds : Seq(Nat)]
  /\ holds \in Seq(Nat) /\ dirty \in BOOLEAN
  /\ pc \in Before \cup UnderWay \cup {"restore", "rollback", "clean", "stages"}
  /\ stage \in Stages \cup {None}
  /\ outdates \in Nat /\ trouble \in Nat

\* The stage that the builder is at is the one where the log says to start, and once its
\* run has begun that is the last event.
AtItsStage ==
  /\ pc \in Before => stage = None
  /\ pc \notin Before => stage = StartsAt(events)
  /\ pc \in UnderWay =>
       /\ Len(events) \in DOMAIN events
       /\ events[Len(events)].status = "begin" /\ events[Len(events)].stage = stage

\* Successes, and only they, name runs; later ones name later runs.
RunsInOrder ==
  /\ \A i \in DOMAIN events :
       IF events[i].status = "success" THEN events[i].snap \in 1 .. i
       ELSE events[i].snap = NoSnapshot
  /\ \A i, j \in With(events, "success") : i < j => events[i].snap < events[j].snap

\* Snapshots are of runs that have begun, the one of the run under way is as the stage has
\* left the space, and a logged one is of the stage that the log says.
SnapshotsOfRuns ==
  /\ \A s \in snaps : s.run \in 1 .. Len(events)
  /\ pc \in {"flow", "snapshot"} => \A s \in snaps : s.run < Len(events)
  /\ pc = "succeeded" =>
       /\ \E s \in snaps : s.run = Len(events)
       /\ \A s \in snaps : s.run = Len(events) => s.stage = stage /\ s.holds = holds
  /\ \A s \in snaps, i \in DOMAIN events :
       events[i].snap = s.run => events[i].stage = s.stage

IInv ==
  /\ TypeOK /\ AtItsStage /\ RunsInOrder /\ SnapshotsOfRuns
  /\ OutdatedIsRebuilt /\ RestorePointKept

\* All stages before st have succeeded once.
Complete(st) == \A t \in 1 .. st - 1 : Successes(events, t) # {}

\* What is known of the contents wherever the builder is.
BuilderHolds ==
  /\ pc \in {"restore", "rollback"} => MustRestore(events)
  /\ pc = "clean" => StageBefore(events) = Gone
  /\ pc = "stages" /\ stage # None =>
       Complete(stage) /\ ~dirty /\ holds = Predecessors(stage)
  /\ pc = "flow" => Complete(stage) /\ holds = Predecessors(stage)
  /\ pc \in {"snapshot", "succeeded"} =>
       /\ Complete(stage) /\ ~dirty
       /\ holds = Append(Predecessors(stage), Len(events))

\* The newest event that is not an outdated one.
Actions(ev) == DOMAIN ev \ With(ev, "outdated")
LastOf(ev) == ev[Newest(Actions(ev))]

\* A run that has not succeeded is done again.
UnfinishedIsAhead ==
  Actions(events) # {} /\ LastOf(events).status # "success" =>
    StartsAt(events) <= LastOf(events).stage

\* If the next stage is the one after the last success, the space is as that has left it.
LeftBySuccess ==
  /\ Actions(events) # {} /\ LastOf(events).status = "success"
  /\ LastOf(events).stage \in 1 .. NumStages - 1
  /\ StartsAt(events) = LastOf(events).stage + 1
  => ~dirty /\ holds = Predecessors(StartsAt(events))

\* The snapshots of stages that need not be built again hold the last results of these
\* and the ones before.
SnapshotsHold ==
  \A k \in 1 .. NumStages - 1 :
    k < StartsAt(events) /\ Successes(events, k) # {} =>
      \A s \in snaps : s.run = LastSuccessOf(events, k).snap => s.holds = Predecessors(k + 1)

\* No stage but the last succeeds before those before it.
NoneSkipped ==
  \A k \in 1 .. NumStages - 1 : Successes(events, k) # {} => Complete(k)

Contents ==
  BuilderHolds /\ UnfinishedIsAhead /\ LeftBySuccess /\ SnapshotsHold /\ NoneSkipped

\* What earlier builds have left is a run of every stage, up to the last or to where the
\* build stopped; stages may have come or gone since only in packages built completely.
Unbroken ==
  \A h \in Histories : \A i \in DOMAIN h :
    \/ h[i].stage \in {Gone, NumStages}
    \/ \A j \in 1 .. i : h[j].stage = j

-----------------------------------------------------------------------------
(* The newest of a set of positions, and what an event adds to a log.      *)

\* A set of positions has a newest one.
LEMMA NewestIsMax ==
  ASSUME NEW n \in Nat, NEW S \in SUBSET (1 .. n), S # {}
  PROVE  Newest(S) \in S /\ \A j \in S : j <= Newest(S)
<1> DEFINE R == OpToRel(<, Nat)
           T == {n - i : i \in S}
<1>1. T \subseteq Nat /\ T # {}
  <2>1. \A i \in S : i \in 1 .. n
    OBVIOUS
  <2>2. \A i \in 1 .. n : n - i \in Nat
    OBVIOUS
  <2>. QED BY <2>1, <2>2
<1>2. PICK x \in T : \A y \in T : <<y, x>> \notin R
  <2> HIDE DEF T, R
  <2>1. IsWellFoundedOn(R, Nat)
    BY NatLessThanWellFounded DEF R
  <2>. QED BY <1>1, <2>1, WFMin
<1>3. PICK i \in S : x = n - i
  OBVIOUS
<1>4. \A j \in S : j <= i
  <2> SUFFICES ASSUME NEW j \in S, j > i PROVE FALSE
    OBVIOUS
  <2>1. n - j \in T /\ n - j \in Nat /\ n - i \in Nat /\ n - j < n - i
    OBVIOUS
  <2>2. <<n - j, n - i>> \in R
    BY <2>1 DEF OpToRel
  <2>. QED BY <1>2, <1>3, <2>1, <2>2
<1>. QED BY <1>3, <1>4 DEF Newest

\* The newest is the one that is not before any other.
LEMMA NewestIs ==
  ASSUME NEW n \in Nat, NEW S \in SUBSET (1 .. n), NEW i \in S, \A j \in S : j <= i
  PROVE  Newest(S) = i
<1>1. Newest(S) \in S /\ \A j \in S : j <= Newest(S)
  BY NewestIsMax
<1>2. \A j \in S : j \in Int
  OBVIOUS
<1>3. Newest(S) <= i /\ i <= Newest(S) /\ Newest(S) \in Int /\ i \in Int
  BY <1>1, <1>2
<1>. QED BY <1>3

\* The first of the outdated stages that the pipeline has.
LEMMA FirstIsMin ==
  ASSUME NEW ev,
         NEW C, C = OutdatedCandidates(ev) \cap Stages
  PROVE  /\ C = {} => FirstOutdated(ev) = None
         /\ C # {} => FirstOutdated(ev) \in C /\ \A t \in C : FirstOutdated(ev) <= t
<1> DEFINE R == OpToRel(<, Nat)
<1> SUFFICES ASSUME C # {} PROVE \E s \in C : \A t \in C : s <= t
  BY DEF FirstOutdated
<1>1. C \subseteq Nat
  BY NumStagesAssumption DEF Stages
<1>2. PICK x \in C : \A y \in C : <<y, x>> \notin R
  <2> HIDE DEF R
  <2>1. IsWellFoundedOn(R, Nat)
    BY NatLessThanWellFounded DEF R
  <2>. QED BY <1>1, <2>1, WFMin
<1>3. \A y \in C : ~(y < x)
  BY <1>1, <1>2 DEF OpToRel
<1>. QED BY <1>1, <1>3

\* FirstOutdated is a stage or None, and the latter only if no stage is outdated.
LEMMA FirstOutdatedType ==
  ASSUME NEW ev
  PROVE  /\ FirstOutdated(ev) \in Stages \cup {None}
         /\ \A t \in OutdatedCandidates(ev) \cap Stages : FirstOutdated(ev) <= t
         /\ FirstOutdated(ev) # None => FirstOutdated(ev) \in OutdatedCandidates(ev)
<1>1. CASE OutdatedCandidates(ev) \cap Stages = {}
  BY <1>1, FirstIsMin
<1>2. CASE OutdatedCandidates(ev) \cap Stages # {}
  BY <1>2, FirstIsMin
<1>. QED BY <1>1, <1>2

\* The last successful stage is one of the pipeline, one that it has lost, or none.
LEMMA LastSuccessfulType ==
  ASSUME NEW ev \in Logs
  PROVE  LastSuccessful(ev) \in Stages \cup {Gone, None}
<1>1. With(ev, "success") \in SUBSET (1 .. Len(ev))
  BY DEF Logs, With
<1>2. CASE With(ev, "success") # {}
  <2>1. Len(ev) \in Nat /\ DOMAIN ev = 1 .. Len(ev)
    BY DEF Logs
  <2>2. Newest(With(ev, "success")) \in 1 .. Len(ev)
    BY <1>1, <1>2, <2>1, NewestIsMax
  <2>3. ev[Newest(With(ev, "success"))] \in Entries
    BY <2>1, <2>2 DEF Logs
  <2>4. ev[Newest(With(ev, "success"))].stage \in Stages \cup {Gone}
    BY <2>3 DEF Entries
  <2>. QED BY <1>2, <2>4 DEF LastSuccessful
<1>. QED BY <1>2 DEF LastSuccessful

\* StartsAt, in the form that the proofs need.
LEMMA StartsAtType ==
  ASSUME NEW ev \in Logs
  PROVE  /\ StartsAt(ev) \in Stages \cup {None}
         /\ LastSuccessful(ev) \in Stages => StartsAt(ev) <= LastSuccessful(ev) + 1
         /\ \A t \in OutdatedCandidates(ev) \cap Stages : StartsAt(ev) <= t
         /\ FirstOutdated(ev) = None /\ LastSuccessful(ev) \in Stages
              => StartsAt(ev) = LastSuccessful(ev) + 1
<1>1. LastSuccessful(ev) \in Stages \cup {Gone, None}
  BY LastSuccessfulType
<1>2. /\ FirstOutdated(ev) \in Stages \cup {None}
      /\ \A t \in OutdatedCandidates(ev) \cap Stages : FirstOutdated(ev) <= t
  BY FirstOutdatedType
<1> DEFINE last == LastSuccessful(ev)  first == FirstOutdated(ev)
<1> HIDE DEF last, first
<1>3. StartsAt(ev) = IF last = None THEN 1
                     ELSE IF last = Gone THEN first
                     ELSE IF first <= last THEN first ELSE last + 1
  <2>1. CASE last = None
    BY <2>1, NumStagesAssumption DEF StartsAt, None, Gone, last, first
  <2>2. CASE last = Gone
    BY <2>2, NumStagesAssumption DEF StartsAt, None, Gone, last, first
  <2>3. CASE last \notin {None, Gone}
    BY <2>3 DEF StartsAt, last, first
  <2>. QED BY <2>1, <2>2, <2>3
<1>. QED
  BY <1>1, <1>2, <1>3, NumStagesAssumption DEF Stages, None, Gone, last, first

\* An event that is added changes nothing of the log before it.
Adds(ev, e, new) ==
  /\ new \in Logs /\ Len(new) = Len(ev) + 1 /\ Len(ev) \in Nat
  /\ DOMAIN ev = 1 .. Len(ev) /\ DOMAIN new = 1 .. Len(ev) + 1
  /\ \A i \in 1 .. Len(ev) : new[i] = ev[i]
  /\ new[Len(ev) + 1] = e
  /\ With(new, e.status) = With(ev, e.status) \cup {Len(ev) + 1}
  /\ \A st : st # e.status => With(new, st) = With(ev, st)
  /\ e.status = "success" =>
       Successes(new, e.stage) = Successes(ev, e.stage) \cup {Len(ev) + 1}
  /\ \A st : e.status # "success" \/ st # e.stage => Successes(new, st) = Successes(ev, st)

\* Event is such an event, whatever its status.
LEMMA Appending ==
  ASSUME NEW ev \in Logs,
         NEW st \in Stages, NEW status \in Statuses, NEW run \in Nat,
         NEW new, new = Append(ev, Event(st, status, run))
  PROVE  Adds(ev, Event(st, status, run), new)
<1> DEFINE e == Event(st, status, run)
<1>0. e \in Entries
  BY DEF Event, Entries
<1>1. /\ new \in Logs /\ Len(new) = Len(ev) + 1 /\ Len(ev) \in Nat
      /\ DOMAIN ev = 1 .. Len(ev) /\ DOMAIN new = 1 .. Len(ev) + 1
      /\ \A i \in 1 .. Len(ev) : new[i] = ev[i]
      /\ new[Len(ev) + 1] = e
  <2> HIDE DEF e
  <2>1. new = Append(ev, e)
    BY DEF e
  <2>. QED BY <1>0, <2>1 DEF Logs
<1> HIDE DEF e
<1>2. /\ With(new, e.status) = With(ev, e.status) \cup {Len(ev) + 1}
      /\ \A t : t # e.status => With(new, t) = With(ev, t)
  BY <1>1 DEF With
<1>3. \A i \in With(ev, "success") : new[i] = ev[i]
  BY <1>1 DEF With
<1>4. e.status = "success" =>
        Successes(new, e.stage) = Successes(ev, e.stage) \cup {Len(ev) + 1}
  BY <1>1, <1>2, <1>3 DEF Successes
<1>5. \A t : e.status # "success" \/ t # e.stage => Successes(new, t) = Successes(ev, t)
  BY <1>1, <1>2, <1>3 DEF Successes
<1>. QED BY <1>1, <1>2, <1>4, <1>5 DEF Adds, e

\* The sets of events are sets of positions.
LEMMA Positions ==
  ASSUME NEW ev \in Logs
  PROVE  /\ Len(ev) \in Nat /\ DOMAIN ev = 1 .. Len(ev)
         /\ \A st : With(ev, st) \in SUBSET (1 .. Len(ev))
         /\ \A st : Successes(ev, st) \in SUBSET (1 .. Len(ev))
         /\ \A st : EventsOf(ev, st) \in SUBSET (1 .. Len(ev))
         /\ Actions(ev) \in SUBSET (1 .. Len(ev))
BY DEF Logs, With, Successes, EventsOf, Actions

\* The newest success of a stage is one.
LEMMA LastSuccessIs ==
  ASSUME NEW ev \in Logs, NEW st, Successes(ev, st) # {}
  PROVE  \E i \in Successes(ev, st) :
           /\ i \in 1 .. Len(ev) /\ LastSuccessOf(ev, st) = ev[i]
           /\ ev[i].status = "success" /\ ev[i].stage = st
           /\ \A j \in Successes(ev, st) : j <= i
<1>1. /\ Newest(Successes(ev, st)) \in Successes(ev, st)
      /\ \A j \in Successes(ev, st) : j <= Newest(Successes(ev, st))
  BY NewestIsMax, Positions
<1>. QED BY <1>1, Positions DEF LastSuccessOf, Successes, With

\* What a success changes: the next stage is the one after it.
Succeeds(ev, st, run, new) ==
  /\ new \in Logs /\ StartsAt(new) = st + 1
  /\ LastSuccessOf(new, st) = Event(st, "success", run)
  /\ \A t : t # st /\ Successes(ev, t) # {} => LastSuccessOf(new, t) = LastSuccessOf(ev, t)
  /\ Successes(new, st) # {}
  /\ \A t : t # st => Successes(new, t) = Successes(ev, t)
  /\ Actions(new) # {} /\ LastOf(new) = Event(st, "success", run)

\* LogSuccess appends such an event.
LEMMA AppendingSuccess ==
  ASSUME NEW ev \in Logs, NEW st \in Stages, NEW run \in Nat,
         NEW new, new = Append(ev, Event(st, "success", run))
  PROVE  Succeeds(ev, st, run, new)
<1> DEFINE e == Event(st, "success", run)  n == Len(ev) + 1
<1>0. e.status = "success" /\ e.stage = st
  BY DEF Event
<1>a. Adds(ev, e, new)
  BY Appending DEF Statuses
<1> HIDE DEF e
<1>1. /\ new \in Logs /\ Len(new) = n /\ Len(ev) \in Nat
      /\ DOMAIN ev = 1 .. Len(ev) /\ DOMAIN new = 1 .. n
      /\ \A i \in 1 .. Len(ev) : new[i] = ev[i]
      /\ new[n] = e
      /\ With(new, "success") = With(ev, "success") \cup {n}
      /\ With(new, "outdated") = With(ev, "outdated")
      /\ Successes(new, st) = Successes(ev, st) \cup {n}
      /\ \A t : t # st => Successes(new, t) = Successes(ev, t)
  BY <1>0, <1>a DEF Adds
<1>2. n \in Nat /\ With(new, "success") \in SUBSET (1 .. n) /\ Successes(new, st) \in SUBSET (1 .. n)
      /\ Actions(new) \in SUBSET (1 .. n) /\ n \in Actions(new)
  BY <1>0, <1>1, Positions DEF Actions, With
<1>3. /\ Newest(With(new, "success")) = n /\ Newest(Successes(new, st)) = n
      /\ Newest(Actions(new)) = n
  <2> HIDE DEF n
  <2>1. /\ \A j \in With(new, "success") : j <= n
        /\ \A j \in Successes(new, st) : j <= n
        /\ \A j \in Actions(new) : j <= n
    BY <1>2
  <2>. QED BY <1>1, <1>2, <2>1, NewestIs
<1>4. LastSuccessful(new) = st
  BY <1>0, <1>1, <1>3 DEF LastSuccessful
<1>5. OutdatedCandidates(new) = {}
  BY <1>1, Positions DEF OutdatedCandidates
<1>6. StartsAt(new) = st + 1
  <2>1. FirstOutdated(new) = None
    BY <1>5, FirstIsMin
  <2>. QED BY <1>1, <1>4, <2>1, StartsAtType
<1>7. ASSUME NEW t, t # st, Successes(ev, t) # {}
      PROVE  LastSuccessOf(new, t) = LastSuccessOf(ev, t)
  <2>1. Newest(Successes(ev, t)) \in 1 .. Len(ev)
    BY <1>7, NewestIsMax, Positions
  <2>. QED BY <1>1, <1>7, <2>1 DEF LastSuccessOf
<1>8. LastSuccessOf(new, st) = Event(st, "success", run) /\ LastOf(new) = Event(st, "success", run)
  BY <1>1, <1>3 DEF LastSuccessOf, LastOf, e
<1>9. Successes(new, st) # {} /\ Actions(new) # {}
  BY <1>1, <1>2
<1>. QED BY <1>1, <1>6, <1>7, <1>8, <1>9 DEF Succeeds

\* An event that is not a success leaves these as they are.
SameSuccesses(ev, new) ==
  /\ new \in Logs
  /\ With(new, "success") = With(ev, "success")
  /\ LastSuccessful(new) = LastSuccessful(ev)
  /\ \A t : Successes(new, t) = Successes(ev, t)
  /\ \A t : Successes(ev, t) # {} => LastSuccessOf(new, t) = LastSuccessOf(ev, t)

\* So it is for a run that begins or fails, and for a stage that is outdated.
LEMMA AppendingOther ==
  ASSUME NEW ev \in Logs, NEW st \in Stages, NEW status \in Statuses \ {"success"},
         NEW new, new = Append(ev, Event(st, status, NoSnapshot))
  PROVE  SameSuccesses(ev, new)
<1> DEFINE e == Event(st, status, NoSnapshot)
<1>0. e.status # "success"
  BY DEF Event
<1>a. Adds(ev, e, new)
  BY Appending DEF Statuses, NoSnapshot
<1> HIDE DEF e
<1>1. /\ new \in Logs
      /\ \A i \in 1 .. Len(ev) : new[i] = ev[i]
      /\ With(new, "success") = With(ev, "success")
      /\ \A t : Successes(new, t) = Successes(ev, t)
  BY <1>0, <1>a DEF Adds
<1>2. LastSuccessful(new) = LastSuccessful(ev)
  <2>1. With(ev, "success") # {} => Newest(With(ev, "success")) \in 1 .. Len(ev)
    BY NewestIsMax, Positions
  <2>. QED BY <1>1, <2>1 DEF LastSuccessful
<1>3. ASSUME NEW t, Successes(ev, t) # {}
      PROVE  LastSuccessOf(new, t) = LastSuccessOf(ev, t)
  <2>1. Newest(Successes(ev, t)) \in 1 .. Len(ev)
    BY <1>3, NewestIsMax, Positions
  <2>. QED BY <1>1, <2>1 DEF LastSuccessOf
<1>. QED BY <1>1, <1>2, <1>3 DEF SameSuccesses

\* A run that begins or fails leaves the stages ahead as they are.
LEMMA AppendingRun ==
  ASSUME NEW ev \in Logs, NEW st \in Stages, NEW status \in {"begin", "failed"},
         NEW new, new = Append(ev, Event(st, status, NoSnapshot))
  PROVE  /\ StartsAt(new) = StartsAt(ev)
         /\ Actions(new) # {} /\ LastOf(new) = Event(st, status, NoSnapshot)
<1> DEFINE e == Event(st, status, NoSnapshot)  n == Len(ev) + 1
<1>0. e.status = status
  BY DEF Event
<1>a. Adds(ev, e, new)
  BY Appending DEF Statuses, NoSnapshot
<1> HIDE DEF e
<1>1. /\ new \in Logs /\ Len(ev) \in Nat /\ DOMAIN ev = 1 .. Len(ev) /\ DOMAIN new = 1 .. n
      /\ \A i \in 1 .. Len(ev) : new[i] = ev[i]
      /\ new[n] = e
      /\ With(new, "success") = With(ev, "success")
      /\ With(new, "outdated") = With(ev, "outdated")
  BY <1>0, <1>a DEF Adds
<1>2. OutdatedCandidates(new) = OutdatedCandidates(ev)
  <2>1. \A i \in With(ev, "outdated") : new[i] = ev[i]
    BY <1>1, Positions
  <2>. QED BY <1>1, <2>1 DEF OutdatedCandidates
<1>3. FirstOutdated(new) = FirstOutdated(ev)
  BY <1>2 DEF FirstOutdated
<1>4. LastSuccessful(new) = LastSuccessful(ev)
  BY AppendingOther DEF Statuses, SameSuccesses
<1>5. n \in Nat /\ Actions(new) \in SUBSET (1 .. n) /\ n \in Actions(new)
  BY <1>0, <1>1, Positions DEF Actions, With
<1>6. Newest(Actions(new)) = n
  <2> HIDE DEF n
  <2>1. \A j \in Actions(new) : j <= n
    BY <1>5
  <2>. QED BY <1>5, <2>1, NewestIs
<1>. QED BY <1>1, <1>3, <1>4, <1>5, <1>6 DEF StartsAt, LastOf, e

\* What is outdated lies ahead, and nothing that lay ahead is passed.
LEMMA AppendingOutdated ==
  ASSUME NEW ev \in Logs, NEW st \in Stages,
         NEW new, new = Append(ev, Event(st, "outdated", NoSnapshot))
  PROVE  /\ StartsAt(new) <= StartsAt(ev) /\ StartsAt(new) <= st
         /\ Actions(new) = Actions(ev)
         /\ Actions(ev) # {} => LastOf(new) = LastOf(ev)
<1> DEFINE e == Event(st, "outdated", NoSnapshot)  n == Len(ev) + 1
<1>0. e.status = "outdated" /\ e.stage = st
  BY DEF Event
<1>a. Adds(ev, e, new)
  BY Appending DEF Statuses, NoSnapshot
<1> HIDE DEF e
<1>1. /\ new \in Logs /\ Len(ev) \in Nat /\ DOMAIN ev = 1 .. Len(ev) /\ DOMAIN new = 1 .. n
      /\ \A i \in 1 .. Len(ev) : new[i] = ev[i]
      /\ new[n] = e
      /\ With(new, "success") = With(ev, "success")
      /\ With(new, "outdated") = With(ev, "outdated") \cup {n}
  BY <1>0, <1>a DEF Adds
<1>2. OutdatedCandidates(new) = OutdatedCandidates(ev) \cup {st}
  <2>1. \A i \in With(ev, "outdated") : new[i] = ev[i]
    BY <1>1, Positions
  <2>2. \A j \in With(ev, "success") : j < n
    BY <1>1, Positions
  <2>3. With(new, "outdated") = With(ev, "outdated") \cup {n} /\ new[n].stage = st
    BY <1>0, <1>1
  <2> DEFINE X == {o \in With(ev, "outdated") : \A j \in With(ev, "success") : j < o}
             Y == {o \in With(new, "outdated") : \A j \in With(new, "success") : j < o}
  <2>4. Y = X \cup {n}
    BY <1>1, <2>2, <2>3
  <2>5. \A i \in X : new[i].stage = ev[i].stage
    BY <2>1
  <2>6. OutdatedCandidates(ev) = {ev[i].stage : i \in X}
        /\ OutdatedCandidates(new) = {new[i].stage : i \in Y}
    BY DEF OutdatedCandidates
  <2> HIDE DEF X, Y, n
  <2>7. ASSUME NEW t PROVE t \in OutdatedCandidates(new) => t \in OutdatedCandidates(ev) \cup {st}
    <3>1. SUFFICES ASSUME NEW i \in Y, t = new[i].stage
                   PROVE  t \in OutdatedCandidates(ev) \cup {st}
      BY <2>6
    <3>2. CASE i = n
      BY <2>3, <3>1, <3>2
    <3>3. CASE i \in X
      BY <2>5, <2>6, <3>1, <3>3
    <3>. QED BY <2>4, <3>1, <3>2, <3>3
  <2>8. ASSUME NEW t \in OutdatedCandidates(ev) PROVE t \in OutdatedCandidates(new)
    <3>1. PICK i \in X : t = ev[i].stage
      BY <2>6
    <3>. QED BY <2>4, <2>5, <2>6, <3>1
  <2>9. st \in OutdatedCandidates(new)
    BY <2>3, <2>4, <2>6
  <2>. QED BY <2>7, <2>8, <2>9
<1>3. FirstOutdated(new) <= FirstOutdated(ev)
  <2>1. CASE FirstOutdated(ev) = None
    BY <2>1, FirstOutdatedType, NumStagesAssumption DEF Stages, None
  <2>2. CASE FirstOutdated(ev) # None
    <3>1. FirstOutdated(ev) \in OutdatedCandidates(ev) \cap Stages
      BY <2>2, FirstOutdatedType
    <3>2. FirstOutdated(ev) \in OutdatedCandidates(new) \cap Stages
      BY <1>2, <3>1
    <3>. QED BY <3>2, FirstOutdatedType
  <2>. QED BY <2>1, <2>2
<1>4. LastSuccessful(new) = LastSuccessful(ev)
  BY AppendingOther DEF Statuses, SameSuccesses
<1>5. StartsAt(new) <= StartsAt(ev)
  <2> DEFINE last == LastSuccessful(ev) f == FirstOutdated(ev) g == FirstOutdated(new)
  <2>1. last \in Stages \cup {Gone, None} /\ f \in Stages \cup {None} /\ g \in Stages \cup {None}
    BY LastSuccessfulType, FirstOutdatedType
  <2> HIDE DEF last, f, g
  <2>2. /\ StartsAt(ev) = CASE last = None -> 1 [] last = Gone -> f
                            [] OTHER -> IF f <= last THEN f ELSE last + 1
        /\ StartsAt(new) = CASE last = None -> 1 [] last = Gone -> g
                            [] OTHER -> IF g <= last THEN g ELSE last + 1
    BY <1>4 DEF StartsAt, last, f, g
  <2>3. g <= f
    BY <1>3 DEF f, g
  <2>4. CASE last = None
    BY <2>2, <2>4, NumStagesAssumption DEF None, Gone
  <2>5. CASE last = Gone
    BY <2>2, <2>3, <2>5, NumStagesAssumption DEF None, Gone
  <2>6. CASE last \in Stages
    <3>1. last # None /\ last # Gone
      BY <2>6, NumStagesAssumption DEF Stages, None, Gone
    <3>2. /\ StartsAt(ev) = IF f <= last THEN f ELSE last + 1
          /\ StartsAt(new) = IF g <= last THEN g ELSE last + 1
      BY <2>2, <3>1
    <3>. QED BY <2>1, <2>3, <2>6, <3>2, NumStagesAssumption DEF Stages, None
  <2>. QED BY <2>1, <2>4, <2>5, <2>6
<1>6. StartsAt(new) <= st
  BY <1>1, <1>2, StartsAtType
<1>7. Actions(new) = Actions(ev)
  BY <1>0, <1>1, Positions DEF Actions, With
<1>8. Actions(ev) # {} => LastOf(new) = LastOf(ev)
  <2>1. Actions(ev) # {} => Newest(Actions(ev)) \in 1 .. Len(ev)
    BY NewestIsMax, Positions
  <2>. QED BY <1>1, <1>7, <2>1 DEF LastOf
<1>. QED BY <1>5, <1>6, <1>7, <1>8

-----------------------------------------------------------------------------
(* The log, the snapshots and the restore points.                          *)

\* While a stage is under way its run is the last event.
LEMMA StageKnown ==
  ASSUME TypeOK, AtItsStage, pc \in UnderWay
  PROVE  /\ stage \in Stages /\ stage = StartsAt(events)
         /\ ThisRun = Len(events) /\ Len(events) \in Nat \ {0}
         /\ Len(events) \in With(events, "begin")
<1>1. Len(events) \in Nat /\ DOMAIN events = 1 .. Len(events)
  BY DEF TypeOK, Logs
<1>2. /\ Len(events) \in 1 .. Len(events) /\ events[Len(events)] \in Entries
      /\ Len(events) \in With(events, "begin")
      /\ stage = StartsAt(events) /\ events[Len(events)].stage = stage
  BY <1>1 DEF TypeOK, AtItsStage, Logs, With, UnderWay, Before
<1>3. stage \in Stages
  BY <1>2, NumStagesAssumption DEF TypeOK, Entries, Stages, Gone, None
<1>4. ThisRun = Len(events)
  <2>1. With(events, "begin") \in SUBSET (1 .. Len(events))
    BY Positions DEF TypeOK
  <2>2. \A i \in With(events, "begin") : i <= Len(events)
    BY <1>1, <2>1
  <2>. QED BY <1>1, <1>2, <2>1, <2>2, NewestIs DEF ThisRun
<1>. QED BY <1>1, <1>2, <1>3, <1>4

\* Every action keeps the types.
LEMMA TypeIsKept ==
  ASSUME TypeOK, AtItsStage, Next
  PROVE  TypeOK'
<1>1. CASE Lock
  BY <1>1 DEF TypeOK, Lock, spaceVars, Before
<1>2. CASE MountSpace
  BY <1>2 DEF TypeOK, MountSpace, spaceVars, Before
<1>3. CASE Determine
  BY <1>3, StartsAtType DEF TypeOK, Determine, spaceVars
<1>4. CASE Clean
  <2>1. <<>> \in Seq(Nat)
    OBVIOUS
  <2>2. CASE dirty
    BY <1>4, <2>1, <2>2 DEF TypeOK, Clean
  <2>3. CASE ~dirty
    BY <1>4, <2>3 DEF TypeOK, Clean
  <2>. QED BY <2>2, <2>3
<1>5. CASE Restore
  BY <1>5 DEF TypeOK, Restore
<1>6. CASE Rollback
  BY <1>6 DEF TypeOK, Rollback, SnapshotToRestore
<1>7. CASE RestoreFails
  BY <1>7 DEF TypeOK, RestoreFails, spaceVars, Before
<1>8. CASE StageBegins
  <2>1. stage \in Stages
    BY <1>8 DEF TypeOK, StageBegins
  <2>2. events' \in Logs
    BY <1>8, <2>1, AppendingOther DEF TypeOK, StageBegins, Statuses, SameSuccesses
  <2>. QED BY <1>8, <2>2 DEF TypeOK, StageBegins, UnderWay
<1>9. CASE StageSucceeds
  <2>1. ThisRun \in Nat
    BY <1>9, StageKnown DEF StageSucceeds, UnderWay
  <2>2. holds' \in Seq(Nat)
    BY <1>9, <2>1 DEF TypeOK, StageSucceeds
  <2>. QED BY <1>9, <2>2 DEF TypeOK, StageSucceeds, UnderWay
<1>10. CASE StageFails
  BY <1>10 DEF TypeOK, StageFails, spaceVars, UnderWay
<1>11. CASE CreateSnapshot
  BY <1>11, StageKnown DEF TypeOK, CreateSnapshot, UnderWay
<1>12. CASE LogSuccess
  <2>1. /\ stage \in Stages /\ ThisRun \in Nat
    BY <1>12, StageKnown DEF LogSuccess, UnderWay
  <2>2. events' \in Logs
    BY <1>12, <2>1, AppendingSuccess DEF TypeOK, LogSuccess, Succeeds
  <2>3. stage + 1 \in Stages \cup {None}
    BY <2>1, NumStagesAssumption DEF Stages, None
  <2>. QED BY <1>12, <2>2, <2>3 DEF TypeOK, LogSuccess, spaceVars
<1>13. CASE LogFailure
  <2>1. events' \in Logs
    BY <1>13, StageKnown, AppendingOther DEF TypeOK, LogFailure, UnderWay, Statuses, SameSuccesses
  <2>. QED BY <1>13, <2>1 DEF TypeOK, LogFailure, spaceVars, Before
<1>14. CASE Finish
  BY <1>14 DEF TypeOK, Finish, spaceVars, Before
<1>15. CASE Dies
  BY <1>15 DEF TypeOK, Dies, spaceVars, Before
<1>16. ASSUME NEW st \in Stages, Outdate(st) PROVE TypeOK'
  <2>1. events' \in Logs
    BY <1>16, AppendingOther DEF TypeOK, Outdate, Statuses, SameSuccesses
  <2>. QED BY <1>16, <2>1 DEF TypeOK, Outdate, spaceVars
<1>17. CASE DeleteOldSnapshot
  BY <1>17 DEF TypeOK, DeleteOldSnapshot
<1>. QED
  BY <1>1, <1>2, <1>3, <1>4, <1>5, <1>6, <1>7, <1>8, <1>9, <1>10, <1>11, <1>12, <1>13,
     <1>14, <1>15, <1>16, <1>17 DEF Next, Builder, Operators

\* The stage ahead moves on with the log: only a success changes what a started builder
\* would find if it looked again.
LEMMA StageIsKept ==
  ASSUME TypeOK, AtItsStage, Next
  PROVE  AtItsStage'
<1> USE DEF AtItsStage, Before, UnderWay
<1>1. CASE Lock \/ MountSpace \/ Finish \/ Dies \/ RestoreFails
  BY <1>1 DEF Lock, MountSpace, Finish, Dies, RestoreFails
<1>2. CASE Determine
  BY <1>2 DEF Determine
<1>3. CASE Clean \/ Restore \/ Rollback
  BY <1>3 DEF Clean, Restore, Rollback
<1>4. CASE StageSucceeds \/ StageFails \/ CreateSnapshot
  BY <1>4 DEF StageSucceeds, StageFails, CreateSnapshot
<1>5. CASE StageBegins
  <2>1. stage \in Stages /\ stage = StartsAt(events)
    BY <1>5 DEF TypeOK, StageBegins
  <2>2. StartsAt(events') = StartsAt(events) /\ Adds(events, Event(stage, "begin", NoSnapshot), events')
    BY <1>5, <2>1, AppendingRun, Appending DEF TypeOK, StageBegins, Statuses, NoSnapshot
  <2>3. /\ Len(events') \in DOMAIN events'
        /\ events'[Len(events')].status = "begin" /\ events'[Len(events')].stage = stage
    BY <2>2 DEF Adds, Event
  <2>. QED BY <1>5, <2>1, <2>2, <2>3 DEF StageBegins
<1>6. CASE LogSuccess
  <2>1. stage \in Stages /\ ThisRun \in Nat
    BY <1>6, StageKnown DEF LogSuccess
  <2>2. events \in Logs /\ events' = Append(events, Event(stage, "success", ThisRun))
    BY <1>6 DEF TypeOK, LogSuccess
  <2>3. Succeeds(events, stage, ThisRun, events')
    BY <2>1, <2>2, AppendingSuccess
  <2>4. StartsAt(events') = stage + 1
    BY <2>3 DEF Succeeds
  <2>. QED BY <1>6, <2>4 DEF LogSuccess
<1>7. CASE LogFailure
  BY <1>7 DEF LogFailure
<1>8. CASE Operators
  BY <1>8 DEF Operators, DeleteOldSnapshot, Outdate, PackageLocked, SpaceLocked
<1>. QED
  BY <1>1, <1>2, <1>3, <1>4, <1>5, <1>6, <1>7, <1>8 DEF Next, Builder

\* The run of a success is newer than all that were logged before.
LEMMA RunsAreKept ==
  ASSUME TypeOK, AtItsStage, RunsInOrder, Next
  PROVE  RunsInOrder'
<1>1. ASSUME NEW st \in Stages, NEW status \in Statuses \ {"success"},
             events' = Append(events, Event(st, status, NoSnapshot))
      PROVE  RunsInOrder'
  <2>1. Adds(events, Event(st, status, NoSnapshot), events')
    BY <1>1, Appending DEF TypeOK, NoSnapshot
  <2>2. With(events', "success") = With(events, "success")
    BY <1>1, AppendingOther DEF TypeOK, SameSuccesses
  <2>3. \A i \in With(events, "success") : events'[i] = events[i]
    BY <2>1, Positions DEF TypeOK, Adds
  <2>4. \A i \in DOMAIN events' : \/ i \in DOMAIN events /\ events'[i] = events[i]
                                  \/ events'[i] = Event(st, status, NoSnapshot)
    BY <2>1 DEF Adds
  <2>5. Event(st, status, NoSnapshot).status # "success" /\ Event(st, status, NoSnapshot).snap = NoSnapshot
    BY DEF Event
  <2>6. \A i \in DOMAIN events' :
          IF events'[i].status = "success" THEN events'[i].snap \in 1 .. i
          ELSE events'[i].snap = NoSnapshot
    BY <2>4, <2>5 DEF RunsInOrder
  <2>7. \A i, j \in With(events', "success") : i < j => events'[i].snap < events'[j].snap
    BY <2>2, <2>3 DEF RunsInOrder
  <2>. QED BY <2>6, <2>7 DEF RunsInOrder
<1>2. CASE LogSuccess
  <2>1. /\ stage \in Stages /\ ThisRun = Len(events) /\ Len(events) \in Nat \ {0}
        /\ Len(events) \in With(events, "begin")
    BY <1>2, StageKnown DEF LogSuccess, UnderWay
  <2> DEFINE n == Len(events) + 1
  <2>2. Adds(events, Event(stage, "success", Len(events)), events')
    BY <1>2, <2>1, Appending DEF TypeOK, LogSuccess, Statuses
  <2>3. /\ With(events', "success") = With(events, "success") \cup {n}
        /\ DOMAIN events' = 1 .. n
        /\ events'[n] = Event(stage, "success", Len(events))
        /\ \A i \in 1 .. Len(events) : events'[i] = events[i]
        /\ DOMAIN events = 1 .. Len(events)
    <3>1. Event(stage, "success", Len(events)).status = "success"
      BY DEF Event
    <3>. QED BY <2>2, <3>1 DEF Adds
  <2>4. ASSUME NEW i \in With(events, "success")
        PROVE  i \in 1 .. Len(events) - 1 /\ events[i].snap \in 1 .. i
    <3>1. i \in 1 .. Len(events) /\ events[i].status = "success" /\ i # Len(events)
      BY <2>1, <2>3 DEF With
    <3>. QED BY <2>1, <2>3, <3>1 DEF RunsInOrder
  <2>5. \A i \in DOMAIN events' :
          IF events'[i].status = "success" THEN events'[i].snap \in 1 .. i
          ELSE events'[i].snap = NoSnapshot
    <3>1. Len(events) \in 1 .. n /\ 1 .. n = (1 .. Len(events)) \cup {n}
      BY <2>1
    <3>2. events'[n].status = "success" /\ events'[n].snap \in 1 .. n
      BY <2>3, <3>1 DEF Event
    <3>. QED BY <2>3, <3>1, <3>2 DEF RunsInOrder
  <2>6. ASSUME NEW i \in With(events', "success"), NEW j \in With(events', "success"), i < j
        PROVE  events'[i].snap < events'[j].snap
    <3>1. i \in With(events, "success")
      BY <2>1, <2>3, <2>4, <2>6
    <3>2. CASE j \in With(events, "success")
      BY <2>3, <2>4, <2>6, <3>1, <3>2 DEF RunsInOrder
    <3>3. CASE j = n
      <4>1. events'[i] = events[i] /\ events'[j].snap = Len(events)
        <5>1. Event(stage, "success", Len(events)).snap = Len(events)
          BY DEF Event
        <5>2. i \in 1 .. Len(events)
          BY <2>1, <2>4, <3>1
        <5>. QED BY <2>3, <3>3, <5>1, <5>2
      <4>. QED BY <2>1, <2>4, <3>1, <4>1
    <3>. QED BY <2>3, <3>2, <3>3
  <2>. QED BY <2>5, <2>6 DEF RunsInOrder
<1>3. CASE StageBegins
  BY <1>1, <1>3 DEF StageBegins, TypeOK, Statuses
<1>4. CASE LogFailure
  BY <1>1, <1>4, StageKnown DEF LogFailure, UnderWay, Statuses
<1>5. ASSUME NEW st \in Stages, Outdate(st) PROVE RunsInOrder'
  BY <1>1, <1>5 DEF Outdate, Statuses
<1>6. CASE UNCHANGED events
  BY <1>6 DEF RunsInOrder
<1>. QED
  BY <1>2, <1>3, <1>4, <1>5, <1>6
  DEF Next, Builder, Operators, Lock, MountSpace, Determine, Clean, Restore, Rollback,
      RestoreFails, StageSucceeds, StageFails, CreateSnapshot, Finish, Dies, DeleteOldSnapshot

\* The new snapshot is of the run that began last, which no event names yet.
LEMMA SnapshotsAreKept ==
  ASSUME TypeOK, AtItsStage, RunsInOrder, SnapshotsOfRuns, Next
  PROVE  SnapshotsOfRuns'
<1>0. Len(events) \in Nat /\ DOMAIN events = 1 .. Len(events)
  BY DEF TypeOK, Logs
<1>1. ASSUME NEW st \in Stages, NEW status \in Statuses \ {"success"},
             events' = Append(events, Event(st, status, NoSnapshot)), UNCHANGED snaps
      PROVE  /\ \A s \in snaps' : s.run \in 1 .. Len(events') - 1
             /\ \A s \in snaps', i \in DOMAIN events' :
                  events'[i].snap = s.run => events'[i].stage = s.stage
             /\ Len(events') \in Nat
  <2>1. Adds(events, Event(st, status, NoSnapshot), events')
    BY <1>1, Appending DEF TypeOK, NoSnapshot
  <2>2. Event(st, status, NoSnapshot).snap = 0
    BY DEF Event, NoSnapshot
  <2>3. \A s \in snaps : s.run \in 1 .. Len(events)
    BY DEF SnapshotsOfRuns
  <2>4. \A i \in DOMAIN events' : \/ i \in DOMAIN events /\ events'[i] = events[i]
                                  \/ events'[i].snap = 0
    BY <2>1, <2>2 DEF Adds
  <2>5. \A s \in snaps, i \in DOMAIN events' :
          events'[i].snap = s.run => events'[i].stage = s.stage
    BY <1>0, <2>3, <2>4 DEF SnapshotsOfRuns
  <2>6. Len(events') = Len(events) + 1
    BY <2>1 DEF Adds
  <2>. QED BY <1>0, <1>1, <2>3, <2>5, <2>6
<1>2. CASE LogSuccess
  <2>1. /\ stage \in Stages /\ ThisRun = Len(events) /\ Len(events) \in Nat \ {0}
    BY <1>2, StageKnown DEF LogSuccess, UnderWay
  <2>2. Adds(events, Event(stage, "success", Len(events)), events')
    BY <1>2, <2>1, Appending DEF TypeOK, LogSuccess, Statuses
  <2>3. /\ Event(stage, "success", Len(events)).snap = Len(events)
        /\ Event(stage, "success", Len(events)).stage = stage
    BY DEF Event
  <2>4. \A i \in DOMAIN events' :
          \/ i \in DOMAIN events /\ events'[i] = events[i]
          \/ events'[i].snap = Len(events) /\ events'[i].stage = stage
    BY <2>2, <2>3 DEF Adds
  <2>5. \A s \in snaps : s.run = Len(events) => s.stage = stage
    BY <1>2 DEF LogSuccess, SnapshotsOfRuns
  <2>6. \A s \in snaps, i \in DOMAIN events' :
          events'[i].snap = s.run => events'[i].stage = s.stage
    BY <2>4, <2>5 DEF SnapshotsOfRuns
  <2>7. \A s \in snaps : s.run \in 1 .. Len(events')
    BY <1>0, <2>2 DEF Adds, SnapshotsOfRuns
  <2>. QED BY <1>2, <2>6, <2>7 DEF LogSuccess, spaceVars, SnapshotsOfRuns
<1>3. CASE StageBegins
  <2>1. /\ \A s \in snaps' : s.run \in 1 .. Len(events') - 1
        /\ \A s \in snaps', i \in DOMAIN events' :
             events'[i].snap = s.run => events'[i].stage = s.stage
        /\ Len(events') \in Nat
    BY <1>1, <1>3 DEF StageBegins, TypeOK, Statuses
  <2>2. \A s \in snaps' : s.run \in 1 .. Len(events') /\ s.run < Len(events')
    BY <2>1
  <2>. QED BY <1>3, <2>1, <2>2 DEF StageBegins, SnapshotsOfRuns
<1>4. ASSUME \/ LogFailure
             \/ \E st \in Stages : Outdate(st)
      PROVE  SnapshotsOfRuns'
  <2>1. /\ pc' = "idle"
        /\ \A s \in snaps' : s.run \in 1 .. Len(events') - 1
        /\ \A s \in snaps', i \in DOMAIN events' :
             events'[i].snap = s.run => events'[i].stage = s.stage
        /\ Len(events') \in Nat
    BY <1>1, <1>4, StageKnown DEF LogFailure, Outdate, PackageLocked, spaceVars, UnderWay, Statuses
  <2>2. \A s \in snaps' : s.run \in 1 .. Len(events')
    BY <2>1
  <2>. QED BY <2>1, <2>2 DEF SnapshotsOfRuns
<1>5. CASE CreateSnapshot
  <2>1. /\ stage \in Stages /\ ThisRun = Len(events) /\ Len(events) \in Nat \ {0}
        /\ Len(events) \in With(events, "begin")
    BY <1>5, StageKnown DEF CreateSnapshot, UnderWay
  <2> DEFINE s == [stage |-> stage, run |-> Len(events), holds |-> holds]
  <2>2. snaps' = snaps \cup {s} /\ s.run = Len(events) /\ s.stage = stage /\ s.holds = holds
    BY <1>5, <2>1 DEF CreateSnapshot
  <2> HIDE DEF s
  <2>3. \A i \in DOMAIN events : events[i].snap # Len(events)
    <3>1. SUFFICES ASSUME NEW i \in DOMAIN events, events[i].snap = Len(events) PROVE FALSE
      OBVIOUS
    <3>2. events[i].status = "success" /\ events[i].snap \in 1 .. i
      BY <2>1, <3>1 DEF RunsInOrder, NoSnapshot
    <3>3. i = Len(events)
      BY <1>0, <3>1, <3>2
    <3>. QED BY <2>1, <3>2, <3>3 DEF With
  <2>4. \A t \in snaps : t.run < Len(events)
    BY <1>5 DEF CreateSnapshot, SnapshotsOfRuns
  <2>5. \A t \in snaps : t.run # Len(events)
    <3>1. \A t \in snaps : t.run \in 1 .. Len(events)
      BY DEF SnapshotsOfRuns
    <3>. QED BY <1>0, <2>4, <3>1
  <2>6. Len(events) \in 1 .. Len(events)
    BY <2>1
  <2>7. \A t \in snaps' : t.run = Len(events) => t = s
    BY <2>2, <2>5
  <2>8. \A t \in snaps' : t.run \in 1 .. Len(events)
    BY <2>2, <2>6 DEF SnapshotsOfRuns
  <2>9. \A t \in snaps', i \in DOMAIN events : events[i].snap = t.run => events[i].stage = t.stage
    BY <2>2, <2>3 DEF SnapshotsOfRuns
  <2>. QED BY <1>5, <2>2, <2>7, <2>8, <2>9 DEF CreateSnapshot, SnapshotsOfRuns
<1>6. CASE DeleteOldSnapshot
  BY <1>6 DEF DeleteOldSnapshot, SpaceLocked, SnapshotsOfRuns
<1>7. CASE UNCHANGED <<events, snaps>> /\ pc' \notin {"flow", "snapshot", "succeeded"}
  BY <1>7 DEF SnapshotsOfRuns
<1>8. CASE StageSucceeds
  BY <1>8 DEF StageSucceeds, SnapshotsOfRuns
<1>. QED
  BY <1>2, <1>3, <1>4, <1>5, <1>6, <1>7, <1>8
  DEF Next, Builder, Operators, Lock, MountSpace, Determine, Clean, Restore, Rollback,
      RestoreFails, StageFails, Finish, Dies, spaceVars

\* A run that a stage has logged is not newer than the last that it has.
LEMMA LoggedRuns ==
  ASSUME TypeOK, RunsInOrder, SnapshotsOfRuns,
         NEW s \in snaps, ~Unlogged(s)
  PROVE  /\ Successes(events, s.stage) # {}
         /\ s.run <= LastSuccessOf(events, s.stage).snap
         /\ LastSuccessOf(events, s.stage).snap \in Nat
<1>1. Len(events) \in Nat /\ DOMAIN events = 1 .. Len(events) /\ events \in Logs
  BY DEF TypeOK, Logs
<1>2. PICK i \in DOMAIN events : events[i].snap = s.run
  BY DEF Unlogged
<1>3. events[i].stage = s.stage /\ s.run # 0 /\ s.run \in Nat
  BY <1>1, <1>2 DEF SnapshotsOfRuns
<1>4. i \in With(events, "success") /\ i \in Successes(events, s.stage)
  BY <1>2, <1>3 DEF RunsInOrder, NoSnapshot, With, Successes
<1>5. PICK j \in Successes(events, s.stage) :
        /\ j \in 1 .. Len(events) /\ LastSuccessOf(events, s.stage) = events[j]
        /\ events[j].status = "success"
        /\ \A k \in Successes(events, s.stage) : k <= j
  BY <1>1, <1>4, LastSuccessIs
<1>6. i <= j /\ i \in Nat /\ j \in Nat /\ j \in With(events, "success")
  BY <1>1, <1>4, <1>5 DEF Successes
<1>7. events[j].snap \in Nat
  BY <1>1, <1>5 DEF RunsInOrder
<1>8. i < j => events[i].snap < events[j].snap
  BY <1>4, <1>6 DEF RunsInOrder
<1>. QED BY <1>2, <1>3, <1>4, <1>5, <1>6, <1>7, <1>8

\* A snapshot that is deleted is not the restore point, or a newer one takes its place.
LEMMA RestorePointsAreKept ==
  ASSUME TypeOK, AtItsStage, RunsInOrder, SnapshotsOfRuns, RestorePointKept, Next
  PROVE  RestorePointKept'
<1>0. Len(events) \in Nat /\ DOMAIN events = 1 .. Len(events) /\ events \in Logs
  BY DEF TypeOK, Logs
<1>1. ASSUME NEW st \in Stages, NEW status \in Statuses \ {"success"},
             events' = Append(events, Event(st, status, NoSnapshot)), UNCHANGED snaps
      PROVE  RestorePointKept'
  <2>1. Adds(events, Event(st, status, NoSnapshot), events')
    BY <1>1, Appending DEF TypeOK, NoSnapshot
  <2>2. Event(st, status, NoSnapshot).snap = 0
    BY DEF Event, NoSnapshot
  <2>3. /\ \A t : Successes(events', t) = Successes(events, t)
        /\ \A t : Successes(events, t) # {} => LastSuccessOf(events', t) = LastSuccessOf(events, t)
    <3>1. SameSuccesses(events, events')
      BY <1>0, <1>1, AppendingOther
    <3>. QED BY <3>1 DEF SameSuccesses
  <2>4. ASSUME NEW s \in snaps, Unlogged(s) PROVE Unlogged(s)'
    <3>1. s.run # 0
      BY <1>0 DEF SnapshotsOfRuns
    <3>2. \A i \in DOMAIN events' : \/ i \in DOMAIN events /\ events'[i] = events[i]
                                    \/ events'[i].snap = 0
      BY <2>1, <2>2 DEF Adds
    <3>. QED BY <2>4, <3>1, <3>2 DEF Unlogged
  <2>. QED BY <1>1, <2>3, <2>4 DEF RestorePointKept
<1>2. CASE LogSuccess
  <2>1. /\ stage \in Stages /\ ThisRun = Len(events) /\ Len(events) \in Nat \ {0}
    BY <1>2, StageKnown DEF LogSuccess, UnderWay
  <2>2. Adds(events, Event(stage, "success", Len(events)), events') /\ UNCHANGED snaps
    BY <1>2, <2>1, Appending DEF TypeOK, LogSuccess, spaceVars, Statuses
  <2>3. LastSuccessOf(events', stage) = Event(stage, "success", Len(events))
        /\ \A t : t # stage /\ Successes(events, t) # {} =>
             LastSuccessOf(events', t) = LastSuccessOf(events, t)
    <3>1. Succeeds(events, stage, Len(events), events')
      BY <1>0, <1>2, <2>1, AppendingSuccess DEF LogSuccess
    <3>. QED BY <3>1 DEF Succeeds
  <2>4. \A t : t # stage => Successes(events', t) = Successes(events, t)
    BY <2>2 DEF Adds, Event
  <2>5. PICK s \in snaps : s.run = Len(events)
    BY <1>2 DEF LogSuccess, SnapshotsOfRuns
  <2>6. \A t \in snaps : t.run = Len(events) => t.stage = stage
    BY <1>2 DEF LogSuccess, SnapshotsOfRuns
  <2>7. s.stage = stage /\ s.run = LastSuccessOf(events', stage).snap
    BY <2>3, <2>5, <2>6 DEF Event
  <2>8. ASSUME NEW t \in snaps, Unlogged(t), t.stage # stage PROVE Unlogged(t)'
    <3>1. t.run # Len(events)
      BY <2>6, <2>8
    <3>2. Event(stage, "success", Len(events)).snap = Len(events)
      BY DEF Event
    <3>3. \A i \in DOMAIN events' : \/ i \in DOMAIN events /\ events'[i] = events[i]
                                    \/ events'[i].snap = Len(events)
      BY <2>2, <3>2 DEF Adds
    <3>. QED BY <2>8, <3>1, <3>3 DEF Unlogged
  <2>9. ASSUME NEW st \in Stages, Successes(events', st) # {}
        PROVE  \E t \in snaps' : t.stage = st /\ (t.run = LastSuccessOf(events', st).snap
                 \/ (t.run > LastSuccessOf(events', st).snap /\ Unlogged(t)'))
    <3>1. CASE st = stage
      BY <2>2, <2>7, <3>1
    <3>2. CASE st # stage
      <4>1. PICK t \in snaps : t.stage = st /\ (t.run = LastSuccessOf(events, st).snap
                 \/ (t.run > LastSuccessOf(events, st).snap /\ Unlogged(t)))
        BY <2>4, <2>9, <3>2 DEF RestorePointKept
      <4>2. LastSuccessOf(events', st) = LastSuccessOf(events, st)
        BY <2>3, <2>4, <2>9, <3>2
      <4>. QED BY <2>2, <2>8, <3>2, <4>1, <4>2
    <3>. QED BY <3>1, <3>2
  <2>. QED BY <2>9 DEF RestorePointKept
<1>3. CASE StageBegins
  BY <1>1, <1>3 DEF StageBegins, TypeOK, Statuses
<1>4. CASE LogFailure
  BY <1>1, <1>4, StageKnown DEF LogFailure, UnderWay, Statuses, spaceVars
<1>5. ASSUME NEW st \in Stages, Outdate(st) PROVE RestorePointKept'
  BY <1>1, <1>5 DEF Outdate, Statuses, spaceVars
<1>6. CASE CreateSnapshot
  BY <1>6 DEF CreateSnapshot, RestorePointKept, Unlogged
<1>7. CASE DeleteOldSnapshot
  <2>1. PICK s \in snaps : IsOld(s) /\ snaps' = snaps \ {s} /\ UNCHANGED events
    BY <1>7 DEF DeleteOldSnapshot
  <2>2. ASSUME NEW st \in Stages, Successes(events, st) # {}
        PROVE  \E t \in snaps \ {s} : t.stage = st /\ (t.run = LastSuccessOf(events, st).snap
                 \/ (t.run > LastSuccessOf(events, st).snap /\ Unlogged(t)))
    <3>1. PICK t \in snaps : t.stage = st /\ (t.run = LastSuccessOf(events, st).snap
                 \/ (t.run > LastSuccessOf(events, st).snap /\ Unlogged(t)))
      BY <2>2 DEF RestorePointKept
    <3>2. CASE t = s
      <4>1. PICK u \in snaps : u.stage = s.stage /\ u.run > s.run
        BY <2>1, <3>1, <3>2 DEF IsOld, Stages, Gone
      <4>2. u.run \in Nat /\ s.run \in Nat /\ u # s
        BY <1>0, <4>1 DEF SnapshotsOfRuns
      <4>3. LastSuccessOf(events, st).snap \in Nat
        <5>1. PICK j \in Successes(events, st) :
                j \in 1 .. Len(events) /\ LastSuccessOf(events, st) = events[j]
                /\ events[j].status = "success"
          BY <1>0, <2>2, LastSuccessIs
        <5>2. events[j].snap \in 1 .. j
          BY <1>0, <5>1 DEF RunsInOrder
        <5>. QED BY <5>1, <5>2
      <4>4. u.run > LastSuccessOf(events, st).snap
        BY <3>1, <3>2, <4>1, <4>2, <4>3
      <4>5. Unlogged(u)
        BY <3>1, <3>2, <4>1, <4>2, <4>3, <4>4, LoggedRuns
      <4>. QED BY <3>1, <3>2, <4>1, <4>2, <4>4, <4>5
    <3>. QED BY <3>1, <3>2
  <2>3. \A t : Unlogged(t)' <=> Unlogged(t)
    BY <2>1 DEF Unlogged
  <2>. QED BY <2>1, <2>2, <2>3 DEF RestorePointKept
<1>8. CASE UNCHANGED <<events, snaps>>
  BY <1>8 DEF RestorePointKept, Unlogged
<1>. QED
  BY <1>2, <1>3, <1>4, <1>5, <1>6, <1>7, <1>8
  DEF Next, Builder, Operators, Lock, MountSpace, Determine, Clean, Restore, Rollback,
      RestoreFails, StageSucceeds, StageFails, Finish, Dies, spaceVars

\* Only its own success lets the builder pass an outdated stage.
LEMMA OutdatedStaysAhead ==
  ASSUME TypeOK, AtItsStage, OutdatedIsRebuilt, Next
  PROVE  OutdatedIsRebuilt'
<1>0. Len(events) \in Nat /\ DOMAIN events = 1 .. Len(events) /\ events \in Logs
  BY DEF TypeOK, Logs
<1>1. ASSUME NEW st \in Stages, NEW status \in {"begin", "failed"},
             events' = Append(events, Event(st, status, NoSnapshot))
      PROVE  OutdatedIsRebuilt'
  <2>1. /\ Adds(events, Event(st, status, NoSnapshot), events')
        /\ Event(st, status, NoSnapshot).status = status
    BY <1>0, <1>1, Appending DEF Statuses, NoSnapshot, Event
  <2>2. StartsAt(events') = StartsAt(events)
    BY <1>0, <1>1, AppendingRun
  <2>3. /\ With(events', "outdated") = With(events, "outdated")
        /\ \A t : Successes(events', t) = Successes(events, t)
        /\ \A i \in With(events, "outdated") : events'[i] = events[i]
    BY <1>0, <2>1, Positions DEF Adds
  <2>. QED BY <2>2, <2>3 DEF OutdatedIsRebuilt
<1>2. CASE LogSuccess
  <2>1. /\ stage \in Stages /\ ThisRun = Len(events) /\ Len(events) \in Nat
        /\ stage = StartsAt(events)
    BY <1>2, StageKnown DEF LogSuccess, UnderWay
  <2> DEFINE e == Event(stage, "success", Len(events))
  <2>2. Adds(events, e, events') /\ e.status = "success" /\ e.stage = stage
    BY <1>2, <2>1, Appending DEF TypeOK, LogSuccess, Statuses, Event
  <2>3. StartsAt(events') = stage + 1
    <3>1. Succeeds(events, stage, Len(events), events')
      BY <1>0, <1>2, <2>1, AppendingSuccess DEF LogSuccess
    <3>. QED BY <3>1 DEF Succeeds
  <2>4. /\ With(events', "outdated") = With(events, "outdated")
        /\ Successes(events', stage) = Successes(events, stage) \cup {Len(events) + 1}
        /\ \A t : t # stage => Successes(events', t) = Successes(events, t)
        /\ \A i \in With(events, "outdated") : events'[i] = events[i] /\ i < Len(events) + 1
    BY <1>0, <2>2, Positions DEF Adds
  <2>5. ASSUME NEW i \in With(events, "outdated")
        PROVE  \/ \E j \in Successes(events', events'[i].stage) : j > i
               \/ StartsAt(events') <= events'[i].stage
    <3>1. CASE events[i].stage = stage
      BY <1>0, <2>4, <3>1
    <3>2. CASE events[i].stage # stage
      <4>1. events[i] \in Entries
        BY <1>0, <2>5, Positions DEF Logs
      <4>2. events[i].stage \in Stages \cup {Gone}
        BY <4>1 DEF Entries
      <4>3. \/ \E j \in Successes(events, events[i].stage) : j > i
            \/ StartsAt(events) <= events[i].stage
        BY <2>5 DEF OutdatedIsRebuilt
      <4>4. StartsAt(events) <= events[i].stage => stage + 1 <= events[i].stage
        BY <2>1, <3>2, <4>2, NumStagesAssumption DEF Stages, Gone
      <4>. QED BY <2>3, <2>4, <2>5, <3>2, <4>3, <4>4
    <3>. QED BY <3>1, <3>2
  <2>. QED BY <2>4, <2>5 DEF OutdatedIsRebuilt
<1>3. CASE StageBegins
  BY <1>1, <1>3 DEF StageBegins, TypeOK
<1>4. CASE LogFailure
  BY <1>1, <1>4, StageKnown DEF LogFailure, UnderWay
<1>5. ASSUME NEW st \in Stages, Outdate(st) PROVE OutdatedIsRebuilt'
  <2> DEFINE e == Event(st, "outdated", NoSnapshot)
  <2>1. Adds(events, e, events') /\ e.status = "outdated" /\ e.stage = st
    BY <1>0, <1>5, Appending DEF Outdate, Statuses, NoSnapshot, Event
  <2>2. StartsAt(events') <= StartsAt(events) /\ StartsAt(events') <= st
    BY <1>0, <1>5, AppendingOutdated DEF Outdate
  <2>3. StartsAt(events) \in Int /\ StartsAt(events') \in Int
    BY <1>0, <2>1, StartsAtType, NumStagesAssumption DEF Adds, Stages, None
  <2> HIDE DEF e
  <2>4. /\ With(events', "outdated") = With(events, "outdated") \cup {Len(events) + 1}
        /\ \A t : Successes(events', t) = Successes(events, t)
        /\ \A i \in With(events, "outdated") : events'[i] = events[i]
        /\ events'[Len(events) + 1] = e
    BY <1>0, <2>1, Positions DEF Adds
  <2>5. ASSUME NEW i \in With(events, "outdated")
        PROVE  \/ \E j \in Successes(events', events'[i].stage) : j > i
               \/ StartsAt(events') <= events'[i].stage
    <3>1. events[i] \in Entries
      BY <1>0, <2>5, Positions DEF Logs
    <3>2. events[i].stage \in Int
      BY <3>1, NumStagesAssumption DEF Entries, Stages, Gone
    <3>3. \/ \E j \in Successes(events, events[i].stage) : j > i
          \/ StartsAt(events) <= events[i].stage
      BY <2>5 DEF OutdatedIsRebuilt
    <3>. QED BY <2>2, <2>3, <2>4, <2>5, <3>2, <3>3
  <2>. QED BY <2>1, <2>2, <2>4, <2>5 DEF OutdatedIsRebuilt
<1>6. CASE UNCHANGED events
  BY <1>6 DEF OutdatedIsRebuilt
<1>. QED
  BY <1>2, <1>3, <1>4, <1>5, <1>6
  DEF Next, Builder, Operators, Lock, MountSpace, Determine, Clean, Restore, Rollback,
      RestoreFails, StageSucceeds, StageFails, CreateSnapshot, Finish, Dies, DeleteOldSnapshot

-----------------------------------------------------------------------------
(* The theorems that hold for any earlier builds.                          *)

\* What the earlier builds have left.
LEMMA Inherited ==
  ASSUME Init
  PROVE  /\ events \in Logs /\ Len(events) \in Nat /\ DOMAIN events = 1 .. Len(events)
         /\ \A i \in DOMAIN events :
              events[i].status = "success" /\ events[i].snap = i
                /\ events[i].stage \in Stages \cup {Gone}
         /\ With(events, "success") = DOMAIN events /\ With(events, "outdated") = {}
<1> DEFINE Kept == [stage : Stages \cup {Gone}, status : {"success"}, snap : Nat]
<1>1. events \in Seq(Kept) /\ \A i \in DOMAIN events : events[i].snap = i
  BY HistoriesAssumption DEF Init
<1>2. Kept \subseteq Entries
  BY DEF Entries, Statuses
<1>3. \A i \in DOMAIN events : events[i] \in Kept
  <2> HIDE DEF Kept
  <2>. QED BY <1>1
<1>4. events \in Logs
  <2> HIDE DEF Kept
  <2>. QED BY <1>1, <1>2 DEF Logs
<1>5. Len(events) \in Nat /\ DOMAIN events = 1 .. Len(events)
  BY <1>4 DEF Logs
<1>. QED BY <1>1, <1>3, <1>4, <1>5 DEF With

\* A package as earlier builds have left it.
LEMMA Starting == Init => IInv
<1> SUFFICES ASSUME Init PROVE IInv
  OBVIOUS
<1> DEFINE n == Len(events)
<1>1. /\ events \in Logs /\ n \in Nat /\ DOMAIN events = 1 .. n
      /\ \A i \in DOMAIN events :
           events[i].status = "success" /\ events[i].snap = i
             /\ events[i].stage \in Stages \cup {Gone}
      /\ With(events, "success") = DOMAIN events /\ With(events, "outdated") = {}
  BY Inherited
<1> HIDE DEF n
<1>2. \A m \in Nat : [i \in 1 .. m |-> i] \in Seq(Nat)
  OBVIOUS
<1>3. TypeOK
  <2>1. holds \in Seq(Nat)
    BY <1>1, <1>2 DEF Init
  <2>2. snaps \subseteq [stage : Stages \cup {Gone}, run : Nat, holds : Seq(Nat)]
    <3>1. SUFFICES ASSUME NEW i \in 1 .. n
                   PROVE  [stage |-> events[i].stage, run |-> i, holds |-> [j \in 1 .. i |-> j]]
                            \in [stage : Stages \cup {Gone}, run : Nat, holds : Seq(Nat)]
      BY <1>1 DEF Init
    <3>2. i \in Nat /\ events[i].stage \in Stages \cup {Gone}
      BY <1>1
    <3>. QED BY <1>2, <3>2
  <2>. QED BY <1>1, <2>1, <2>2 DEF Init, TypeOK, Before, None, spaceVars
<1>4. AtItsStage
  BY DEF Init, AtItsStage, Before, UnderWay
<1>5. RunsInOrder
  BY <1>1 DEF RunsInOrder
<1>6. SnapshotsOfRuns
  <2>1. \A s \in snaps : s.run \in 1 .. n /\ s.stage = events[s.run].stage
    BY <1>1 DEF Init
  <2>. QED BY <1>1, <2>1 DEF Init, SnapshotsOfRuns, n
<1>7. OutdatedIsRebuilt
  BY <1>1 DEF OutdatedIsRebuilt
<1>8. RestorePointKept
  <2>1. SUFFICES ASSUME NEW st \in Stages, Successes(events, st) # {}
                 PROVE  \E s \in snaps : s.stage = st /\ s.run = LastSuccessOf(events, st).snap
    BY DEF RestorePointKept
  <2>2. PICK i \in Successes(events, st) :
          LastSuccessOf(events, st) = events[i] /\ events[i].stage = st /\ i \in DOMAIN events
    BY <1>1, <2>1, LastSuccessIs DEF n
  <2>3. PICK s \in snaps : s.stage = events[i].stage /\ s.run = i
    <3> DEFINE s == [stage |-> events[i].stage, run |-> i, holds |-> [j \in 1 .. i |-> j]]
    <3>1. s \in snaps
      BY <2>2 DEF Init
    <3>2. s.stage = events[i].stage /\ s.run = i
      OBVIOUS
    <3>. QED BY <3>1, <3>2
  <2>. QED BY <1>1, <2>2, <2>3
<1>. QED BY <1>3, <1>4, <1>5, <1>6, <1>7, <1>8 DEF IInv

\* The invariant is inductive.
LEMMA Stepping == IInv /\ [Next]_vars => IInv'
<1> SUFFICES ASSUME IInv, [Next]_vars PROVE IInv'
  OBVIOUS
<1>1. CASE Next
  BY <1>1, TypeIsKept, StageIsKept, RunsAreKept, SnapshotsAreKept, RestorePointsAreKept,
     OutdatedStaysAhead DEF IInv
<1>2. CASE UNCHANGED vars
  BY <1>2 DEF vars, spaceVars, IInv, TypeOK, AtItsStage, RunsInOrder, SnapshotsOfRuns,
     OutdatedIsRebuilt, RestorePointKept, Unlogged
<1>. QED BY <1>1, <1>2

\* The inductive invariant: the builder, the log and the snapshots agree with each other.
THEOREM Inductive == Spec => []IInv
<1>. QED BY Starting, Stepping, PTL DEF Spec

\* The type invariant, for any number of stages and any earlier builds.
THEOREM TypeCorrect == Spec => []TypeOK
<1>1. IInv => TypeOK
  BY DEF IInv
<1>. QED BY <1>1, Inductive, PTL

\* Whatever outdate_package_stage has outdated lies ahead of the builder until it has
\* succeeded again, whichever later successes hide the event from get_build_state.
THEOREM OutdatedComesAgain == Spec => []OutdatedIsRebuilt
<1>1. IInv => OutdatedIsRebuilt
  BY DEF IInv
<1>. QED BY <1>1, Inductive, PTL

\* delete_old_snapshots never takes away what a build has to restore, but for a newer
\* snapshot of the same stage that no event speaks of.
THEOREM RestorePointsStay == Spec => []RestorePointKept
<1>1. IInv => RestorePointKept
  BY DEF IInv
<1>. QED BY <1>1, Inductive, PTL

\* build_state.get_next_stage and build_source_package_version work the next stage out
\* differently and find the same.
THEOREM SameNextStage == Spec => []MasterAgrees
<1>1. ASSUME TypeOK PROVE MasterAgrees
  <2> DEFINE last == LastSuccessful(events)  first == FirstOutdated(events)
  <2>1. last \in Stages \cup {Gone, None} /\ first \in Stages \cup {None}
    BY <1>1, LastSuccessfulType, FirstOutdatedType DEF TypeOK
  <2> HIDE DEF last, first
  <2>2. NextStage(events) = LET next == IF last = None THEN 1 ELSE last + 1
                            IN  IF last = Gone THEN Raises
                                ELSE IF first < next THEN first ELSE next
    BY DEF NextStage, last, first
  <2>3. StartsAt(events) = CASE last = None -> 1 [] last = Gone -> first
                             [] OTHER -> IF first <= last THEN first ELSE last + 1
    BY DEF StartsAt, last, first
  <2>4. CASE last = Gone
    BY <2>2, <2>4 DEF MasterAgrees, last
  <2>5. CASE last = None
    <3>1. NextStage(events) = 1 /\ StartsAt(events) = 1
      BY <2>1, <2>2, <2>3, <2>5, NumStagesAssumption DEF None, Gone, Stages
    <3>. QED BY <2>5, <3>1, NumStagesAssumption DEF MasterAgrees, last, None, Gone
  <2>6. CASE last \in Stages
    <3>1. last # None /\ last # Gone
      BY <2>6, NumStagesAssumption DEF None, Gone, Stages
    <3>2. /\ NextStage(events) = IF first < last + 1 THEN first ELSE last + 1
          /\ StartsAt(events) = IF first <= last THEN first ELSE last + 1
      BY <2>2, <2>3, <3>1
    <3>3. first < last + 1 <=> first <= last
      BY <2>1, <2>6, NumStagesAssumption DEF None, Stages
    <3>. QED BY <3>1, <3>2, <3>3 DEF MasterAgrees, last
  <2>. QED BY <2>1, <2>4, <2>5, <2>6
<1>. QED BY <1>1, TypeCorrect, PTL

-----------------------------------------------------------------------------
(* What the scratch space holds.                                           *)

\* What precedes a stage does not change with an event that is not a success before it.
LEMMA PredecessorsKept ==
  ASSUME NEW k \in Nat, Complete(k),
         \A t \in 1 .. k - 1 : Successes(events, t) # {} =>
           LastSuccessOf(events', t) = LastSuccessOf(events, t)
  PROVE  Predecessors(k)' = Predecessors(k)
BY DEF Predecessors, Complete

\* A stage that has succeeded completes the list of those before the next.
LEMMA OneMore ==
  ASSUME NEW k \in Nat, NoneSkipped, k \in 1 .. NumStages - 1, Successes(events, k) # {}
  PROVE  Complete(k + 1)
<1>1. Complete(k)
  BY DEF NoneSkipped
<1>2. \A t \in 1 .. (k + 1) - 1 : t = k \/ t \in 1 .. k - 1
  OBVIOUS
<1>. QED BY <1>1, <1>2 DEF Complete

\* What the newest event that counts says.
LEMMA LastIs ==
  ASSUME NEW ev \in Logs, Actions(ev) # {}
  PROVE  /\ Newest(Actions(ev)) \in 1 .. Len(ev)
         /\ LastOf(ev).status # "outdated"
         /\ LastAction(ev) = LastOf(ev).stage
         /\ LastOf(ev).stage \in Stages \cup {Gone}
         /\ LastOf(ev).status = "success" =>
              /\ LastSuccessful(ev) = LastOf(ev).stage
              /\ Successes(ev, LastOf(ev).stage) # {}
<1> DEFINE i == Newest(Actions(ev))
<1>1. i \in Actions(ev) /\ i \in 1 .. Len(ev) /\ \A j \in Actions(ev) : j <= i
  BY NewestIsMax, Positions
<1>2. LastOf(ev) = ev[i]
  BY DEF LastOf
<1> HIDE DEF i
<1>3. DOMAIN ev = 1 .. Len(ev) /\ ev[i] \in Entries
  BY <1>1 DEF Logs
<1>4. ev[i].stage \in Stages \cup {Gone}
  BY <1>3 DEF Entries
<1>5. ev[i].status # "outdated"
  BY <1>1, <1>3 DEF Actions, With
<1>6. LastAction(ev) = ev[i].stage
  BY <1>1 DEF LastAction, Actions, i
<1>7. ASSUME ev[i].status = "success"
      PROVE  LastSuccessful(ev) = ev[i].stage /\ Successes(ev, ev[i].stage) # {}
  <2>1. i \in With(ev, "success") /\ With(ev, "success") \subseteq Actions(ev)
    BY <1>1, <1>3, <1>7 DEF With, Actions
  <2>2. Newest(With(ev, "success")) = i
    BY <1>1, <2>1, NewestIs, Positions
  <2>. QED BY <2>1, <2>2 DEF LastSuccessful, Successes
<1>. QED BY <1>1, <1>2, <1>4, <1>5, <1>6, <1>7 DEF i

\* If the builder neither has to restore nor to clean, the last event that counts is the
\* success of the stage before the first.
LEMMA GoesOn ==
  ASSUME TypeOK, UnfinishedIsAhead,
         StageBefore(events) # Gone, ~MustRestore(events), StartsAt(events) # None
  PROVE  /\ Actions(events) # {} /\ LastOf(events).status = "success"
         /\ LastOf(events).stage \in 1 .. NumStages - 1
         /\ StartsAt(events) = LastOf(events).stage + 1
         /\ Successes(events, LastOf(events).stage) # {}
<1>1. events \in Logs
  BY DEF TypeOK
<1>2. StartsAt(events) \in Stages
  BY <1>1, StartsAtType
<1>3. StageBefore(events) = StartsAt(events) - 1
  BY DEF StageBefore
<1>4. StartsAt(events) - 1 \in 1 .. NumStages - 1
  BY <1>2, <1>3, NumStagesAssumption DEF Stages, Gone
<1>5. LastAction(events) = StartsAt(events) - 1
  BY <1>3 DEF MustRestore
<1>6. Actions(events) # {}
  <2>1. LastAction(events) # None
    BY <1>4, <1>5, NumStagesAssumption DEF None
  <2>. QED BY <2>1 DEF LastAction, Actions
<1>7. LastOf(events).stage = StartsAt(events) - 1
  BY <1>1, <1>5, <1>6, LastIs
<1>8. LastOf(events).status = "success"
  BY <1>2, <1>6, <1>7, NumStagesAssumption DEF UnfinishedIsAhead, Stages
<1>9. StartsAt(events) = LastOf(events).stage + 1
  BY <1>2, <1>7, NumStagesAssumption DEF Stages
<1>10. Successes(events, LastOf(events).stage) # {}
  BY <1>1, <1>6, <1>8, LastIs
<1>. QED BY <1>4, <1>6, <1>7, <1>8, <1>9, <1>10

\* Where a success leaves the space as it is, the builder neither cleans nor restores.
LEMMA NothingToUndo ==
  ASSUME TypeOK, Actions(events) # {}, LastOf(events).stage \in 1 .. NumStages - 1,
         StartsAt(events) = LastOf(events).stage + 1
  PROVE  StageBefore(events) # Gone /\ ~MustRestore(events)
<1>1. events \in Logs
  BY DEF TypeOK
<1>2. StartsAt(events) # None
  BY NumStagesAssumption DEF None
<1>3. StageBefore(events) = StartsAt(events) - 1
  BY <1>2 DEF StageBefore
<1>4. LastAction(events) = LastOf(events).stage
  BY <1>1, LastIs
<1>5. StageBefore(events) = LastOf(events).stage
  BY <1>3, NumStagesAssumption
<1>. QED BY <1>4, <1>5, NumStagesAssumption DEF MustRestore, Gone

\* The four kinds of steps that add an event, and what each means for the log.
LEMMA LogChanges ==
  ASSUME TypeOK, AtItsStage, Next
  PROVE  \/ UNCHANGED events
         \/ /\ StageBegins \/ LogFailure
            /\ SameSuccesses(events, events') /\ StartsAt(events') = StartsAt(events)
            /\ Actions(events') # {} /\ LastOf(events').status \in {"begin", "failed"}
            /\ LastOf(events').stage = StartsAt(events)
         \/ /\ LogSuccess
            /\ Succeeds(events, stage, Len(events), events')
         \/ /\ pc = "idle" /\ UNCHANGED <<snaps, holds, dirty, pc, stage>>
            /\ SameSuccesses(events, events') /\ StartsAt(events') <= StartsAt(events)
            /\ Actions(events') = Actions(events)
            /\ Actions(events) # {} => LastOf(events') = LastOf(events)
<1>0. events \in Logs
  BY DEF TypeOK
<1>1. ASSUME NEW status \in {"begin", "failed"}, stage \in Stages, stage = StartsAt(events),
             events' = Append(events, Event(stage, status, NoSnapshot))
      PROVE  /\ SameSuccesses(events, events') /\ StartsAt(events') = StartsAt(events)
             /\ Actions(events') # {} /\ LastOf(events').status \in {"begin", "failed"}
             /\ LastOf(events').stage = StartsAt(events)
  <2>1. SameSuccesses(events, events')
    BY <1>0, <1>1, AppendingOther DEF Statuses
  <2>2. /\ StartsAt(events') = StartsAt(events)
        /\ Actions(events') # {} /\ LastOf(events') = Event(stage, status, NoSnapshot)
    BY <1>0, <1>1, AppendingRun
  <2>. QED BY <1>1, <2>1, <2>2 DEF Event
<1>2. CASE StageBegins
  <2>1. stage \in Stages /\ stage = StartsAt(events)
    BY <1>2 DEF StageBegins, TypeOK, AtItsStage, Before
  <2>. QED BY <1>1, <1>2, <2>1 DEF StageBegins
<1>3. CASE LogFailure
  BY <1>1, <1>3, StageKnown DEF LogFailure, UnderWay
<1>4. CASE LogSuccess
  <2>1. stage \in Stages /\ ThisRun = Len(events) /\ Len(events) \in Nat
    BY <1>4, StageKnown DEF LogSuccess, UnderWay
  <2>2. events' = Append(events, Event(stage, "success", Len(events)))
    BY <1>4, <2>1 DEF LogSuccess
  <2>. QED BY <1>0, <1>4, <2>1, <2>2, AppendingSuccess
<1>5. ASSUME NEW st \in Stages, Outdate(st)
      PROVE  /\ pc = "idle" /\ UNCHANGED <<snaps, holds, dirty, pc, stage>>
             /\ SameSuccesses(events, events') /\ StartsAt(events') <= StartsAt(events)
             /\ Actions(events') = Actions(events)
             /\ Actions(events) # {} => LastOf(events') = LastOf(events)
  <2>1. events' = Append(events, Event(st, "outdated", NoSnapshot))
    BY <1>5 DEF Outdate
  <2>2. SameSuccesses(events, events')
    BY <1>0, <2>1, AppendingOther DEF Statuses
  <2>3. /\ StartsAt(events') <= StartsAt(events)
        /\ Actions(events') = Actions(events)
        /\ Actions(events) # {} => LastOf(events') = LastOf(events)
    BY <1>0, <2>1, AppendingOutdated
  <2>. QED BY <1>5, <2>2, <2>3 DEF Outdate, PackageLocked, spaceVars
<1>. QED
  BY <1>2, <1>3, <1>4, <1>5
  DEF Next, Builder, Operators, Lock, MountSpace, Determine, Clean, Restore, Rollback,
      RestoreFails, StageSucceeds, StageFails, CreateSnapshot, Finish, Dies, DeleteOldSnapshot

\* A stage that began or failed is the first one ahead, and can only come nearer.
LEMMA UnfinishedStaysAhead ==
  ASSUME TypeOK, AtItsStage, UnfinishedIsAhead, Next
  PROVE  UnfinishedIsAhead'
<1>0. events \in Logs /\ StartsAt(events) \in Int
  BY StartsAtType, NumStagesAssumption DEF TypeOK, Stages, None
<1>1. CASE UNCHANGED events
  BY <1>1 DEF UnfinishedIsAhead
<1>2. CASE LastOf(events').stage = StartsAt(events) /\ StartsAt(events') = StartsAt(events)
  BY <1>0, <1>2 DEF UnfinishedIsAhead
<1>3. CASE Succeeds(events, stage, Len(events), events')
  BY <1>3 DEF UnfinishedIsAhead, Succeeds, Event
<1>4. CASE /\ SameSuccesses(events, events') /\ StartsAt(events') <= StartsAt(events)
           /\ Actions(events') = Actions(events)
           /\ Actions(events) # {} => LastOf(events') = LastOf(events)
  <2>1. StartsAt(events') \in Int
    BY <1>4, StartsAtType, NumStagesAssumption DEF SameSuccesses, Stages, None
  <2>2. Actions(events) # {} => LastOf(events).stage \in Int
    BY <1>0, LastIs, NumStagesAssumption DEF Stages, Gone
  <2>. QED BY <1>0, <1>4, <2>1, <2>2 DEF UnfinishedIsAhead
<1>. QED BY <1>1, <1>2, <1>3, <1>4, LogChanges

\* The builder goes through the stages in order.
LEMMA NoneIsSkipped ==
  ASSUME TypeOK, AtItsStage, BuilderHolds, NoneSkipped, Next
  PROVE  NoneSkipped'
<1>1. CASE UNCHANGED events
  BY <1>1 DEF NoneSkipped, Complete
<1>2. CASE SameSuccesses(events, events')
  BY <1>2 DEF NoneSkipped, Complete, SameSuccesses
<1>3. CASE LogSuccess /\ Succeeds(events, stage, Len(events), events')
  <2>1. Complete(stage)
    BY <1>3 DEF LogSuccess, BuilderHolds
  <2>2. \A t : Successes(events, t) # {} => Successes(events', t) # {}
    BY <1>3 DEF Succeeds
  <2>3. \A t : t # stage => Successes(events', t) = Successes(events, t)
    BY <1>3 DEF Succeeds
  <2>. QED BY <2>1, <2>2, <2>3 DEF NoneSkipped, Complete
<1>. QED BY <1>1, <1>2, <1>3, LogChanges

\* A success adds its run to what precedes the next stage.
LEMMA SuccessAdds ==
  ASSUME TypeOK, AtItsStage, BuilderHolds, LogSuccess,
         Succeeds(events, stage, Len(events), events')
  PROVE  /\ stage \in Stages /\ stage' = stage + 1
         /\ Complete(stage) /\ Complete(stage)'
         /\ holds = Predecessors(stage)' /\ ~dirty
<1>1. stage \in Stages /\ Len(events) \in Nat /\ stage \in Nat \ {0}
  BY StageKnown, NumStagesAssumption DEF LogSuccess, UnderWay, Stages
<1>2. Complete(stage) /\ ~dirty /\ holds = Append(Predecessors(stage), Len(events))
  BY DEF LogSuccess, BuilderHolds
<1>3. Event(stage, "success", Len(events)).snap = Len(events)
  BY DEF Event
<1>4. /\ \A t \in 1 .. stage - 1 : LastSuccessOf(events', t) = LastSuccessOf(events, t)
      /\ \A t \in 1 .. stage - 1 : Successes(events', t) # {}
      /\ LastSuccessOf(events', stage).snap = Len(events) /\ Successes(events', stage) # {}
  <2>1. \A t \in 1 .. stage - 1 : t # stage /\ Successes(events, t) # {}
    BY <1>1, <1>2 DEF Complete
  <2>2. /\ \A t \in 1 .. stage - 1 : LastSuccessOf(events', t) = LastSuccessOf(events, t)
        /\ \A t \in 1 .. stage - 1 : Successes(events', t) = Successes(events, t)
    BY <2>1 DEF Succeeds
  <2>3. LastSuccessOf(events', stage).snap = Len(events) /\ Successes(events', stage) # {}
    BY <1>3 DEF Succeeds
  <2>. QED BY <2>1, <2>2, <2>3
<1>5. stage' = stage + 1 /\ stage' - 1 = stage
  BY <1>1 DEF LogSuccess
<1>6. Complete(stage)'
  <2>1. \A t \in 1 .. stage : t = stage \/ t \in 1 .. stage - 1
    BY <1>1
  <2>2. \A t \in 1 .. stage : Successes(events', t) # {}
    BY <1>4, <2>1
  <2>. QED BY <1>5, <2>2 DEF Complete
<1>7. Append(Predecessors(stage), Len(events)) =
        [t \in 1 .. stage |-> LastSuccessOf(events', t).snap]
  <2> DEFINE f == [t \in 1 .. stage - 1 |-> LastSuccessOf(events, t).snap]
             g == [t \in 1 .. stage |-> LastSuccessOf(events', t).snap]
  <2>1. Predecessors(stage) = f
    BY DEF Predecessors
  <2> DEFINE S == {f[t] : t \in 1 .. stage - 1} \cup {Len(events)}
  <2>2. f \in Seq(S) /\ Len(f) = stage - 1
    BY <1>1
  <2>3. \A t \in 1 .. stage : g[t] = IF t = stage THEN Len(events) ELSE f[t]
    BY <1>1, <1>4
  <2>4. g \in Seq(S) /\ Len(g) = stage
    <3>1. \A t \in 1 .. stage : t = stage \/ t \in 1 .. stage - 1
      BY <1>1
    <3>2. \A t \in 1 .. stage : g[t] \in S
      BY <2>3, <3>1
    <3>. QED BY <1>1, <3>2
  <2> HIDE DEF f, g, S
  <2>5. /\ Append(f, Len(events)) \in Seq(S) /\ Len(Append(f, Len(events))) = stage
        /\ \A t \in 1 .. stage - 1 : Append(f, Len(events))[t] = f[t]
        /\ Append(f, Len(events))[stage] = Len(events)
    <3>1. Len(events) \in S
      BY DEF S
    <3>2. (stage - 1) + 1 = stage
      BY <1>1
    <3>. QED BY <2>2, <3>1, <3>2, AppendProperties
  <2>6. \A t \in 1 .. stage : Append(f, Len(events))[t] = g[t]
    <3>1. \A t \in 1 .. stage : t = stage \/ t \in 1 .. stage - 1
      BY <1>1
    <3>. QED BY <1>1, <2>3, <2>5, <3>1
  <2>7. Append(f, Len(events)) = g
    BY <2>4, <2>5, <2>6, SeqEqual
  <2>. QED BY <2>1, <2>7 DEF g
<1>. QED BY <1>1, <1>2, <1>5, <1>6, <1>7 DEF Predecessors

\* Under what precedes a stage that need not be built again, nothing changes but by a
\* success of a stage before it.
LEMMA StillBehind ==
  ASSUME NEW k \in 1 .. NumStages - 1, NoneSkipped, Successes(events, k) # {},
         \A t \in 1 .. k : Successes(events, t) # {} =>
           LastSuccessOf(events', t) = LastSuccessOf(events, t)
  PROVE  Predecessors(k + 1)' = Predecessors(k + 1) /\ LastSuccessOf(events', k) = LastSuccessOf(events, k)
<1>1. k \in Nat /\ k + 1 \in Nat /\ (k + 1) - 1 = k /\ k \in 1 .. k
  BY NumStagesAssumption
<1>2. Complete(k + 1)
  BY <1>1, OneMore
<1>. QED BY <1>1, <1>2, PredecessorsKept

\* Whoever changes the space has begun a stage, or has to clean or restore.
LEMMA SuccessStays ==
  ASSUME TypeOK, AtItsStage, BuilderHolds, UnfinishedIsAhead, LeftBySuccess, NoneSkipped, Next
  PROVE  LeftBySuccess'
<1> DEFINE k == LastOf(events).stage
<1>1. SUFFICES ASSUME Actions(events') # {}, LastOf(events').status = "success",
                      LastOf(events').stage \in 1 .. NumStages - 1,
                      StartsAt(events') = LastOf(events').stage + 1
               PROVE  ~dirty' /\ holds' = Predecessors(StartsAt(events))'
  BY DEF LeftBySuccess
<1>2. events \in Logs
  BY DEF TypeOK
<1>3. CASE UNCHANGED events
  <2>1. ~dirty /\ holds = Predecessors(StartsAt(events))
    BY <1>1, <1>3 DEF LeftBySuccess
  <2>2. StageBefore(events) # Gone /\ ~MustRestore(events)
    BY <1>1, <1>3, NothingToUndo
  <2>3. pc \notin {"clean", "restore", "rollback"}
    BY <2>2 DEF BuilderHolds
  <2>4. pc # "flow"
    <3>1. SUFFICES ASSUME pc = "flow" PROVE FALSE
      OBVIOUS
    <3>2. stage = StartsAt(events) /\ Len(events) \in With(events, "begin")
      BY <3>1, StageKnown DEF UnderWay
    <3>3. Len(events) \in Actions(events) /\ Len(events) \in Nat
      BY <1>2, <3>2, Positions DEF With, Actions
    <3>4. \A j \in Actions(events) : j <= Len(events)
      BY <1>2, <3>3, Positions
    <3>5. Newest(Actions(events)) = Len(events)
      BY <1>2, <3>3, <3>4, NewestIs, Positions
    <3>. QED BY <1>1, <1>3, <3>2, <3>5 DEF LastOf, With
  <2>5. UNCHANGED <<holds, dirty>>
    BY <1>2, <1>3, <2>3, <2>4 DEF Next, Builder, Operators, Lock, MountSpace, Determine, Clean,
         Restore, Rollback, RestoreFails, StageSucceeds, StageFails, CreateSnapshot,
         Finish, Dies, DeleteOldSnapshot, LogSuccess, LogFailure, Outdate, StageBegins, spaceVars
  <2>. QED BY <1>3, <2>1, <2>5 DEF Predecessors
<1>4. CASE LastOf(events').status \in {"begin", "failed"}
  BY <1>1, <1>4
<1>5. CASE LogSuccess /\ Succeeds(events, stage, Len(events), events')
  <2>1. stage' = stage + 1 /\ holds = Predecessors(stage)' /\ ~dirty
    BY <1>5, SuccessAdds
  <2>2. StartsAt(events') = stage'
    BY <1>5, <2>1 DEF Succeeds
  <2>. QED BY <1>5, <2>1, <2>2 DEF LogSuccess, spaceVars, Predecessors
<1>6. CASE /\ SameSuccesses(events, events') /\ StartsAt(events') <= StartsAt(events)
           /\ UNCHANGED <<holds, dirty>>
           /\ Actions(events') = Actions(events)
           /\ Actions(events) # {} => LastOf(events') = LastOf(events)
  <2>1. LastOf(events') = LastOf(events) /\ Actions(events) # {} /\ k \in 1 .. NumStages - 1
    BY <1>1, <1>6
  <2>2. LastSuccessful(events) = k /\ Successes(events, k) # {}
    BY <1>1, <1>2, <2>1, LastIs
  <2>3. k \in Stages
    BY <2>1, NumStagesAssumption DEF Stages
  <2>4. StartsAt(events) <= k + 1
    BY <1>2, <2>2, <2>3, StartsAtType
  <2>5. StartsAt(events) \in Int /\ k \in Int
    BY <1>2, <2>3, StartsAtType, NumStagesAssumption DEF Stages, None
  <2>6. StartsAt(events) = k + 1 /\ StartsAt(events') = k + 1
    BY <1>1, <1>6, <2>1, <2>4, <2>5
  <2>7. ~dirty /\ holds = Predecessors(StartsAt(events))
    BY <1>1, <2>1, <2>6 DEF LeftBySuccess
  <2> HIDE DEF k
  <2>8. \A t \in 1 .. k : Successes(events, t) # {} =>
          LastSuccessOf(events', t) = LastSuccessOf(events, t)
    BY <1>6 DEF SameSuccesses
  <2>9. [t \in 1 .. (k + 1) - 1 |-> LastSuccessOf(events', t).snap] = Predecessors(k + 1)
    <3>1. Complete(k + 1)
      BY <2>1, <2>2, <2>5, OneMore, NumStagesAssumption
    <3>2. (k + 1) - 1 = k
      BY <2>5
    <3>. QED BY <2>8, <3>1, <3>2 DEF Complete, Predecessors
  <2>. QED BY <1>6, <2>6, <2>7, <2>9 DEF Predecessors
<1>. QED BY <1>3, <1>4, <1>5, <1>6, LogChanges

\* Of the stages behind, nothing changes but that the stage under way joins them.
LEMMA SnapshotsStayGood ==
  ASSUME TypeOK, AtItsStage, RunsInOrder, SnapshotsOfRuns, BuilderHolds, SnapshotsHold,
         NoneSkipped, Next
  PROVE  SnapshotsHold'
<1>0. events \in Logs /\ Len(events) \in Nat /\ DOMAIN events = 1 .. Len(events)
  BY DEF TypeOK, Logs
<1>1. CASE UNCHANGED events
  <2>1. CASE snaps' \subseteq snaps
    BY <1>1, <2>1 DEF SnapshotsHold, Predecessors
  <2>2. CASE CreateSnapshot
    <3>1. /\ ThisRun = Len(events) /\ Len(events) \in With(events, "begin")
          /\ Len(events) \in Nat \ {0}
      BY <2>2, StageKnown DEF CreateSnapshot, UnderWay
    <3>2. \A s \in snaps' : s \in snaps \/ s.run = Len(events)
      BY <2>2, <3>1 DEF CreateSnapshot
    <3>3. ASSUME NEW k \in 1 .. NumStages - 1, Successes(events, k) # {}
          PROVE  LastSuccessOf(events, k).snap # Len(events)
      <4>1. PICK i \in Successes(events, k) :
              i \in 1 .. Len(events) /\ LastSuccessOf(events, k) = events[i]
              /\ events[i].status = "success"
        BY <1>0, <3>3, LastSuccessIs
      <4>2. events[i].snap \in 1 .. i /\ i # Len(events)
        BY <1>0, <3>1, <4>1 DEF RunsInOrder, With
      <4>3. \A l \in Nat : \A j \in 1 .. l : j # l => \A m \in 1 .. j : m # l
        OBVIOUS
      <4>4. \A m \in 1 .. i : m # Len(events)
        BY <1>0, <4>1, <4>2, <4>3
      <4>. QED BY <4>1, <4>2, <4>4
    <3>. QED BY <1>1, <3>2, <3>3 DEF SnapshotsHold, Predecessors
  <2>3. snaps' \subseteq snaps \/ CreateSnapshot
    BY DEF Next, Builder, Operators, Lock, MountSpace, Determine, Clean, Restore, Rollback,
       RestoreFails, StageBegins, StageSucceeds, StageFails, Finish, Dies, DeleteOldSnapshot,
       LogSuccess, LogFailure, Outdate, spaceVars
  <2>. QED BY <2>1, <2>2, <2>3
<1>2. CASE /\ SameSuccesses(events, events') /\ StartsAt(events') <= StartsAt(events)
           /\ UNCHANGED snaps
  <2>1. SUFFICES ASSUME NEW k \in 1 .. NumStages - 1, k < StartsAt(events'),
                        Successes(events', k) # {},
                        NEW s \in snaps, s.run = LastSuccessOf(events', k).snap
                 PROVE  s.holds = Predecessors(k + 1)'
    BY <1>2 DEF SnapshotsHold
  <2>2. k < StartsAt(events)
    <3>1. StartsAt(events) \in Int /\ StartsAt(events') \in Int /\ k \in Int
      BY <1>0, <1>2, StartsAtType, NumStagesAssumption DEF SameSuccesses, Stages, None
    <3>. QED BY <1>2, <2>1, <3>1
  <2>3. Successes(events, k) # {}
    BY <1>2, <2>1 DEF SameSuccesses
  <2>4. \A t \in 1 .. k : Successes(events, t) # {} =>
          LastSuccessOf(events', t) = LastSuccessOf(events, t)
    BY <1>2 DEF SameSuccesses
  <2>5. Predecessors(k + 1)' = Predecessors(k + 1) /\ LastSuccessOf(events', k) = LastSuccessOf(events, k)
    BY <2>3, <2>4, StillBehind
  <2>. QED BY <2>1, <2>2, <2>3, <2>5 DEF SnapshotsHold
<1>3. CASE LogSuccess /\ Succeeds(events, stage, Len(events), events')
  <2>1. stage \in Stages /\ stage' = stage + 1 /\ holds = Predecessors(stage)' /\ UNCHANGED snaps
    BY <1>3, SuccessAdds DEF LogSuccess, spaceVars
  <2>2. SUFFICES ASSUME NEW k \in 1 .. NumStages - 1, k < StartsAt(events'),
                        Successes(events', k) # {},
                        NEW s \in snaps, s.run = LastSuccessOf(events', k).snap
                 PROVE  s.holds = Predecessors(k + 1)'
    BY <2>1 DEF SnapshotsHold
  <2>3. stage = StartsAt(events) /\ StartsAt(events') = stage + 1
    BY <1>3, StageKnown DEF LogSuccess, UnderWay, Succeeds
  <2>4. CASE k = stage
    <3>1. LastSuccessOf(events', stage).snap = Len(events)
      BY <1>3 DEF Succeeds, Event
    <3>2. s.holds = holds
      BY <1>3, <2>2, <2>4, <3>1 DEF LogSuccess, SnapshotsOfRuns
    <3>. QED BY <2>1, <2>4, <3>2 DEF Predecessors
  <2>5. CASE k < stage
    <3>1. Successes(events, k) # {}
      BY <1>3, <2>1, <2>2, <2>5 DEF Succeeds, Stages
    <3>2. \A t \in 1 .. k : Successes(events, t) # {} =>
            LastSuccessOf(events', t) = LastSuccessOf(events, t)
      BY <1>3, <2>1, <2>5, NumStagesAssumption DEF Succeeds, Stages
    <3>3. Predecessors(k + 1)' = Predecessors(k + 1) /\ LastSuccessOf(events', k) = LastSuccessOf(events, k)
      BY <3>1, <3>2, StillBehind
    <3>. QED BY <2>2, <2>3, <2>5, <3>1, <3>3 DEF SnapshotsHold
  <2>. QED BY <2>1, <2>2, <2>3, <2>4, <2>5, NumStagesAssumption DEF Stages
<1>4. StartsAt(events) \in Int
  BY <1>0, StartsAtType, NumStagesAssumption DEF Stages, None
<1>5. CASE /\ StageBegins \/ LogFailure
           /\ SameSuccesses(events, events') /\ StartsAt(events') = StartsAt(events)
  <2>1. UNCHANGED snaps
    BY <1>5 DEF StageBegins, LogFailure, spaceVars
  <2>. QED BY <1>2, <1>4, <1>5, <2>1
<1>. QED BY <1>1, <1>2, <1>3, <1>5, LogChanges

\* Nothing precedes the first stage.
LEMMA NothingBefore == Complete(1) /\ Predecessors(1) = <<>>
<1>1. 1 .. 1 - 1 = {}
  OBVIOUS
<1>2. Predecessors(1) = [s \in {} |-> LastSuccessOf(events, s).snap]
  BY <1>1 DEF Predecessors
<1>. QED BY <1>1, <1>2 DEF Complete

\* What a rollback brings back.
LEMMA Restored ==
  ASSUME TypeOK, RunsInOrder, SnapshotsOfRuns, SnapshotsHold, NoneSkipped,
         MustRestore(events), stage = StartsAt(events), stage # None,
         NEW s \in SnapshotToRestore
  PROVE  Complete(stage) /\ s.holds = Predecessors(stage)
<1> DEFINE k == stage - 1
<1>0. events \in Logs /\ Len(events) \in Nat /\ DOMAIN events = 1 .. Len(events)
  BY DEF TypeOK, Logs
<1>1. stage \in Stages
  BY DEF TypeOK
<1>2. StageBefore(events) = k /\ StageBefore(events) # Gone
  BY DEF StageBefore, MustRestore
<1>3. k \in 1 .. NumStages - 1 /\ k + 1 = stage /\ k < StartsAt(events) /\ k \in Nat
  BY <1>1, <1>2, NumStagesAssumption DEF Stages, Gone
<1> HIDE DEF k
<1>4. /\ s \in snaps /\ EventsOf(events, k) # {}
      /\ s.run = events[Newest(EventsOf(events, k))].snap
  BY DEF SnapshotToRestore, RestoreEvent, k
<1> DEFINE i == Newest(EventsOf(events, k))
<1>5. i \in EventsOf(events, k) /\ \A j \in EventsOf(events, k) : j <= i
  BY <1>0, <1>4, NewestIsMax, Positions
<1>6. s.run # 0
  BY <1>0, <1>4 DEF SnapshotsOfRuns
<1>7. i \in DOMAIN events /\ events[i].stage = k /\ events[i].status = "success"
  BY <1>4, <1>5, <1>6 DEF EventsOf, RunsInOrder, NoSnapshot
<1>8. i \in Successes(events, k) /\ Successes(events, k) \subseteq EventsOf(events, k)
  BY <1>7 DEF Successes, With, EventsOf
<1> HIDE DEF i
<1>9. Newest(Successes(events, k)) = i
  BY <1>0, <1>5, <1>8, NewestIs, Positions
<1>10. s.run = LastSuccessOf(events, k).snap /\ Successes(events, k) # {}
  BY <1>4, <1>8, <1>9 DEF LastSuccessOf, i
<1>11. s.holds = Predecessors(k + 1)
  BY <1>3, <1>4, <1>10 DEF SnapshotsHold
<1>12. Complete(k + 1)
  BY <1>3, <1>10, OneMore
<1>. QED BY <1>3, <1>11, <1>12

\* What the builder relies on, wherever it is.
LEMMA BuilderStaysInformed ==
  ASSUME TypeOK, AtItsStage, RunsInOrder, SnapshotsOfRuns, Contents, Next
  PROVE  BuilderHolds'
<1>0. events \in Logs
  BY DEF TypeOK
<1>1. CASE pc' \in Before \cup {"failed"}
  BY <1>1 DEF BuilderHolds, Before
<1>2. CASE Determine
  <2>1. /\ UNCHANGED <<events, holds, dirty>> /\ stage' = StartsAt(events)
        /\ pc' = IF MustRestore(events) THEN "restore"
                 ELSE IF StageBefore(events) # Gone THEN "stages" ELSE "clean"
    BY <1>2 DEF Determine, spaceVars
  <2>2. ASSUME ~MustRestore(events), StageBefore(events) # Gone, StartsAt(events) # None
        PROVE  Complete(stage)' /\ ~dirty /\ holds = Predecessors(stage)'
    <3> DEFINE k == LastOf(events).stage
    <3>1. /\ Actions(events) # {} /\ LastOf(events).status = "success"
          /\ k \in 1 .. NumStages - 1 /\ StartsAt(events) = k + 1 /\ Successes(events, k) # {}
      BY <2>2, GoesOn DEF Contents
    <3>2. ~dirty /\ holds = Predecessors(StartsAt(events))
      BY <3>1 DEF Contents, LeftBySuccess
    <3> HIDE DEF k
    <3>3. Complete(StartsAt(events))
      BY <3>1, OneMore, NumStagesAssumption DEF Contents
    <3>. QED BY <2>1, <3>2, <3>3 DEF Complete, Predecessors
  <2>. QED BY <2>1, <2>2 DEF BuilderHolds
<1>3. CASE Clean
  <2>1. StageBefore(events) = Gone /\ stage = StartsAt(events) /\ UNCHANGED <<events, stage>>
    BY <1>3 DEF Clean, Contents, BuilderHolds, AtItsStage, Before
  <2>2. CASE ~dirty
    BY <1>3, <2>1, <2>2 DEF Clean, BuilderHolds
  <2>3. CASE dirty
    <3>1. pc' = "stages" /\ holds' = <<>> /\ dirty' = FALSE
      BY <1>3, <2>3 DEF Clean
    <3>2. stage # None => stage = 1
      <4>1. stage \in Stages \cup {None}
        BY DEF TypeOK
      <4>. QED BY <2>1, <4>1, NumStagesAssumption DEF StageBefore, Stages, Gone, None
    <3>3. stage # None => Complete(stage)' /\ Predecessors(stage)' = <<>>
      BY <2>1, <3>2, NothingBefore DEF Complete, Predecessors
    <3>. QED BY <3>1, <2>1, <3>3 DEF BuilderHolds
  <2>. QED BY <2>2, <2>3
<1>4. CASE Restore
  BY <1>4 DEF Restore, Contents, BuilderHolds
<1>5. CASE Rollback
  <2>1. PICK s \in SnapshotToRestore : holds' = s.holds
    BY <1>5 DEF Rollback
  <2>2. /\ MustRestore(events) /\ stage = StartsAt(events)
        /\ pc' = "stages" /\ dirty' = FALSE /\ UNCHANGED <<events, stage>>
    BY <1>5 DEF Rollback, Contents, BuilderHolds, AtItsStage, Before
  <2>3. stage # None => Complete(stage) /\ s.holds = Predecessors(stage)
    BY <2>1, <2>2, Restored DEF Contents
  <2>. QED BY <2>1, <2>2, <2>3 DEF BuilderHolds, Complete, Predecessors
<1>6. CASE StageBegins
  <2>1. Complete(stage) /\ holds = Predecessors(stage) /\ stage \in Stages
    BY <1>6 DEF StageBegins, Contents, BuilderHolds, TypeOK
  <2>2. SameSuccesses(events, events')
    BY <1>0, <1>6, <2>1, AppendingOther DEF StageBegins, Statuses
  <2>3. /\ \A t \in 1 .. stage - 1 : Successes(events', t) # {}
        /\ \A t \in 1 .. stage - 1 : LastSuccessOf(events', t) = LastSuccessOf(events, t)
    BY <2>1, <2>2 DEF Complete, SameSuccesses
  <2>4. pc' = "flow" /\ UNCHANGED <<holds, stage>>
    BY <1>6 DEF StageBegins
  <2>5. Complete(stage)' /\ holds' = Predecessors(stage)'
    BY <2>1, <2>3, <2>4 DEF Complete, Predecessors
  <2>. QED BY <2>4, <2>5 DEF BuilderHolds
<1>7. CASE StageSucceeds
  <2>1. Complete(stage) /\ holds = Predecessors(stage) /\ ThisRun = Len(events)
    BY <1>7, StageKnown DEF StageSucceeds, Contents, BuilderHolds, UnderWay
  <2>2. /\ holds' = Append(holds, Len(events)) /\ dirty' = FALSE /\ pc' = "snapshot"
        /\ UNCHANGED <<events, stage>>
    BY <1>7, <2>1 DEF StageSucceeds
  <2>3. Predecessors(stage)' = Predecessors(stage) /\ Complete(stage)' /\ Len(events)' = Len(events)
    BY <2>1, <2>2 DEF Predecessors, Complete
  <2>. QED BY <2>1, <2>2, <2>3 DEF BuilderHolds
<1>8. CASE CreateSnapshot
  <2>1. /\ Complete(stage) /\ ~dirty /\ holds = Append(Predecessors(stage), Len(events))
        /\ pc' = "succeeded" /\ UNCHANGED <<events, holds, dirty, stage>>
    BY <1>8 DEF CreateSnapshot, Contents, BuilderHolds
  <2>2. Predecessors(stage)' = Predecessors(stage) /\ Complete(stage)' /\ Len(events)' = Len(events)
    BY <2>1 DEF Predecessors, Complete
  <2>. QED BY <2>1, <2>2 DEF BuilderHolds
<1>9. CASE LogSuccess
  <2>1. stage \in Stages /\ ThisRun = Len(events) /\ Len(events) \in Nat
    BY <1>9, StageKnown DEF LogSuccess, UnderWay
  <2>2. events' = Append(events, Event(stage, "success", Len(events)))
    BY <1>9, <2>1 DEF LogSuccess
  <2>3. Succeeds(events, stage, Len(events), events')
    BY <1>0, <2>1, <2>2, AppendingSuccess
  <2>4. Complete(stage)' /\ holds = Predecessors(stage)' /\ ~dirty
    BY <1>9, <2>3, SuccessAdds DEF Contents
  <2>. QED BY <1>9, <2>4 DEF LogSuccess, spaceVars, BuilderHolds
<1>. QED
  BY <1>1, <1>2, <1>3, <1>4, <1>5, <1>6, <1>7, <1>8, <1>9
  DEF Next, Builder, Operators, Lock, MountSpace, RestoreFails, StageFails, LogFailure, Finish,
      Dies, Outdate, DeleteOldSnapshot, SpaceLocked, PackageLocked, Before

\* Before the first build of ours, if earlier builds skipped nothing.
LEMMA StartingContents ==
  ASSUME Unbroken, Init
  PROVE  Contents
<1> DEFINE n == Len(events)
<1>1. /\ events \in Logs /\ n \in Nat /\ DOMAIN events = 1 .. n
      /\ \A i \in DOMAIN events : events[i].status = "success" /\ events[i].snap = i
      /\ With(events, "success") = DOMAIN events /\ With(events, "outdated") = {}
  BY Inherited
<1> HIDE DEF n
<1>2. ASSUME NEW i \in 1 .. n, events[i].stage \in 1 .. NumStages - 1
      PROVE  \A j \in 1 .. i : events[j].stage = j
  BY <1>1, <1>2, NumStagesAssumption DEF Init, Unbroken, Gone
\* A stage before the last that has succeeded did so in its own place, and only there.
<1>3. ASSUME NEW k \in 1 .. NumStages - 1, Successes(events, k) # {}
      PROVE  k \in 1 .. n /\ Successes(events, k) = {k}
  <2>1. \A i \in Successes(events, k) : i \in 1 .. n /\ events[i].stage = k
    BY <1>1 DEF Successes
  <2>2. \A i \in Successes(events, k) : i = k
    BY <1>2, <2>1
  <2>. QED BY <1>3, <2>1, <2>2
<1>4. ASSUME NEW k \in 1 .. NumStages - 1, k \in 1 .. n, events[k].stage = k
      PROVE  /\ \A t \in 1 .. k : Successes(events, t) = {t}
             /\ Predecessors(k + 1) = [t \in 1 .. k |-> t]
             /\ LastSuccessOf(events, k).snap = k
  <2>1. \A t \in 1 .. k : t \in 1 .. NumStages - 1 /\ t \in 1 .. n /\ events[t].stage = t
    BY <1>1, <1>2, <1>4, NumStagesAssumption
  <2>2. \A t \in 1 .. k : t \in Successes(events, t)
    BY <1>1, <2>1 DEF Successes
  <2>3. \A t \in 1 .. k : Successes(events, t) = {t}
    BY <1>3, <2>1, <2>2
  <2>4. \A t \in 1 .. k : LastSuccessOf(events, t).snap = t
    <3>1. SUFFICES ASSUME NEW t \in 1 .. k PROVE LastSuccessOf(events, t).snap = t
      OBVIOUS
    <3>2. Newest({t}) = t
      <4>1. {t} \in SUBSET (1 .. n) /\ \A j \in {t} : j <= t
        BY <1>1, <2>1
      <4>. QED BY <1>1, <4>1, NewestIs
    <3>. QED BY <1>1, <2>1, <2>3, <3>2 DEF LastSuccessOf
  <2>5. (k + 1) - 1 = k /\ k \in 1 .. k
    BY NumStagesAssumption
  <2>. QED BY <2>3, <2>4, <2>5 DEF Predecessors
<1>5. Actions(events) = 1 .. n
  BY <1>1 DEF Actions
<1>6. Actions(events) # {} => LastOf(events) = events[n] /\ n \in 1 .. n
  <2>1. SUFFICES ASSUME Actions(events) # {} PROVE LastOf(events) = events[n] /\ n \in 1 .. n
    OBVIOUS
  <2>2. n \in 1 .. n /\ \A j \in 1 .. n : j <= n
    BY <1>1, <1>5, <2>1
  <2>3. Newest(1 .. n) = n
    BY <1>1, <2>2, NewestIs
  <2>. QED BY <1>5, <2>2, <2>3 DEF LastOf
<1>7. BuilderHolds
  BY DEF Init, BuilderHolds
<1>8. UnfinishedIsAhead
  BY <1>1, <1>6 DEF UnfinishedIsAhead
<1>9. LeftBySuccess
  <2>1. SUFFICES ASSUME Actions(events) # {}, LastOf(events).stage \in 1 .. NumStages - 1,
                        StartsAt(events) = LastOf(events).stage + 1
                 PROVE  ~dirty /\ holds = Predecessors(StartsAt(events))
    BY DEF LeftBySuccess
  <2>2. n \in 1 .. n /\ events[n].stage \in 1 .. NumStages - 1 /\ events[n].stage = n
    BY <1>2, <1>6, <2>1
  <2>3. StartsAt(events) = n + 1 /\ n \in 1 .. NumStages - 1
    BY <1>6, <2>1, <2>2
  <2>4. Predecessors(n + 1) = [t \in 1 .. n |-> t]
    BY <1>4, <2>2, <2>3
  <2>. QED BY <1>1, <2>3, <2>4 DEF Init
<1>10. SnapshotsHold
  <2>1. SUFFICES ASSUME NEW k \in 1 .. NumStages - 1, Successes(events, k) # {},
                        NEW s \in snaps, s.run = LastSuccessOf(events, k).snap
                 PROVE  s.holds = Predecessors(k + 1)
    BY DEF SnapshotsHold
  <2>2. k \in 1 .. n /\ k \in Successes(events, k)
    BY <1>3, <2>1
  <2>3. events[k].stage = k
    BY <2>2 DEF Successes
  <2>4. Predecessors(k + 1) = [t \in 1 .. k |-> t] /\ s.run = k
    BY <1>4, <2>1, <2>2, <2>3
  <2>5. s.holds = [j \in 1 .. s.run |-> j]
    <3>1. PICK i \in DOMAIN events :
            s = [stage |-> events[i].stage, run |-> i, holds |-> [j \in 1 .. i |-> j]]
      BY DEF Init
    <3>. QED BY <3>1
  <2>. QED BY <2>4, <2>5
<1>11. NoneSkipped
  <2>1. SUFFICES ASSUME NEW k \in 1 .. NumStages - 1, Successes(events, k) # {}
                 PROVE  Complete(k)
    BY DEF NoneSkipped
  <2>2. k \in 1 .. n /\ k \in Successes(events, k)
    BY <1>3, <2>1
  <2>3. events[k].stage = k
    BY <2>2 DEF Successes
  <2>4. \A t \in 1 .. k : Successes(events, t) = {t}
    BY <1>4, <2>2, <2>3
  <2>5. \A t \in 1 .. k - 1 : t \in 1 .. k
    BY NumStagesAssumption
  <2>. QED BY <2>4, <2>5 DEF Complete
<1>. QED BY <1>7, <1>8, <1>9, <1>10, <1>11 DEF Contents

\* What is known of the contents is inductive, on top of the first invariant.
LEMMA SteppingContents == IInv /\ Contents /\ [Next]_vars => Contents'
<1> SUFFICES ASSUME IInv, Contents, [Next]_vars PROVE Contents'
  OBVIOUS
<1>1. CASE Next
  BY <1>1, BuilderStaysInformed, UnfinishedStaysAhead, SuccessStays, SnapshotsStayGood,
     NoneIsSkipped DEF IInv, Contents
<1>2. CASE UNCHANGED vars
  <2>1. UNCHANGED <<events, snaps, holds, dirty, pc, stage>>
    BY <1>2 DEF vars, spaceVars
  <2>2. Complete(stage)' = Complete(stage) /\ Predecessors(stage)' = Predecessors(stage)
    BY <2>1 DEF Complete, Predecessors
  <2>3. BuilderHolds'
    BY <2>1, <2>2 DEF Contents, BuilderHolds
  <2>4. UnfinishedIsAhead'
    BY <2>1 DEF Contents, UnfinishedIsAhead
  <2>5. LeftBySuccess'
    BY <2>1 DEF Contents, LeftBySuccess, Predecessors
  <2>6. SnapshotsHold'
    BY <2>1 DEF Contents, SnapshotsHold, Predecessors
  <2>7. NoneSkipped'
    BY <2>1 DEF Contents, NoneSkipped, Complete
  <2>. QED BY <2>3, <2>4, <2>5, <2>6, <2>7 DEF Contents
<1>. QED BY <1>1, <1>2

\* If earlier builds have skipped nothing, a stage begins only in a scratch space that
\* holds exactly the results of the last successful runs of all stages before it, after
\* any failures, deaths of the builder, interrupted rollbacks, outdated stages and
\* deleted snapshots.
THEOREM StagesBuildOnTheirPredecessors ==
  ASSUME Unbroken
  PROVE  Spec => BuildsOnPredecessors
<1>1. Init => Contents
  BY StartingContents
<1>2. Spec => []Contents
  BY <1>1, Inductive, SteppingContents, PTL DEF Spec
<1>3. TypeOK /\ Contents =>
        [StageBegins => ~dirty /\ holds = Predecessors(stage)]_vars
  BY DEF StageBegins, Contents, BuilderHolds
<1>. QED BY <1>2, <1>3, TypeCorrect, PTL DEF BuildsOnPredecessors

=============================================================================
