----------------------------- MODULE BuildState -----------------------------
(***************************************************************************)
(* What the events in the database say about a package's way through the   *)
(* pipeline: build_state.py, which answers the build master, and the       *)
(* beginning of build_source_package_version, which works the same out     *)
(* again for the builder.                                                  *)
(*                                                                         *)
(* The events of one package version are a sequence in the order of their  *)
(* time stamps; a comparison of times is one of positions.  A stage is its *)
(* position in all_stages.  A snapshot is named by its stage and the time, *)
(* so the position of the stage's begin event stands for it.               *)
(***************************************************************************)
EXTENDS Naturals, Sequences

CONSTANT NumStages

ASSUME NumStagesAssumption == NumStages \in Nat \ {0}

Stages == 1 .. NumStages           \* all_stages
Gone == 0                          \* a stage that all_stages had once
None == NumStages + 1
Raises == NumStages + 2
NoSnapshot == 0

Event(st, status, snap) == [stage |-> st, status |-> status, snap |-> snap]

Newest(S) == CHOOSE i \in S : \A j \in S : j <= i

With(ev, status) == {i \in DOMAIN ev : ev[i].status = status}
Successes(ev, st) == {i \in With(ev, "success") : ev[i].stage = st}

-----------------------------------------------------------------------------
(* get_build_state and its two readers.                                    *)

LastSuccessful(ev) ==
  IF With(ev, "success") = {} THEN None ELSE ev[Newest(With(ev, "success"))].stage

\* A success of any stage makes up for an earlier outdated event of any other.
OutdatedCandidates(ev) ==
  {ev[i].stage : i \in {o \in With(ev, "outdated") :
                          \A j \in With(ev, "success") : j < o}}

\* Mutant: the last outdated stage counts, not the first.
LastOutdated(ev) ==
  LET C == OutdatedCandidates(ev) \cap Stages
  IN  IF C = {} THEN None ELSE CHOOSE s \in C : \A t \in C : s >= t

FirstOutdated(ev) ==
  LET C == OutdatedCandidates(ev) \cap Stages
  IN  IF C = {} THEN None ELSE CHOOSE s \in C : \A t \in C : s <= t

\* Mutant: an outdated stage counts only if the build has passed it.
NextStageIfPassed(ev) ==
  LET last == LastSuccessful(ev)
      next == IF last = None THEN 1 ELSE last + 1
  IN  IF last = Gone THEN Raises
      ELSE IF FirstOutdated(ev) < last THEN FirstOutdated(ev) ELSE next

\* get_next_stage.  If the last successful stage is not in the list any more, the
\* message that says so uses undefined names.
NextStage(ev) ==
  LET last == LastSuccessful(ev)
      next == IF last = None THEN 1 ELSE last + 1
  IN  IF last = Gone THEN Raises
      ELSE IF FirstOutdated(ev) < next THEN FirstOutdated(ev) ELSE next

\* get_last_successful_stage_event
LastSuccessOf(ev, st) == ev[Newest(Successes(ev, st))]

-----------------------------------------------------------------------------
(* build_source_package_version: where to start, and what to restore.      *)

\* The first of stages_ahead, or None if there are none.
StartsAt(ev) ==
  LET last == LastSuccessful(ev)
  IN  CASE last = None -> 1
        [] last = Gone -> FirstOutdated(ev)
        [] OTHER -> IF FirstOutdated(ev) <= last THEN FirstOutdated(ev) ELSE last + 1

\* stage_before_first; Gone, which is 0, if there is none.
StageBefore(ev) ==
  IF StartsAt(ev) = None /\ LastSuccessful(ev) = Gone THEN Gone ELSE StartsAt(ev) - 1

\* The stage of the newest event that is not an outdated one.
LastAction(ev) ==
  LET A == DOMAIN ev \ With(ev, "outdated")
  IN  IF A = {} THEN None ELSE ev[Newest(A)].stage

\* Mutant: a state is restored only if something was outdated.
RestoreIfOutdated(ev) ==
  /\ StageBefore(ev) # Gone /\ LastAction(ev) # StageBefore(ev)
  /\ FirstOutdated(ev) # None

MustRestore(ev) == StageBefore(ev) # Gone /\ LastAction(ev) # StageBefore(ev)

\* restore_event: the newest event of the stage, whatever its status.
EventsOf(ev, st) == {i \in DOMAIN ev : ev[i].stage = st}

\* Mutant: any event of the stage will do.
SomeEvent(ev, st) == ev[CHOOSE i \in EventsOf(ev, st) : \A j \in EventsOf(ev, st) : i <= j]

RestoreEvent(ev, st) == ev[Newest(EventsOf(ev, st))]
=============================================================================
