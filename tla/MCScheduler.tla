---------------------------- MODULE MCScheduler ----------------------------
(* Model values for checking Scheduler.                                     *)
EXTENDS Scheduler

CONSTANTS k1, k2

OneScheduler == {k1}
TwoSchedulers == {k1, k2}

TwoStories == {1, 2}
\* The second story builds on the first.
Chain == [s \in Stories |-> IF s = 2 THEN {1} ELSE {}]
NoDeps == [s \in Stories |-> {}]

Board(unit, merge, sprint) == [unit |-> unit, merge |-> merge, sprint |-> sprint]

\* Loose stories that run one by one, or a sprint that runs as a whole.
PlainBoards ==
  {Board("story", "auto", {}), Board("sprint", "manual", {1, 2}),
   Board("sprint", "auto", {1, 2})}

\* A project in story mode whose stories were planned into a sprint.
PlannedBoards == {Board("story", "manual", {1, 2})}

Limits(lost, unheard, crash, revive, people) ==
  [lost |-> lost, unheard |-> unheard, crash |-> crash, revive |-> revive,
   people |-> people]
OneOfEach == Limits(1, 1, 1, 1, 1)
Quiet == Limits(0, 0, 0, 0, 0)
=============================================================================
