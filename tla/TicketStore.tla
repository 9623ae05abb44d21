---------------------------- MODULE TicketStore ----------------------------
(***************************************************************************)
(* The status updates of the ticket store (tickets/tickets.go).  Each one  *)
(* is a single guarded UPDATE ... WHERE status IN (...), over one story or *)
(* over a sprint's stories: an operator from a story table to a table.     *)
(*                                                                         *)
(* A story keeps its status, the run recorded for it and the pull request  *)
(* recorded for it, named by the run that opened it; 0 is the empty text.  *)
(***************************************************************************)
EXTENDS Naturals, StoryStatus

CONSTANTS
  Stories,  \* story ids, numbers in the order the store lists them
  Runs,     \* run ids, numbers from 1
  Deps      \* Deps[s]: the stories s depends on

ASSUME TicketAssumption ==
  /\ Stories \subseteq Nat \ {0}
  /\ Runs \subseteq Nat \ {0}
  /\ Deps \in [Stories -> SUBSET Stories]
  /\ \A s \in Stories : s \notin Deps[s]

\* Listings are finite: they have a first story and a last one.
ASSUME OrderAssumption ==
  \A S \in (SUBSET Stories) \ {{}} :
    \E a, z \in S : \A s \in S : a <= s /\ s <= z

Story == [status : Statuses, run : Runs \cup {0}, pr : Runs \cup {0}]
NewStory == [status |-> "backlog", run |-> 0, pr |-> 0]

\* The rows WHERE status IN from of the stories of U, and an update of such rows.
Rows(st, U, from) == {s \in U : st[s].status \in from}
Updated(st, W, to) == [s \in Stories |-> IF s \in W THEN to[s] ELSE st[s]]

Moved(st, U, target) ==
  Updated(st, Rows(st, U, LegalSources[target]),
          [s \in Stories |-> [st[s] EXCEPT !.status = target]])

\* ClaimStory, ClaimSprint: all of U or nothing.
CanClaim(st, U) == U # {} /\ Rows(st, U, {"backlog"}) = U
Claimed(st, U) == Moved(st, U, "running")

\* markBacklog, MarkSprintBacklog: only a claim that has no run yet.
ResetClaim(st, U) ==
  Updated(st, {s \in Rows(st, U, {"running"}) : st[s].run = 0},
          [s \in Stories |-> [st[s] EXCEPT !.status = "backlog"]])

\* PUT /stories/{id}/status with running and a run: the status update, which
\* accepts a story that is running already, then SetStoryRun.
CanRecord(st, U) == Rows(st, U, {"backlog", "running"}) = U
Recorded(st, U, r) ==
  Updated(st, U, [s \in Stories |-> [st[s] EXCEPT !.status = "running", !.run = r]])

\* SetSprintRun.
SprintRecorded(st, U, r) ==
  Updated(st, Rows(st, U, NotEnded), [s \in Stories |-> [st[s] EXCEPT !.run = r]])

\* MarkInReview, MarkSprintInReview.
InReview(st, U, p) ==
  Updated(st, Rows(st, U, LegalSources["in_review"]),
          [s \in Stories |-> [st[s] EXCEPT !.status = "in_review", !.pr = p]])

\* RequeueStory, RequeueSprint, RequeueByRun.
Requeued(st, U) ==
  Updated(st, Rows(st, U, {"failed"}), [s \in Stories |-> NewStory])

\* Faulty variant: a dependency counts once its pull request is open.
depsDone_InReview(st, D) == \A d \in D : st[d].status \in {"in_review", "done"}

depsDone(st, D) == \A d \in D : st[d].status = "done"

\* Ready and sprintReady.
Ready(st) == {s \in Stories : st[s].status = "backlog" /\ depsDone(st, Deps[s])}

SprintReady(st, U) ==
  CanClaim(st, U) /\ \A s \in U : depsDone(st, Deps[s] \ U)
=============================================================================
