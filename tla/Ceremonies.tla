----------------------------- MODULE Ceremonies -----------------------------
(***************************************************************************)
(* The ceremonies of a project in sprint mode (orchestrator/native.go,     *)
(* tickets/tickets.go, reviewclose.go, planapply.go, method/apply.go and   *)
(* the workflows sprint-planning, sprint-review and retro).                *)
(*                                                                         *)
(* The scheduler holds a sprint until the one before it is reviewed and    *)
(* retrospected and its own plan is approved.  For what is missing it      *)
(* starts a run, which ends at a person's gate and stamps the sprint when  *)
(* the gate is approved; a review that was rejected publishes correction   *)
(* stories into the next sprint first.                                     *)
(*                                                                         *)
(* A cycle reads its lists, the run statuses and the settings one call at  *)
(* a time, while people and workers go on.                                 *)
(***************************************************************************)
EXTENDS Naturals, Sequences, FiniteSets

CONSTANTS
  Sprints,     \* 1..n, in the order they are fired; each builds on the last
  Ceremony,    \* the kinds the project's settings set to "ceremony"
  MaxFaults,   \* bound: failed calls, crashes, rejections and failed builds
  MaxLive      \* bound: runs that are live at the same time

Kinds == {"planning", "review", "retro"}

ASSUME CeremonyAssumption ==
  /\ Sprints \subseteq Nat \ {0}
  /\ Ceremony \subseteq Kinds
  /\ MaxFaults \in Nat /\ MaxLive \in Nat

VARIABLES
  work,     \* work[n]: the stories of sprint n, taken together
  late,     \* the sprints that got a correction story after they were fired
  stamps,   \* stamps[k]: the sprints with planned_at, reviewed_at, retro_at set
  ref,      \* ref[k][n]: planning_run_id, review_run_id, retro_run_id; 0 is none
  runs,     \* the ceremony runs, in the order they were started
  sched,    \* the scheduler's cycle
  faults

ceremonyVars == <<work, late, stamps, ref, runs, sched, faults>>

NoRow == [sprint |-> 0, run |-> 0, stamped |-> FALSE]
Idle == [at |-> "idle", ready |-> {}, queue |-> {}, row |-> NoRow, kind |-> "review",
         held |-> FALSE, blind |-> FALSE, cached |-> FALSE]
Run(k, n) == [kind |-> k, sprint |-> n, at |-> "working", doc |-> FALSE, recorded |-> FALSE]
isTerminalStatus(r) == runs[r].at = "ended"
Fault == faults < MaxFaults /\ faults' = faults + 1
Stored == UNCHANGED <<work, late, stamps, ref, runs>>

-----------------------------------------------------------------------------
(* What the store lists.                                                   *)

\* sprintReady: every story in backlog, and the sprint before it done.
Ready == {n \in Sprints : work[n] = "backlog" /\ \A m \in Sprints : m < n => work[m] = "done"}

\* sprintAllDone: a late correction is a story that is not done.
DoneSprintsAwaitingReview ==
  {n \in Sprints \ stamps["review"] : work[n] = "done" /\ n \notin late}
ReviewedSprintsAwaitingRetro == stamps["review"] \ stamps["retro"]

\* A row of a list: the sprint as it was when it was read.
Row(k, n) == [sprint |-> n, run |-> ref[k][n], stamped |-> n \in stamps[k]]
Rows(k, S) == {Row(k, n) : n \in S}

-----------------------------------------------------------------------------
(* The scheduler's cycle: fireByProject.                                   *)

CycleGoes(at) == sched' = [sched EXCEPT !.at = at]

\* On to the next row.
PassOver == sched' = [sched EXCEPT !.at = "sweep", !.row = NoRow]

\* The next row of the list that is being gone through, lowest sprint first.
Takes(row) ==
  /\ sched.at = "sweep" /\ row \in sched.queue
  /\ \A other \in sched.queue : row.sprint <= other.sprint
Rest(row) == sched.queue \ {row}

\* Ready, ReadySprints.
ListReady ==
  /\ sched.at = "idle"
  /\ sched' = [Idle EXCEPT !.at = "list_review", !.ready = Rows("planning", Ready)]
  /\ Stored /\ UNCHANGED faults

\* SprintsAwaitingReview, then SprintsAwaitingRetro.
ListAwaiting ==
  /\ sched.at \in {"list_review", "list_retro"}
  /\ LET k == sched.kind
         S == IF k = "review" THEN DoneSprintsAwaitingReview ELSE ReviewedSprintsAwaitingRetro
     IN  sched' = [sched EXCEPT !.at = "sweep", !.queue = Rows(k, S)]
  /\ Stored /\ UNCHANGED faults

\* A list that cannot be read holds nothing.
ListAwaitingFails ==
  /\ sched.at \in {"list_review", "list_retro"}
  /\ sched' = [sched EXCEPT !.at = "sweep", !.queue = {}, !.blind = TRUE]
  /\ Stored /\ Fault

\* A row of an awaiting list: the project is held and its run looked after.
Sweep(row) ==
  /\ Takes(row) /\ sched.kind # "planning"
  /\ sched' = IF sched.kind \in Ceremony
              THEN [sched EXCEPT !.at = "ensure", !.row = row, !.queue = Rest(row),
                                 !.held = TRUE, !.cached = TRUE]
              ELSE [sched EXCEPT !.queue = Rest(row), !.cached = TRUE]
  /\ Stored /\ UNCHANGED faults

\* modeFor: settings that cannot be read count as "auto", for this lookup.
SettingsFail(row) ==
  /\ Takes(row) /\ ~sched.cached
  /\ sched' = IF sched.kind = "planning"
              THEN [sched EXCEPT !.at = "fire", !.row = row, !.queue = Rest(row), !.blind = TRUE]
              ELSE [sched EXCEPT !.queue = Rest(row), !.blind = TRUE]
  /\ Stored /\ Fault

\* Faulty variant: a held project fires what is ready.
SweepEnds_NotHeld ==
  /\ sched.at = "sweep" /\ sched.queue = {}
  /\ sched' = CASE sched.kind = "review" -> [sched EXCEPT !.at = "list_retro", !.kind = "retro"]
                [] sched.kind = "retro" ->
                     [sched EXCEPT !.kind = "planning", !.queue = sched.ready]
                [] OTHER -> Idle
  /\ Stored /\ UNCHANGED faults

\* The reviews are swept, then the retros, then what is ready is fired.
SweepEnds ==
  /\ sched.at = "sweep" /\ sched.queue = {}
  /\ sched' = CASE sched.kind = "review" -> [sched EXCEPT !.at = "list_retro", !.kind = "retro"]
                [] sched.kind = "retro" /\ ~sched.held ->
                     [sched EXCEPT !.kind = "planning", !.queue = sched.ready]
                [] OTHER -> Idle
  /\ Stored /\ UNCHANGED faults

\* A ready sprint is planned first or fired; the row says if it has its plan.
FireOrPlan(row) ==
  /\ Takes(row) /\ sched.kind = "planning"
  /\ sched' = [sched EXCEPT
       !.at = IF "planning" \in Ceremony /\ ~row.stamped THEN "ensure" ELSE "fire",
       !.row = row, !.queue = Rest(row), !.cached = TRUE]
  /\ Stored /\ UNCHANGED faults

\* fireSprint: the claim takes the sprint if every story is still in backlog.
fireSprint ==
  /\ sched.at = "fire"
  /\ LET n == sched.row.sprint
     IN  work' = IF work[n] = "backlog" THEN [work EXCEPT ![n] = "running"] ELSE work
  /\ PassOver
  /\ UNCHANGED <<late, stamps, ref, runs, faults>>

-----------------------------------------------------------------------------
(* ensureSprintReview, ensureSprintRetro, ensureSprintPlanning: one live   *)
(* run for the row.                                                        *)

\* Faulty variant: a recorded run is never replaced.
Ensure_Once ==
  /\ sched.at = "ensure"
  /\ IF sched.row.run # 0 THEN PassOver ELSE CycleGoes("start")
  /\ Stored /\ UNCHANGED faults

\* A recorded run that is live is left alone; one that ended is replaced.
Ensure ==
  /\ sched.at = "ensure"
  /\ LET r == sched.row.run
     IN  IF r # 0 /\ ~isTerminalStatus(r) THEN PassOver ELSE CycleGoes("start")
  /\ Stored /\ UNCHANGED faults

\* Faulty variant: a run whose status cannot be read counts as ended.
NotNow_Restart ==
  /\ sched.at \in {"ensure", "start"}
  /\ IF sched.at = "ensure" THEN CycleGoes("start") ELSE PassOver
  /\ Stored /\ Fault

\* The status cannot be read, the budget is spent, the snapshot fails or the
\* run cannot be started: not in this cycle.
NotNow ==
  /\ sched.at \in {"ensure", "start"}
  /\ PassOver
  /\ Stored /\ Fault

\* FireRun.
MayStart == sched.at = "start" /\ Cardinality({r \in DOMAIN runs : ~isTerminalStatus(r)}) < MaxLive
Start ==
  /\ MayStart
  /\ runs' = Append(runs, Run(sched.kind, sched.row.sprint))
  /\ CycleGoes("record")
  /\ UNCHANGED <<work, late, stamps, ref, faults>>

\* FireRun starts the run, but the answer is lost.
StartUnheard ==
  /\ MayStart
  /\ runs' = Append(runs, Run(sched.kind, sched.row.sprint))
  /\ PassOver
  /\ Fault
  /\ UNCHANGED <<work, late, stamps, ref>>

\* SetSprintReviewRun and its twins: the last run started is the sprint's run.
Record ==
  /\ sched.at = "record"
  /\ ref' = [ref EXCEPT ![sched.kind][sched.row.sprint] = Len(runs)]
  /\ runs' = [runs EXCEPT ![Len(runs)].recorded = TRUE]
  /\ PassOver
  /\ UNCHANGED <<work, late, stamps, faults>>

RecordFails ==
  /\ sched.at = "record"
  /\ PassOver
  /\ Stored /\ Fault

\* The process dies in the middle of a cycle; it starts again with a new one.
Crash ==
  /\ sched.at # "idle"
  /\ sched' = Idle
  /\ Stored /\ Fault

-----------------------------------------------------------------------------
(* The runs and the people at their gates.                                 *)

Steps(r, from, to) ==
  /\ runs[r].at = from
  /\ runs' = [runs EXCEPT ![r].at = to]
Ended(r) == [runs[r] EXCEPT !.at = "ended", !.doc = FALSE]
Alone == UNCHANGED <<work, late, stamps, ref, sched>>

\* The agents' documents are ready for the person at the gate.
ReachGate(r) == Steps(r, "working", "gate") /\ Alone /\ UNCHANGED faults

Approve(r) ==
  /\ Steps(r, "gate", IF runs[r].kind = "review" THEN "publish" ELSE "close")
  /\ Alone /\ UNCHANGED faults

\* Rejected, or answered: the documents are made again; a review's feedback
\* becomes correction stories.
Reject(r) ==
  /\ runs[r].at = "gate"
  /\ runs' = [runs EXCEPT ![r].at = "working", ![r].doc = runs[r].kind = "review"]
  /\ Alone /\ Fault

\* ticket_publish of the corrections, into nextSprintID.
PublishCorrections(r) ==
  /\ Steps(r, "publish", "close")
  /\ LET n == runs[r].sprint + 1
     IN  late' = IF runs[r].doc /\ n \in Sprints /\ work[n] # "backlog"
                 THEN late \cup {n} ELSE late
  /\ UNCHANGED <<work, stamps, ref, sched, faults>>

\* plan_apply, review_close, registry_apply: the stamp is their last act.
Close(r) ==
  /\ runs[r].at = "close"
  /\ runs' = [runs EXCEPT ![r] = Ended(r)]
  /\ stamps' = [stamps EXCEPT ![runs[r].kind] = @ \cup {runs[r].sprint}]
  /\ UNCHANGED <<work, late, ref, sched, faults>>

\* A failed step, a plan that cannot be applied, a cancelled run.
RunFails(r) ==
  /\ runs[r].at # "ended"
  /\ runs' = [runs EXCEPT ![r] = Ended(r)]
  /\ Alone /\ Fault

\* The sprint's own run and pull request, modelled in Scheduler.
Built(n) ==
  /\ work[n] = "running"
  /\ work' = [work EXCEPT ![n] = "done"]
  /\ UNCHANGED <<late, stamps, ref, runs, sched, faults>>

\* It failed and its stories were put back (RequeueSprint).
Requeued(n) ==
  /\ work[n] = "running"
  /\ work' = [work EXCEPT ![n] = "backlog"]
  /\ UNCHANGED <<late, stamps, ref, runs, sched>>
  /\ Fault

-----------------------------------------------------------------------------
CeremonyInit ==
  /\ work = [n \in Sprints |-> "backlog"]
  /\ late = {}
  /\ stamps = [k \in Kinds |-> {}]
  /\ ref = [k \in Kinds |-> [n \in Sprints |-> 0]]
  /\ runs = <<>>
  /\ sched = Idle
  /\ faults = 0

Cycle ==
  \/ ListReady \/ ListAwaiting \/ SweepEnds \/ fireSprint \/ Ensure \/ Start \/ Record
  \/ \E row \in sched.queue : Sweep(row) \/ FireOrPlan(row)

Faulty ==
  \/ ListAwaitingFails \/ NotNow \/ StartUnheard \/ RecordFails \/ Crash
  \/ \E row \in sched.queue : SettingsFail(row)

Progress(r) == ReachGate(r) \/ Approve(r) \/ PublishCorrections(r) \/ Close(r)

CeremonyNext ==
  \/ Cycle
  \/ Faulty
  \/ \E r \in DOMAIN runs : Progress(r) \/ Reject(r) \/ RunFails(r)
  \/ \E n \in Sprints : Built(n) \/ Requeued(n)

CeremonySpec == CeremonyInit /\ [][CeremonyNext]_ceremonyVars

\* The bound on the runs that a cycle can start, for the fairness of each.
MaxRuns == 3 * Cardinality(Sprints) * (MaxFaults + 2)

\* The scheduler polls, workers work, and a person answers at a gate.
LiveSpec ==
  /\ CeremonySpec
  /\ WF_ceremonyVars(Cycle)
  /\ \A r \in 1..MaxRuns : WF_ceremonyVars(r \in DOMAIN runs /\ Progress(r))
  /\ \A n \in Sprints : WF_ceremonyVars(Built(n))

-----------------------------------------------------------------------------
\* fireByProject: a sprint starts only when those before it are reviewed and
\* retrospected and its own plan is approved, as far as the settings ask for
\* it, in every cycle whose lists and settings could be read.  A sprint that a
\* correction reached too late is never listed for its review again, and the
\* ones after it are not held for it.
NothingFiresUnapproved ==
  [][\A n \in Sprints :
       work[n] = "backlog" /\ work'[n] = "running" /\ ~sched.blind =>
         /\ "planning" \in Ceremony => n \in stamps["planning"]
         /\ \A k \in Ceremony \ {"planning"} : \A m \in Sprints :
              m < n => m \in stamps[k] \cup late]_ceremonyVars

\* ensureSprintReview and its twins: of the recorded runs of a sprint's ceremony
\* at most one is live.
OneLiveCeremony ==
  \A r, q \in DOMAIN runs :
    /\ runs[r].recorded /\ runs[q].recorded
    /\ ~isTerminalStatus(r) /\ ~isTerminalStatus(q)
    /\ <<runs[r].kind, runs[r].sprint>> = <<runs[q].kind, runs[q].sprint>>
    => r = q

\* publish_corrections: "the correction stories for the NEXT sprint" reach it
\* before it is fired, so that they are built with it.
NoLateCorrection == late = {}

\* Once calls stop failing and people stop rejecting, every sprint is built,
\* reviewed and retrospected, unless a correction came too late for its sprint.
ProjectAdvances ==
  <>(\/ late # {}
     \/ \A n \in Sprints :
          /\ work[n] = "done"
          /\ \A k \in Ceremony \ {"planning"} : n \in stamps[k])
=============================================================================
