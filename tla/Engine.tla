------------------------------- MODULE Engine -------------------------------
(***************************************************************************)
(* The workflow engine (engine/internal/workflow) over the kernel store.   *)
(* A run executes the steps of a flow one task at a time: a worker claims  *)
(* the task, runs the step, records the result, and then, in a later       *)
(* transaction, advances the run.  API handlers start, cancel, retry,      *)
(* rerun, approve, reject and answer at any moment, each in several        *)
(* transactions of its own.                                                *)
(*                                                                         *)
(* Every worker and every API call in progress is a thread with a program  *)
(* counter; one action is one transaction (or one read) of that thread.    *)
(***************************************************************************)
EXTENDS TaskStore, FiniteSets, FiniteSetsExt

CONSTANTS
  Workers,     \* threads running WorkerLoop
  Clients,     \* threads serving API calls
  Runs,        \* run ids
  None,        \* the empty claimed_by column
  Flow,        \* the manifest: a sequence of steps
  Ops,         \* the API operations that callers use
  RetryFrom,   \* run statuses from which callers ask for a retry
  RerunFrom,   \* run statuses from which callers ask for a rerun
  RerunAt,     \* the steps that callers rerun
  CrashAt,     \* program counters at which a process may die
  Infra,       \* whether a manifest may fail to load
  Retention,   \* whether RetentionLoop runs (VIBEFORGE_RETENTION_DAYS)
  MaxCalls,    \* bound: API calls
  MaxFaults,   \* bound: crashes, stalls and provider limits
  MaxAnswers   \* maxAnswersPerPhase

Steps == DOMAIN Flow
Kinds == {"work", "human_gate"}
Marks == {"none", "rerun", "rerun_terminal"}
Threads == Workers \cup Clients

ASSUME ThreadAssumption == Workers \cap Clients = {} /\ None \notin Workers
ASSUME FlowAssumption ==
  Flow \in Seq([kind: Kinds, goto: Nat, max: Nat, skippable: BOOLEAN]) /\ Flow # <<>>
ASSUME GotoAssumption == \A s \in Steps : Flow[s].goto \in Steps \cup {0}
ASSUME BoundAssumption == {MaxCalls, MaxFaults, MaxAnswers} \subseteq Nat

VARIABLES
  tasks,     \* the tasks table, in creation order
  runs,      \* runs[r]: the run's status, "NONE" before CreateRun
  boundary,  \* boundary[r].at: tasks that existed at the last retry or rerun
             \* event; boundary[r].kept: that event is still in the events table
  answers,   \* answers[r][s]: step.answer events
  th,        \* th[h]: program counter and locals of thread h
  calls,     \* API calls made
  faults     \* faults that struck

vars == <<tasks, runs, boundary, answers, th, calls, faults>>
store == <<tasks, runs, boundary, answers>>
budget == <<calls, faults>>

Ids == DOMAIN tasks

NewRow(r, s, m) ==
  [run |-> r, step |-> s, mark |-> m, status |-> "QUEUED", fence |-> 0,
   claimedBy |-> None, fresh |-> FALSE, due |-> TRUE]

Resting == [pc |-> "idle", run |-> None, task |-> 0, fence |-> 0, ok |-> FALSE,
            step |-> 0, mark |-> "none", to |-> "DONE", todo |-> {}]

Init ==
  /\ tasks = <<>>
  /\ runs = [r \in Runs |-> "NONE"]
  /\ boundary = [r \in Runs |-> [at |-> 0, kept |-> TRUE]]
  /\ answers = [r \in Runs |-> [s \in Steps |-> 0]]
  /\ th = [h \in Threads |-> Resting]
  /\ calls = 0
  /\ faults = 0

At(h, pc) == th[h].pc = pc

Become(h, local) == th' = [th EXCEPT ![h] = local]

Rest(h) == Become(h, Resting)

Enqueue(r, s, m) == tasks' = Append(tasks, NewRow(r, s, m))

\* Faulty variant: a failed run is not recorded.
SetRunStatus_DoneOnly(r, to) ==
  runs' = IF to # "FAILED" /\ transitionAllowed(runs[r], to)
            THEN [runs EXCEPT ![r] = to] ELSE runs

\* SetRunStatus: an illegal change is an error that the callers only return.
SetRunStatus(r, to) ==
  runs' = IF transitionAllowed(runs[r], to) THEN [runs EXCEPT ![r] = to] ELSE runs

Spend == faults < MaxFaults /\ faults' = faults + 1 /\ UNCHANGED calls

-----------------------------------------------------------------------------
(* Workers: ExecuteOne up to the recorded result                           *)

Claim(w) ==
  /\ At(w, "idle")
  /\ \E i \in Ids :
       /\ Claimable(tasks[i])
       /\ \A j \in 1..(i - 1) : ~Claimable(tasks[j])
       /\ tasks' = [tasks EXCEPT ![i] = ClaimedRow(@, w)]
       /\ Become(w, [Resting EXCEPT !.pc = "running", !.run = tasks[i].run,
                                    !.task = i, !.fence = tasks[i].fence + 1])
  /\ UNCHANGED <<runs, boundary, answers, budget>>

StepOf(h) == Flow[tasks[th[h].task].step]

\* Faulty variant: a ping is not checked against the claim.
Heartbeat_Unowned(w) ==
  /\ At(w, "running")
  /\ tasks' = [tasks EXCEPT ![th[w].task].fresh = TRUE]
  /\ UNCHANGED <<runs, boundary, answers, th, budget>>

Heartbeat(w) ==
  /\ At(w, "running")
  /\ Owns(tasks[th[w].task], th[w].fence)
  /\ tasks' = [tasks EXCEPT ![th[w].task].fresh = TRUE]
  /\ UNCHANGED <<runs, boundary, answers, th, budget>>

\* A fenced Transition; next is where the worker goes if it is accepted.
RecordResult(w, to, next) ==
  LET i == th[w].task IN
  /\ At(w, "running")
  /\ IF MayReport(tasks[i], th[w].fence, to)
       THEN /\ tasks' = [tasks EXCEPT ![i] = MovedRow(@, to)]
            /\ Become(w, next)
       ELSE Rest(w) /\ UNCHANGED tasks
  /\ UNCHANGED <<runs, boundary, answers, budget>>

Report(w, ok) ==
  /\ At(w, "running") /\ StepOf(w).kind = "work"
  /\ RecordResult(w, IF ok THEN "DONE" ELSE "FAILED",
                  [th[w] EXCEPT !.pc = "decide", !.ok = ok, !.fence = 0])

\* Faulty variant: the run is advanced past a parked gate.
Park_Advances(w) ==
  /\ At(w, "running") /\ StepOf(w).kind = "human_gate"
  /\ RecordResult(w, "AWAITING", [th[w] EXCEPT !.pc = "decide", !.ok = TRUE, !.fence = 0])

Park(w) ==
  /\ At(w, "running") /\ StepOf(w).kind = "human_gate"
  /\ RecordResult(w, "AWAITING", Resting)

\* The manifest, step or runner is missing: fail the task, then the run.
FailTask(w) ==
  /\ Infra
  /\ RecordResult(w, "FAILED",
                  [th[w] EXCEPT !.pc = "apply", !.step = 0, !.to = "FAILED", !.fence = 0])

RequeueTransient(w) ==
  LET i == th[w].task IN
  /\ At(w, "running") /\ StepOf(w).kind = "work"
  /\ tasks' = IF MayRequeue(tasks[i], th[w].fence)
                THEN [tasks EXCEPT ![i] = BackedOffRow(@, None)] ELSE tasks
  /\ Rest(w)
  /\ Spend
  /\ UNCHANGED <<runs, boundary, answers>>

-----------------------------------------------------------------------------
(* advance: what the recorded result of th[h].task leads to.  Decide reads  *)
(* the store and chooses; Apply is the one write, in a later transaction.   *)

\* Faulty variant: the end of the flow is not noticed.
NextSteps_PastTheEnd(s) == {s + 1}
\* Faulty variant: any step may be skipped.
NextSteps_SkipAny(s) == {n \in Steps \cup {0} : n # 0 => n > s}

\* The successors of s on the success path; 0 is the end of the flow.  A step
\* with skip_if_empty is skipped or not, as its guard inputs resolve.
NextSteps(s) ==
  {n \in Steps \cup {0} :
     /\ n # 0 => n > s
     /\ \A m \in (s + 1)..(IF n = 0 THEN Len(Flow) ELSE n - 1) : Flow[m].skippable}

\* LastRetryAt: zero when there is no such event.
LastRetryAt(r) == IF boundary[r].kept THEN boundary[r].at ELSE 0

\* Faulty variant: failures before the last retry count.
countFailures_All(r, s) ==
  Cardinality({i \in Ids : /\ tasks[i].run = r /\ tasks[i].step = s
                           /\ tasks[i].status = "FAILED"})

countFailures(r, s) ==
  Cardinality({i \in Ids : /\ tasks[i].run = r /\ tasks[i].step = s
                           /\ tasks[i].status = "FAILED" /\ i > LastRetryAt(r)})

\* Faulty variant: the marker is dropped.
EnqueuePlan_Unmarked(h, s, m) == [th[h] EXCEPT !.pc = "apply", !.step = s, !.mark = "none"]
EnqueuePlan(h, s, m) == [th[h] EXCEPT !.pc = "apply", !.step = s, !.mark = m]
FinishPlan(h, to)    == [th[h] EXCEPT !.pc = "apply", !.step = 0, !.to = to]

AfterSuccess(h, t) ==
  IF t.mark = "rerun_terminal" THEN {FinishPlan(h, "DONE")}
  ELSE {IF n = 0 THEN FinishPlan(h, "DONE")
        ELSE IF t.mark # "rerun" THEN EnqueuePlan(h, n, "none")
        ELSE IF Flow[n].kind = "human_gate" THEN EnqueuePlan(h, n, "rerun_terminal")
        ELSE FinishPlan(h, "DONE") : n \in NextSteps(t.step)}

\* Faulty variant: one loop too many.
AfterFailure_OneMore(h, t) ==
  IF /\ Flow[t.step].goto # 0
     /\ countFailures(t.run, t.step) <= Flow[t.step].max + 1
    THEN {EnqueuePlan(h, Flow[t.step].goto, "none")}
    ELSE {FinishPlan(h, "FAILED")}

\* The goto target is enqueued without the failed task's marker.
AfterFailure(h, t) ==
  IF /\ Flow[t.step].goto # 0
     /\ countFailures(t.run, t.step) <= Flow[t.step].max
    THEN {EnqueuePlan(h, Flow[t.step].goto, "none")}
    ELSE {FinishPlan(h, "FAILED")}

Decide(h) ==
  /\ At(h, "decide")
  /\ \E plan \in (IF th[h].ok THEN AfterSuccess(h, tasks[th[h].task])
                              ELSE AfterFailure(h, tasks[th[h].task])) :
       Become(h, plan)
  /\ UNCHANGED <<store, budget>>

Apply(h) ==
  /\ At(h, "apply")
  /\ IF th[h].step # 0
       THEN Enqueue(th[h].run, th[h].step, th[h].mark) /\ UNCHANGED runs
       ELSE SetRunStatus(th[h].run, th[h].to) /\ UNCHANGED tasks
  /\ Rest(h)
  /\ UNCHANGED <<boundary, answers, budget>>

-----------------------------------------------------------------------------
(* API calls                                                               *)

Call(c, op) ==
  /\ op \in Ops
  /\ At(c, "idle")
  /\ calls < MaxCalls
  /\ calls' = calls + 1
  /\ UNCHANGED faults

\* StartRun: CreateRun, OnSeed and the first task, then RUNNING.
StartCreate(c, r) ==
  /\ Call(c, "start")
  /\ runs[r] = "NONE"
  /\ runs' = [runs EXCEPT ![r] = "QUEUED"]
  /\ Become(c, [Resting EXCEPT !.pc = "start_enqueue", !.run = r])
  /\ UNCHANGED <<tasks, boundary, answers>>

StartEnqueue(c) ==
  /\ At(c, "start_enqueue")
  /\ Enqueue(th[c].run, 1, "none")
  /\ Become(c, [th[c] EXCEPT !.pc = "start_running"])
  /\ UNCHANGED <<runs, boundary, answers, budget>>

\* OnSeed failed: the run stays QUEUED and has no task.
StartSeedFails(c) ==
  /\ At(c, "start_enqueue") /\ Infra
  /\ Rest(c)
  /\ UNCHANGED <<store, budget>>

StartRunning(c) ==
  /\ At(c, "start_running")
  /\ SetRunStatus(th[c].run, "RUNNING")
  /\ Rest(c)
  /\ UNCHANGED <<tasks, boundary, answers, budget>>

\* Faulty variant: the gate need not be AWAITING.
NewestAwaiting_AnyStatus(r, s, i) ==
  /\ tasks[i].run = r /\ tasks[i].step = s
  /\ \A j \in (i + 1)..Len(tasks) : ~(tasks[j].run = r /\ tasks[j].step = s)

\* ResolveAwaiting moves the newest AWAITING task of (r, s).
NewestAwaiting(r, s, i) ==
  /\ tasks[i].run = r /\ tasks[i].step = s /\ tasks[i].status = "AWAITING"
  /\ \A j \in (i + 1)..Len(tasks) :
       ~(tasks[j].run = r /\ tasks[j].step = s /\ tasks[j].status = "AWAITING")

Resolve(c, r, s, ok) ==
  /\ Call(c, IF ok THEN "approve" ELSE "reject")
  /\ \E i \in Ids :
       /\ NewestAwaiting(r, s, i)
       /\ tasks' = [tasks EXCEPT ![i] = MovedRow(@, IF ok THEN "DONE" ELSE "FAILED")]
       /\ Become(c, [Resting EXCEPT !.pc = "decide", !.run = r, !.task = i, !.ok = ok])
  /\ UNCHANGED <<runs, boundary, answers>>

\* Faulty variant: the cap is not read.
AnswerCount_Uncapped(c, r, s) ==
  /\ Call(c, "answer")
  /\ runs[r] # "NONE" /\ Flow[s].goto # 0
  /\ Become(c, [Resting EXCEPT !.pc = "answer", !.run = r, !.step = s])
  /\ UNCHANGED store

\* AnswerStep: the cap is read first, the gate resolved later.
AnswerCount(c, r, s) ==
  /\ Call(c, "answer")
  /\ runs[r] # "NONE" /\ Flow[s].goto # 0
  /\ answers[r][s] < MaxAnswers
  /\ Become(c, [Resting EXCEPT !.pc = "answer", !.run = r, !.step = s])
  /\ UNCHANGED store

\* The answered gate is DONE and its goto target runs again, unmarked.
AnswerAwaiting(c) ==
  LET r == th[c].run  s == th[c].step IN
  /\ At(c, "answer")
  /\ IF \E i \in Ids : NewestAwaiting(r, s, i)
       THEN \E i \in Ids :
              /\ NewestAwaiting(r, s, i)
              /\ tasks' = [tasks EXCEPT ![i] = MovedRow(@, "DONE")]
              /\ answers' = [answers EXCEPT ![r][s] = @ + 1]
              /\ Become(c, [th[c] EXCEPT !.pc = "apply", !.task = i, !.step = Flow[s].goto])
       ELSE Rest(c) /\ UNCHANGED <<tasks, answers>>
  /\ UNCHANGED <<runs, boundary, budget>>

\* CancelRun: list the tasks, cancel those that were live, then the run.
CancelList(c, r) ==
  /\ Call(c, "cancel")
  /\ runs[r] # "NONE"
  /\ Become(c, [Resting EXCEPT !.pc = "cancel", !.run = r,
        !.todo = {i \in Ids : tasks[i].run = r /\ ~IsTerminal(tasks[i].status)}])
  /\ UNCHANGED store

\* A task that ended meanwhile makes the whole call return its error.
CancelTask(c) ==
  /\ At(c, "cancel") /\ th[c].todo # {}
  /\ LET i == Min(th[c].todo) IN
       IF MayCancel(tasks[i])
         THEN /\ tasks' = [tasks EXCEPT ![i] = MovedRow(@, "CANCELLED")]
              /\ Become(c, [th[c] EXCEPT !.todo = @ \ {i}])
         ELSE Rest(c) /\ UNCHANGED tasks
  /\ UNCHANGED <<runs, boundary, answers, budget>>

CancelRun(c) ==
  /\ At(c, "cancel") /\ th[c].todo = {}
  /\ runs' = IF IsTerminal(runs[th[c].run]) THEN runs
             ELSE [runs EXCEPT ![th[c].run] = "CANCELLED"]
  /\ Rest(c)
  /\ UNCHANGED <<tasks, boundary, answers, budget>>

\* Faulty variant: the failed run is not reopened.
RetryRead_NoReopen(c, r) ==
  /\ Call(c, "retry")
  /\ runs[r] \in RetryFrom \ {"NONE", "DONE"}
  /\ Become(c, [Resting EXCEPT !.run = r, !.pc = "retry_pick"])
  /\ UNCHANGED store

\* RetryRun and RerunStep read the run's status first, and reopen it later.
RetryRead(c, r) ==
  /\ Call(c, "retry")
  /\ runs[r] \in RetryFrom \ {"NONE", "DONE"}
  /\ Become(c, [Resting EXCEPT !.run = r,
       !.pc = IF runs[r] \in {"FAILED", "CANCELLED"} THEN "retry_reopen" ELSE "retry_pick"])
  /\ UNCHANGED store

RerunRead(c, r, s) ==
  /\ Call(c, "rerun")
  /\ runs[r] \in RerunFrom \ {"NONE"} /\ s \in RerunAt
  /\ Become(c, [Resting EXCEPT !.run = r, !.step = s, !.mark = "rerun",
       !.pc = IF IsTerminal(runs[r]) THEN "rerun_reopen" ELSE "enqueue"])
  /\ UNCHANGED store

\* The reopening write does not look at the status again.
Reopen(c) ==
  /\ th[c].pc \in {"retry_reopen", "rerun_reopen"}
  /\ runs' = [runs EXCEPT ![th[c].run] = "RUNNING"]
  /\ boundary' = [boundary EXCEPT ![th[c].run] = [at |-> Len(tasks), kept |-> TRUE]]
  /\ Become(c, [th[c] EXCEPT !.pc = IF @ = "retry_reopen" THEN "retry_pick" ELSE "enqueue"])
  /\ UNCHANGED <<tasks, answers, budget>>

\* Faulty variant: only failures after the reopening are looked at.
FailedTasks_Recent(r) ==
  {i \in Ids : tasks[i].run = r /\ tasks[i].status = "FAILED" /\ i > LastRetryAt(r)}

FailedTasks(r) == {i \in Ids : tasks[i].run = r /\ tasks[i].status = "FAILED"}

\* LastFailedTask; a run without one stays as Reopen left it.
RetryPick(c) ==
  LET failed == FailedTasks(th[c].run) IN
  /\ At(c, "retry_pick")
  /\ IF failed = {} THEN Rest(c)
     ELSE Become(c, [th[c] EXCEPT !.pc = "enqueue", !.step = tasks[Max(failed)].step])
  /\ UNCHANGED <<store, budget>>

EnqueueAgain(c) ==
  /\ At(c, "enqueue")
  /\ Enqueue(th[c].run, th[c].step, th[c].mark)
  /\ Rest(c)
  /\ UNCHANGED <<runs, boundary, answers, budget>>

-----------------------------------------------------------------------------
(* Reaper, retention, time and crashes                                      *)

RequeueStale ==
  /\ \E i \in Ids : Stale(tasks[i])
  /\ tasks' = Reaped(tasks, None)
  /\ UNCHANGED <<runs, boundary, answers, th, budget>>

Orphan(i) ==
  /\ i \in Ids
  /\ \A w \in Workers : ~(At(w, "running") /\ th[w].task = i /\ th[w].fence = tasks[i].fence)

\* A live worker missing its heartbeats is a fault; a dead one's simply age.
HeartbeatExpires(i) ==
  /\ tasks[i].status = "RUNNING" /\ tasks[i].fresh
  /\ IF Orphan(i) THEN UNCHANGED budget ELSE Spend
  /\ tasks' = [tasks EXCEPT ![i].fresh = FALSE]
  /\ UNCHANGED <<runs, boundary, answers, th>>

BackoffElapses(i) ==
  /\ ~tasks[i].due
  /\ tasks' = [tasks EXCEPT ![i].due = TRUE]
  /\ UNCHANGED <<runs, boundary, answers, th, budget>>

\* RetentionLoop deletes events by age: answers, and the retry boundary if it
\* is old enough.  The tasks stay.
PruneEvents(r) ==
  /\ Retention
  /\ \E left \in [Steps -> 0..MaxAnswers], kept \in BOOLEAN :
       /\ \A s \in Steps : left[s] <= answers[r][s]
       /\ IF kept THEN boundary[r].kept ELSE boundary[r].at > 0
       /\ answers' = [answers EXCEPT ![r] = left]
       /\ boundary' = [boundary EXCEPT ![r].kept = kept]
  /\ UNCHANGED <<tasks, runs, th, budget>>

Crash(h) ==
  /\ ~At(h, "idle") /\ th[h].pc \in CrashAt
  /\ Rest(h)
  /\ Spend
  /\ UNCHANGED store

-----------------------------------------------------------------------------
WorkerStep(w) ==
  \/ Claim(w) \/ Heartbeat(w) \/ Park(w) \/ FailTask(w) \/ RequeueTransient(w)
  \/ \E ok \in BOOLEAN : Report(w, ok)

CallStep(c) ==
  \/ \E r \in Runs : StartCreate(c, r) \/ CancelList(c, r) \/ RetryRead(c, r)
  \/ \E r \in Runs, s \in Steps :
       \/ \E ok \in BOOLEAN : Resolve(c, r, s, ok)
       \/ AnswerCount(c, r, s) \/ RerunRead(c, r, s)

\* The rest of a call in progress.
CallRest(c) ==
  \/ StartEnqueue(c) \/ StartSeedFails(c) \/ StartRunning(c)
  \/ AnswerAwaiting(c) \/ CancelTask(c) \/ CancelRun(c)
  \/ Reopen(c) \/ RetryPick(c) \/ EnqueueAgain(c)

Advance(h) == Decide(h) \/ Apply(h)

Next ==
  \/ \E w \in Workers : WorkerStep(w)
  \/ \E c \in Clients : CallStep(c) \/ CallRest(c)
  \/ \E h \in Threads : Advance(h) \/ Crash(h)
  \/ RequeueStale
  \/ \E r \in Runs : PruneEvents(r)
  \/ \E i \in Ids : HeartbeatExpires(i) \/ BackoffElapses(i)

Spec == Init /\ [][Next]_vars

\* WorkerLoop and ReaperLoop poll forever, a runner returns within its timeout,
\* an API call that began runs on, and time passes.  Nobody is obliged to call.
Fairness ==
  /\ \A w \in Workers :
       /\ WF_vars(Claim(w))
       /\ WF_vars(Park(w) \/ \E ok \in BOOLEAN : Report(w, ok))
  /\ \A h \in Threads : WF_vars(Advance(h))
  /\ \A c \in Clients : WF_vars(CallRest(c))
  /\ WF_vars(RequeueStale)
  /\ WF_vars(\E i \in Ids : Orphan(i) /\ HeartbeatExpires(i))
  /\ WF_vars(\E i \in Ids : BackoffElapses(i))

-----------------------------------------------------------------------------
(* Properties                                                              *)

Row == [run: Runs, step: Steps, mark: Marks, status: Status, fence: Nat,
        claimedBy: Workers \cup {None}, fresh: BOOLEAN, due: BOOLEAN]

PCs == {"idle", "running", "decide", "apply", "start_enqueue", "start_running",
        "answer", "cancel", "retry_reopen", "retry_pick", "rerun_reopen", "enqueue"}

TypeOK ==
  /\ tasks \in Seq(Row)
  /\ runs \in [Runs -> Status \cup {"NONE"}]
  /\ boundary \in [Runs -> [at: Nat, kept: BOOLEAN]]
  /\ answers \in [Runs -> [Steps -> Nat]]
  /\ th \in [Threads -> [pc: PCs, run: Runs \cup {None}, task: Nat, fence: Nat,
                         ok: BOOLEAN, step: Nat, mark: Marks, to: Status,
                         todo: SUBSET Nat]]
  /\ calls \in Nat /\ faults \in Nat

Live(i) == tasks[i].status \in {"QUEUED", "RUNNING", "AWAITING"}
LiveTasks(r) == {i \in Ids : tasks[i].run = r /\ Live(i)}
Advancing(h) == th[h].pc \in {"decide", "apply"}
Advancers(r) == {h \in Threads : Advancing(h) /\ th[h].run = r}
Serving(r)   == {c \in Clients : ~At(c, "idle") /\ th[c].run = r}

\* ResolveAwaiting and the fence admit one winner: no result is ever advanced by
\* two threads, whoever reports late, approves twice or races a cancel.
AdvanceOnce ==
  \A g, h \in Threads :
    g # h /\ Advancing(g) /\ Advancing(h) => th[g].task # th[h].task

\* docs/ARCHITECTURE.md: "Steps within one run stay serial (step N+1 is enqueued
\* only after N completes)": a run is one live task or one pending advance.
SerialSteps ==
  \A r \in Runs : Cardinality(LiveTasks(r)) + Cardinality(Advancers(r)) <= 1

\* A run that ended DONE or FAILED has nothing queued, running or parked left.
EndedRunIsQuiet ==
  \A r \in Runs : runs[r] \in {"DONE", "FAILED"} => LiveTasks(r) = {}

\* The same of a cancelled run once the call that cancelled it has returned.
CancelledRunIsQuiet ==
  \A r \in Runs :
    runs[r] = "CANCELLED" /\ Serving(r) = {} => LiveTasks(r) = {}

FailuresSince(r, s, b) ==
  Cardinality({i \in Ids : /\ i > b /\ tasks[i].run = r /\ tasks[i].step = s
                           /\ tasks[i].status = "FAILED"})

\* on_fail.max: a step fails at most max + 1 times ("max=2 -> 3 attempts"), and
\* a retry starts a new count.
LoopBudget ==
  \A r \in Runs, s \in Steps :
    Flow[s].goto # 0 => FailuresSince(r, s, boundary[r].at) <= Flow[s].max + 1

\* A run fails only when a step without on_fail failed or one used up its budget
\* since the last retry: old failures never count against a new attempt.
FailedMeansExhausted ==
  \A r \in Runs :
    runs[r] = "FAILED" =>
      \E s \in Steps :
        LET n == FailuresSince(r, s, boundary[r].at) IN
          IF Flow[s].goto = 0 THEN n > 0 ELSE n > Flow[s].max

\* A run is DONE only when every step that cannot be skipped has a DONE task.
DoneMeansAllStepsDone ==
  \A r \in Runs :
    runs[r] = "DONE" =>
      \A s \in Steps : Flow[s].skippable \/
        \E i \in Ids : tasks[i].run = r /\ tasks[i].step = s /\ tasks[i].status = "DONE"

\* Answers loop outside on_fail.max; the cap is read before the gate is resolved,
\* so each call in flight may pass it once.
AnswerCap ==
  \A r \in Runs, s \in Steps :
    answers[r][s] <= MaxAnswers + Cardinality(Clients) - 1

\* engine_control.go, RerunStep: it "does NOT cascade to the downstream steps":
\* what follows a rerun task is at most its own gate, marked as the last one.
RerunStopsAtItsGate ==
  [][\A h \in Threads :
       At(h, "apply") /\ th[h].task # 0 /\ tasks[th[h].task].mark # "none"
         => \A i \in DOMAIN tasks' \ Ids :
              tasks'[i].run = th[h].run => /\ tasks'[i].mark = "rerun_terminal"
                                          /\ Flow[tasks'[i].step].kind = "human_gate"]_vars

\* A running run ends or waits for a human.
RunSettles ==
  \A r \in Runs :
    runs[r] = "RUNNING" ~>
      \/ IsTerminal(runs[r])
      \/ \E i \in Ids : tasks[i].run = r /\ tasks[i].status = "AWAITING"

\* engine.go: advance is to "decide the next task to enqueue, loop back via
\* on_fail, or terminate the run".
AdvanceMovesTheRun ==
  [][\A h \in Threads :
       At(h, "apply") /\ th'[h].pc = "idle" /\ faults' = faults
         => Len(tasks') > Len(tasks) \/ IsTerminal(runs'[th[h].run])]_vars

-----------------------------------------------------------------------------
(* The engine uses the queue of module TaskQueue.                          *)

QueueRows ==
  [i \in Ids |->
     [slot |-> <<tasks[i].run, tasks[i].step>>, status |-> tasks[i].status,
      fence |-> tasks[i].fence, claimedBy |-> tasks[i].claimedBy,
      fresh |-> tasks[i].fresh, due |-> tasks[i].due]]

QueueClaims ==
  [w \in Workers |->
     IF At(w, "running") THEN [task |-> th[w].task, fence |-> th[w].fence]
     ELSE [task |-> 0, fence |-> 0]]

\* Stands for the bounds of TaskQueue's environment, which no run comes near.
QueueBound == 1000

Queue == INSTANCE TaskQueue WITH
  Slots <- Runs \X Steps, MaxTasks <- QueueBound, MaxFence <- QueueBound,
  tasks <- QueueRows, claim <- QueueClaims

\* Every transaction of the engine is one operation of the queue, so what is
\* shown of TaskQueue holds of the engine's tasks.
UsesTheQueue == Queue!Spec
=============================================================================
