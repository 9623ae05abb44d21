# Verification of the Vibeforge engine

TLA+ models, TLC configurations and machine-checked proofs for the control
plane of Vibeforge (`src/engine`): the durable task queue and the workflow
engine on it, the agent step, the factory pause, the ticket store with its
edits, plans and ceremonies, the schedulers that turn stories into runs, the
GitHub conductor and mirror, the event bus, the assistant and the members of a
project, previews, the daily standup, and the upgrade of old databases.
Paths below are relative to `src/engine/internal` unless they say otherwise.

## The system

| Part | State it keeps | Operations | Hard behaviour | What makes it correct |
|---|---|---|---|---|
| Task queue (`store/claim.go`, `types.go`, `store.go`) | rows of `tasks`: status, fence, claimed_by, heartbeat_at, available_at | EnqueueTask, Claim, Heartbeat, Transition, RequeueTransient, RequeueStale, ResolveAwaiting, AnswerAwaiting, OwnsClaim | worker goroutines and processes share one SQLite file; workers die, stall and come back late | one holder per claim; a late worker changes nothing; results are final; queued work is served |
| Runs (`store/control.go`, `store.go`) | rows of `runs` and `events` | CreateRun, SetRunStatus, CancelRun, ReopenRun, LastRetryAt, PruneEvents | operations of several transactions, interleaved with workers | an ended run has no live task; a started run settles |
| Workflow engine (`workflow/engine.go`, `engine_control.go`) | program counters of workers and API handlers | StartRun, ExecuteOne, advance, park, fail, Approve, Reject, Answer, Retry, Rerun | a result is recorded in one transaction and acted on in a later one | steps are serial, a result is advanced once, loops are bounded, DONE means done |
| Factory pause (`workflow/engine_control.go`) | two atomics per process | Pause, Resume, PauseUntil, auto-resume | loads, stores and swaps of several goroutines interleave | the breaker resumes; a pause admits one step; the later limit holds |
| Agent step (`agent/runner.go`, `sandbox/sandbox.go`) | `<workdir>` and `<workdir>.agent` of a run | stage, run, check ownership, SyncBack, clean up | two attempts at one task share both directories | only the owner syncs; undisturbed work is in the tree |
| Ticket store and its edits (`tickets/*.go`, `api/tickets.go`) | sprints, stories, dependencies | claim, mark, requeue; create, link, edit, move, split, cancel, delete; plans; publications | an edit reads with some statements and writes with a later one | no cycle, no lost dependency; started work stays in its sprint |
| Factory scheduler (`orchestrator/native.go`) | none of its own | fire stories or sprints, reconcile runs and merges | a claim, a run and its id are recorded in three requests, each of which may fail | no story is stranded, none is built twice, done means merged |
| Ceremonies (`orchestrator/native.go`, `tickets/*.go`, `method/apply.go`) | stamps and run references of a sprint | plan, review, retrospect: sweep, start, record, approve, stamp | the sweep works from rows it listed; a start's answer may be lost | nothing fires unapproved; one live run per ceremony; the project advances |
| GitHub conductor (`conductor`, `app/app.go`) | counters of missing tasks and stale labels | sync issues, PRs, sessions and labels; dispatch | a pass reads GitHub and the store at different times; webhooks and buttons overlap with the tick | one agent per story; a lost agent frees its story; the issue decides |
| GitHub mirror (`export`, `imports`, `api/costura.go`) | external_ref of a story; a lock per project | export, import, publish | an issue is created by one call and recorded by a later one | one issue per story; success means mirrored |
| GitHub-mode orchestrator (`orchestrator/orchestrator.go`, `state.go`) | a JSON file of fired, completed and failed issues | poll, gate, fire, mark | crash between firing and marking; torn file | dependents wait; an issue is fired once |
| Assistant (`brain`, `api/brain.go`) | actions and the channels a turn waits on | send, propose, approve, deny, time out | answers race the timeout and each other | only approved actions run; a turn ends |
| Members (`projects/members.go`, `invites.go`) | role rows, invites | invite, accept, set, remove | checks in one request, writes later | a role comes from an owner |
| Event bus (`api/bus.go`, `websocket.go`, `channels/delivery.go`) | cursor, subscriptions, pending deliveries | drain, fan out, subscribe, notify | bounded buffers, retention, restarts | streams in order and without silent gaps; a channel is told once |
| Releases (`release/release.go`) | preview directories on disk | clone, build, replace, collect | several releases share the directory without a lock | the disk is bounded; the newest previews stay |
| Standup (`app/app.go`, `digest`, `cron`) | last_digest_at | sleep, gather, deliver, mark | two stores read at different times; marking after delivery may fail | nothing is told twice |
| Upgrade (`store`, `tickets`, `projects`: Open) | the schema | dozens of statements at every start | death between any two | every start ends in the full schema; no row is lost |

API handlers, schedulers, the assistant and the conductor call the engine's and
the ticket store's operations; workers (`app/app.go` StartBackground,
`cmd/worker`) poll the store and run step runners; the bus tails the events the
store appends.  Each store is a SQLite file opened so that a transaction takes
the write lock when it begins, which is why a store operation is one atomic
action in the models, and two statements outside a transaction are two.

## Modules

| Module | Models | Uses |
|---|---|---|
| `TaskStore` | the state machine of a task and what each store operation writes into a row | - |
| `TaskQueue` | the queue: rows, and the claim each worker holds in memory | TaskStore; refines Lease |
| `Lease` | what the queue promises, without fences and heartbeats | - |
| `Engine` | runs, tasks, workers and API calls, one action per transaction | TaskStore; refines TaskQueue |
| `AgentStep` | staging and syncing the run's worktree | TaskQueue |
| `CircuitBreaker` | the two atomics of the factory pause | - |
| `StoryStatus`, `TicketStore` | legal moves of a story; the guarded updates of stories and sprints, readiness | - |
| `Scheduler` | the cycle of the native scheduler, request by request, with the runs and pull requests it watches | TicketStore |
| `Backlog` | edits, plans and publications, each as reads, then writes | StoryStatus |
| `StoryOrder` | the topological order of a sprint's stories, as a function | - |
| `Ceremonies` | planning, review and retrospective of sprints that build on each other | - |
| `Conductor` | a repository's issues, agents and pull requests, passes and dispatches over them | - |
| `Mirror` | exports, imports and publications against one project's stories | - |
| `IssueOrchestrator` | the GitHub-mode loop, its memory and its state file | - |
| `Members` | roles, invites and the requests that change them | - |
| `Assistant` | turns, proposed actions and answers | Members |
| `EventBus` | the event log, its followers, chat channels, retention | - |
| `Releases` | releases of several runs over one directory of previews | - |
| `Standup` | the digest loop beside runs and stories that change | - |
| `Upgrade` | the statements of three Opens, run again at every start | - |
| `TaskQueueProofs`, `EngineProofs`, `SchedulerProofs`, `MirrorProofs`, `AssistantProofs` | theorems about the module they are named for; the first also about AgentStep, the last also about Members | TLAPS |
| `FactoryProofs`, `StoryProofs`, `ServiceProofs` | theorems about CircuitBreaker and Ceremonies; Conductor and Backlog; EventBus, Standup, IssueOrchestrator, Releases and Upgrade | TLAPS |
| `MC*` | model values, instances and initial states for TLC | |

Four configurations (MCCeremonies, MCAssistant, MCMirror, MCEventBus) need no
definitions and are run on the module itself.  A definition `X_Something` next
to `X` is a faulty variant of `X`, a bug that could plausibly be written there;
replacing `X` by it makes a checked property fail, which shows that the
property looks at that code.

**TaskStore, TaskQueue.**  Times are abstracted to what the code compares:
`fresh` (heartbeat_at inside the reaper's window) and `due` (available_at not in
the future).  `tasks` is the table, `claim[w]` the task and fence in worker
`w`'s memory.  A reaped worker keeps its claim and goes on: it may heartbeat,
report, park or requeue at any time.  depends_on and wave are left out because
nothing sets them.  `MaxTasks` and `MaxFence` bound the environment.

**Engine.**  Each worker and API call in progress is a thread `th[h]` with a
program counter.  `Report`, `Park` and `FailTask` are the fenced Transition;
`Decide` is the reading part of `advance`, `Apply` its one write, in a later
transaction.  A call of several transactions is several actions (`StartCreate`,
`StartEnqueue`, `StartRunning`; `CancelList`, `CancelTask`, `CancelRun`; ...).
`Crash(h)` drops a thread wherever `CrashAt` allows it.  `boundary` is the event
LastRetryAt looks for; `PruneEvents` may forget it.  Whether a skip_if_empty
step is skipped depends on payloads, so it is a choice.

**AgentStep.**  `stage[s]` and `worktree[s]` hold the claim whose agent produced
the tree; the order of Go's deferred calls is kept.  `LoseAt` says in which
phases of which run a live worker may be reaped.

**CircuitBreaker.**  One action per atomic load, store or swap, in the order of
WorkerLoop, PauseUntil, Pause and Resume, so several loops of a process, the
breaker and the operators cross as in the code (`cmd/control` starts four loops).
The resume time creditLimit parses from a text is a choice of delay.  Four
history variables say what happened on the way: an operator's order stands
(`ordered`), steps begun under the flag (`since`), a clear took the time of a
PauseUntil it crossed (`lost`), no calls overlapped since a worker met its limit
(`held`).

**TicketStore, Scheduler.**  Each TicketStore operator is one
`UPDATE ... WHERE status IN (...)` over one story or a sprint's.  `sched[k]` is
scheduler `k` in the middle of RunOnce: its pass, the units it listed, as they
were then, and the request being made.  `Visit` takes a unit, `Send` is the
request served; `Lost`, `Unheard`, `Unread`, `Unlisted` and `Crash` are the
failures.  Runs end in any way at any time.  `astray` remembers runs whose id no
scheduler got and those retried after they failed.

**Backlog.**  `calls[e]` is an editor's request: its reads and checks are one
step, its transaction another; `CanWrite` is what the transaction checks again.
A plan validates all its actions, then checks and writes them one by one; a
publication goes story by story and validates the graph at the end.  The
scheduler's `Progress` and people's `Requeue` run in between.  Sprints are
numbers and are compared by the text of their id, as the code does (`TextKey`:
SP10 before SP2).  `reaches`, the search of checkNoCycle, is stated by the least
set that no edge leaves; `MCBacklog` compares it with the paths of a graph.

**Ceremonies.**  `sched` is the scheduler's program counter with the list it
works from; `runs` are the ceremonies' runs; `stamps` and `ref` are the sprint's
columns.  The stamp is the last act of a run and comes from the closing step of
its workflow.

**Conductor.**  `agents` are tasks and workflow runs on GitHub, `issue` the
mirrored issues, `sync` a pass that reads the stories, then GitHub, then tasks,
then writes story by story.  `Faults` names the calls that may fail, and
`MaxEvents` bounds failures and hand edits together.  The thresholds, 8 in the
code, are parameters.  Agents, people and GitHub are external.

**Mirror.**  `ex[e]` is an export in progress with its own copy of the stories
and references, `holder` the project's lock.  An issue's number may be taken by
an import before the export records it.  `orphans` are issues whose number
nobody recorded.  An export that listed a story before it was deleted goes on
with that copy, and with the dependencies it read (`read`): people edit them
meanwhile (`EditDeps`).

**IssueOrchestrator.**  The file and the memory are two variables; `Die(tears)`
may leave a torn file when a write is in progress (os.WriteFile truncates
first), and `Start` fails on one.

**Members, Assistant.**  Every request is a check and a later write; the role a
turn works with is the one its sender had.  An answer first finds the action's
channel and then sends into it.  The answer's role is checked in the project of
the URL or of the chat, its action is looked up in all projects: `Elsewhere` are
the users who are editor of another one.

**EventBus.**  SQLite's writer lock makes sequence numbers visible in their
order; `DrainRead`, `DrainFan`, `DrainHook` are the loop's steps.  A client's
queue holds `Cap` events, more are dropped.

**Releases.**  A preview's age is the time of its last write.  `Calm` restricts
the environment: see the deviations.

**Standup.**  A story carries no time, only its run does.  Times of the clock
are distinct for distinct steps of the loop.

**Upgrade.**  A statement is [op, table, ...] and `Ready` its place in the order
of the three Opens; each commits alone, and a process may die or fail between
any two.  `Init` is any database of an older version, half-upgraded ones are
reached from it.

## Runs

| Run | Instance | Shows |
|---|---|---|
| `MCTaskQueue` | 3 workers, 2 slots, 2 tasks, fence up to 4 | ExclusiveClaim, StaleWorkerIsHarmless, ImplementsLease, QueuedIsServed |
| `MCAgentStep` | 2 workers, 2 runs, fence up to 3 | OnlyTheOwnerSyncs, UndisturbedWorkIsInTheTree |
| `MCEngine` | 2 workers, 2 clients, 1 design run, 4 calls, 1 fault, crashes anywhere | AdvanceOnce, SerialSteps, EndedRunIsQuiet, LoopBudget, UsesTheQueue |
| `MCEngineLive` | 2 workers, 1 client, a review run, 2 calls, 1 fault | DoneMeansAllStepsDone, RunSettles |
| `MCEngineRetry` | 2 workers, 1 client, 3 calls, 1 fault; started or completed run | FailedMeansExhausted, RerunStopsAtItsGate |
| `MCBreaker` | 1 process, 2 worker loops, 2 operators, 3 calls, limits of 1 and 3, clock up to 5 | NoStepInTheWindow, PauseAdmitsOneStep, BreakerResumes |
| `MCScheduler` | 1 scheduler, 2 stories in a chain or a sprint, 3 runs, 2 merge attempts, 2 disturbances of 5 kinds | DoneMeansMerged, DependentsWaitForTheMerge, NoDoubleFire, EndedStoryStays, NobodyIsStranded, ReviewSettles |
| `MCBacklog` | 4 stories, sprints 8, 9 and 10, 2 edits of any kind, plans, publications | NoNewCycle, WaitIsKept, WorkStaysInItsSprint, PlannedMeansApplied; `OrderIsRight` of StoryOrder and `ReachesIsAPath` of Backlog over all graphs on three stories and one outside |
| `MCCeremonies` | 2 sprints, 3 ceremonies, 1 fault, 2 live runs | OneLiveCeremony, NothingFiresUnapproved, ProjectAdvances |
| `MCConductor` | 1 story, 2 agents, both channels, webhooks and button, 1 failure or hand edit, thresholds 2 | OneAgentPerStory, LostAgentIsFreed, IssueDecides |
| `MCAssistant` | 2 people, one an editor elsewhere, 2 requests in flight, 4 in all, 1 turn, 1 action | RolesComeFromTheOwner, OnlyApprovedActionsRun, TurnEnds |
| `MCMirror` | 2 stories, 2 exports, 1 import, 3 issues, 2 failures, edits or deletions | OneIssuePerStory, SuccessMeansMirrored, EveryExportEnds |

Six more configurations are kept beside these; what they check is proved, or is
a deviation:

| Configuration | Shows |
|---|---|
| `MCEventBus` (module EventBus) | StreamInOrder, NothingSkipped, ToldOnce on 2 runs, 1 client, 1 channel |
| `MCIssueOrchestrator` | DependentsWait, FiredOnce on a chain of 2 issues, 3 runs, 2 faults |
| `MCUpgrade` | OpenIsComplete, NeverRefused, NothingIsLost from every older schema with a few rows |
| `MCReleases` | GcKeepsNewest and DiskBound on 2 workers and 3 runs; with Calm = FALSE only DiskBound holds |
| `MCStandup` | ToldOnce on one story and one run |
| `MCStaleStreak` | **violates** OneAgentPerStory: a streak of stale labels that is not reset, below |

Flows in `MCEngine` are shapes from `src/engine/registry/workflows`: a design
phase with its gate and a publishing step, an implement step with a gate that
loops back, and the sprint review with a guarded corrections step.

Why the bounds are enough.  Two workers make a stale worker and its successor, a
third a chain of them; a fence of 4 lets a task be claimed, lost, claimed and
lost again.  Two worker loops give every pair of calls on
the pause's atomics, limits of 1 and 3 the earlier one after the later and the
reverse.  Two clients give every pair of racing calls; four calls start a
run, go round its gate, exceed on_fail.max = 1 and cancel.  Three runs let a
story be requeued and fired again while its first run lives.  Two edits, or one
inside a plan, are what a race needs; sprints 8, 9 and 10 hold both orders of
ids.  Two exports and an import give every overlap of the steps of an issue's
creation.  One fault in the middle of two ceremonies hits each of their calls.
Budgets are part of the guards (`MaxFaults`, `MaxCalls`, `MaxFence`,
`MaxEvents`), so the interesting cases are inside and not at the edge.  Deadlock
is checked where something always polls (MCScheduler, MCCeremonies, MCConductor,
MCAssistant); elsewhere a bounded environment runs out of calls.

`TypeOK` of each module that states one held in these instances; it is left out of the listed
configurations, where TaskQueue's, Engine's, CircuitBreaker's, Scheduler's,
EventBus', Releases' and Standup's are proved (Upgrade, Mirror, Ceremonies,
Members, Assistant and IssueOrchestrator have theirs in the inductive
invariant).  ResultIsFinal, AnswerCap and EndlessIsExplained are stated and may be
added to a configuration; the first and the last are proved.  KeepsTheLater,
AutoResumes, OrderedPauseHolds and EditorsApprove state what a comment promises
and the code does not keep: see the deviations.

**Fairness.**  WorkerLoop and ReaperLoop poll for ever, so Claim and
RequeueStale are weakly fair; a runner returns because every step has a timeout;
the clock advances, so heartbeats expire and backoffs elapse; a call that has
begun runs on.  In `MCEngineLive` workers die only while a step runs: see the
first deviation.  `MCScheduler` assumes only that the scheduler's loop goes on:
runs may never end and people may never merge.  `MCCeremonies` assumes that the
scheduler cycles, a run goes on and its gate is approved in the end, and a
sprint's work is built; `MCConductor` that ticks come and dead agents' traces
disappear as the workflow's `always()` step and GitHub make them; `MCAssistant`
that a turn's stream, its tools and the approval timeout go on; `MCMirror` that
an export's steps go on, which its deadline ensures, and strong fairness of
taking the project's lock, which sync.Mutex's starvation mode hands on.

## Proofs

Each proof follows one scheme: an inductive invariant, shown to hold in Init and
to be kept by each action (a lemma per action, or a step per action), then the
property as a consequence, by PTL.  TLC checked the invariants on the small
instances first.  Forty-eight theorems are listed in `PROJECT.json`.  A
hypothesis of a theorem is an operator named below; each excludes a case in which
the code does something else, and that case is a known deviation.

**TaskQueueProofs**, for all workers, slots and bounds.  ExclusiveClaim is not
inductive: it says nothing of a row whose fence was rotated while its old worker
lives.  `IInv` adds that a worker's fence never exceeds its row's, that no two
claims are equal, and that while the fences are equal the row names that worker
and is RUNNING, or CANCELLED under its feet.  From it: `TypeCorrect`,
`Exclusive`, `StaleIsHarmless`, `ResultFinal`, and `QueueImplementsLease`: a
refused report is GiveUp, a reaper pass is Expire of all its rows at once, and
RequeueTransient after a cancel is Reinstate, the lease's one blemish.

The same module proves both properties of AgentStep for runs that nobody
relaunches (`~Relaunch`).  `AInv`: a run has one row (`OneRowPerRun`); a worker
whose heartbeats arrive keeps its claim until it returns (`KeptClaims`), so that
it is alone in the run's directories and finds there what it left
(`TreesFollow`).  `AcceptedWorkStands` and, unless the reaper comes between the
check of the claim and the sync (`CheckHolds`), `OwnersSyncAlone`.

**EngineProofs**, for any flow, workers, clients, runs, calls and faults.
`StepShapes` reduces the two dozen actions to what they do to a row and to a
thread, so that each invariant is proved over a few shapes.

* `CInv` (types, and the queue's claims in the engine's threads) gives
  `TypeCorrect` and `AdvancedOnce`: two threads that hold the result of one task
  would have held one fence.
* `SInv`: of the live tasks of a run and the threads that are about to give it
  one there is one in all.  `OneStepAtATime` and `EndedIsQuiet` follow under
  `Serial`: nobody retries or reruns, or one client calls at a time and retries
  only FAILED runs and reruns only DONE ones.  Without it ReopenRun lets two
  calls pass.
* `LInv` counts failures of a step since the boundary, with who is about to
  enqueue the next attempt: `LoopsAreBounded`.  `EInv` follows a failure from the
  task to the thread that ends the run: `FailuresExhaust`, without infrastructure
  failures and retention (`~Infra`, `~Retention`), which end a run otherwise or
  forget its boundary.
* `DInv`: a step is enqueued when all before it that cannot be skipped are done.
  `DoneRunsDidEverything` needs loops that go back (`Backwards`), as they do in
  every manifest of the registry, and reruns of DONE runs only.
* `GInv`: the rerun's marker travels from the task to the thread that advances it
  and to the gate.  `RerunsStopAtTheirGate` holds under `Unlooped`: no gate is
  rejected or answered and no rerun step has an on_fail, each of which drops the
  marker.
* `EngineUsesTheQueue`: a row is seen as the queue's (`Item`), a worker that runs
  a step as its claim (`Held`), and each transaction is then one operation of
  TaskQueue or leaves both alone; `CInv` is needed for the worker that reports on
  a row it no longer holds.  What TaskQueueProofs shows of the queue therefore
  holds of the engine's tasks.  The queue bounds how much its environment submits
  and claims, the engine does not: `InBounds` (under a thousand rows, and under a
  thousand claims of a row) is the hypothesis.

**SchedulerProofs**, for all schedulers, stories, runs, dependencies, settings
and faults.  `TypeCorrect`; `EndedStoriesStay` (`StoreKeeps`: done and cancelled
are sources of no update); the others under `OnlyPlainBoards` (no sprint in story
mode).

* `MergedBeforeDone`.  A scheduler decides from copies, so `KInv` speaks of
  those: a run or pull request beside stories in the store, a listing or a
  request covers these stories, and a request `done` is about merged ones.
  Covers and merges only grow, so a copy that was right stays right; this is why
  an old listing is harmless.
* `MergedBeforeDependents`.  `AInv`: what a desk is about to claim or fire had its
  dependencies done when it was listed, and done is for ever.
* `NothingFiresTwice`, for one scheduler (`OneScheduler`).  `OInv`: a story that
  could be fired has no live run but an astray one; a story just claimed has none
  at all; and a listing meets no run younger than itself, because runs are fired
  in the last pass only.  The proof needed one hypothesis TLC's bound had hidden:
  the request that records a run is made twice, and if both are lost the
  scheduler gives the claim back while the run lives (`RecordArrives` excludes
  just this).

**FactoryProofs**, for any processes, worker loops, operators and clock, all of
which cross in every way: no theorem of the pause has a hypothesis.
`PauseIsNearlyPrompt`: a worker that may still begin a step has begun none under
the flag (`Behind`).  `OnlyOrdersAreEndless`: a pause without a resume
time was ordered, or lost its time to a clear that crossed the PauseUntil
(`Explained`); this is why BreakerResumes excepts just these.
`BreakerHoldsTheWindow`: while calls do not overlap one thread at most is inside
one (`OneCall`), and from the limit to its resume time the worker is on its way
to the flag, or the flag is up with a time that is late enough (`Window`), since a
limit met later by another worker does not shorten it.  With an overlap it may:
KeepsTheLater fails.

Of Ceremonies, for any sprints, settings, faults and runs: `OneCeremonyLives` by
`LiveInv`: the rows a sweep still works from name the runs on record
(`RowsFresh`), a run is started only after the row's last one ended (`LastEnded`)
and the one recorded is the last started (`LastStarted`), so a live run is the
one its sprint names (`LiveIsNamed`).
`OnlyApprovedSprintsFire` by `GateInv`: a ready row that says stamped is stamped
(`ReadyStands`), and the queue a cycle still has to sweep holds every sprint
before this one that is not through a ceremony (`GatesSeen`).  `Settings` asks
that a project with retros has reviews: only reviewed sprints are listed for
their retro.  The first form of the property was false: see the late corrections
below.

**AssistantProofs**, for any users, invites, requests, turns and actions.
`MInv`: what a request is about to write, and what an open invite carries, was
asked by an owner (`CallsAsked`, `InvitesAsked`): `RolesAreOrdered`.  `BInv`: an
action belongs to one turn (`OneTurn`), nothing is answered before it is proposed
(`Unproposed`), and the turn takes the first answer from the channel, which is
what the row says too (`FirstAnswer`, `FirstApproved`): `ApprovalComesFirst`.
Who answered is not part of it: EditorsApprove fails.

**StoryProofs**.  Of Conductor, for any stories, units, agents and thresholds, with webhooks,
buttons, hand edits and failing reads: `OneTaskPerStory`, when
agents are Copilot tasks (`TaskSessions`: the executor is copilot and its channel
does not fail over to a label).  An agent is anchored by the session in its
story's row (`Anchored`) or, before that is written, by the dispatch that will
write it (`Marks`, `DispatchSound`); one thing happens at a time until something
overlaps (`OneAtATime`) or a call's answer or URL is lost, so the copy a pass decides from covers every agent
(`PassSees`).  Without the hypothesis the anchor is a label, and the streak of
stale labels below starts a second agent.

Of Backlog, for any edits, plans and publications.  An edit is accepted by one
step and written by a later one.  `BoardInv`: what an editor is about to write is
an edit with its reads (`Pending`), and what the write no longer checks still
holds (`Trusted`): a split has two parts and, when one editor is at work, nobody
waits for a story that is to be deleted, new dependencies close no cycle, and a
split knows what its story waits for and who waits for it.  `WorkKeepsItsSprint`
needs no more: each write that moves a story repeats the check of its status.
The rest is for one editor at a time (`OneEditor`), because only the reads look
at the dependencies: two editors break each of the three.

`WaitsAreKept`.  `NoEditClosesACycle`, when the dependencies at the start belong
to stories (`StartsWhole`): a new edge that closes a cycle would be a path the
check had found; after a split a path is read back as one of the old graph, each
part as the story it is a part of.  `PlansAreApplied`: what remains of a plan is
the rest of its list (`Lined`), and what was written stands whatever the
scheduler does, unless a later action is on the same story (`Kept`).  Plans are
coherent (`CoherentPlans`): none splits a story that it has just made another one
wait for, as those of `MCBacklog`; otherwise the link is moved to the parts.

**MirrorProofs**, for all stories, exports and failures when the bulk export,
which takes no lock, stays out (`"bulk" \notin Callers`): `ExportsTakeTurns`, and
`StoriesHaveOneIssue`: an issue made but not recorded is known to the one export
inside the lock, and what it lists as missing has no reference.
`SuccessIsMirrored` needs no such hypothesis: what an export knows of a story
that is still there is the story's reference (`MirrorInv`): a reference is written
once, and a deleted story comes back only by an import, from the issue its id
names.  So the edges it adds are between the right issues, whoever else exports.

**ServiceProofs.**  EventBus: `StreamIsOrdered`, `StreamIsComplete`,
`ChannelsAreToldOnce`.  The writer lock makes the log grow at its end
(`Committed`, `Covered`), so the tail the bus reads has no hole that is filled
later; a batch is offered in order (`Batch`), so a queue gets what is above all
it got (`Streams`).  Standup (`NoRunIsNoRun`): `StandupTellsOnce`; what was
told lies behind the watermark or is the digest just sent (`ToldBeforeMark`).  IssueOrchestrator (`LoopBounds`:
runs are numbered, 0 is no issue): `OrchestratorWaits`, `OrchestratorFiresOnce`;
memory and file agree with the runs but for the ones a fault is recorded for.

Releases (`ReleaseBounds`: finitely many runs): `DiskStaysBounded` for any
environment, `NewestStay` when `Calm`.  Upgrade (`SomeProject`: the default
project is a project, the blank one is not): `UpgradeIsComplete`,
`UpgradeIsNeverRefused`, `UpgradeLosesNothing`.  The invariant says that each
statement this start ran is still done and that a table without the project in
its key has only columns its rebuild copies; the order of the statements is what
makes that true.

ServiceProofs speaks of several components; each but the event bus is brought in
by INSTANCE, and its properties are cited with that name (`Digest!`, `Loop!`,
`Rel!`, `Up!`).

Only model-checked: everything under fairness (QueuedIsServed, RunSettles,
BreakerResumes, NobodyIsStranded, ReviewSettles, ProjectAdvances,
LostAgentIsFreed, IssueDecides, TurnEnds, EveryExportEnds), which needs ENABLED,
and StoryOrder, which is recursive.  Every other property of a run has a theorem.

## Known deviations

The models reproduce the following; where a property and a change of a
configuration show it, the line names them.

Queue, engine, agent step, pause:

* RequeueTransient looks at the fence only, so a task cancelled while its step
  hits a provider limit goes CANCELLED -> QUEUED (`store/claim.go:369` against
  `store/types.go:17-18`): OnlyLegalTransitions.
* A process that dies between recording a result and advancing leaves the run
  RUNNING with no task, and nothing looks for such runs at startup
  (`workflow/engine.go:341-349`): RunSettles with `CrashAt <- AllPCs`.
* StartRun enqueues the first task before the run is RUNNING
  (`workflow/engine.go:103-107`); a worker that ends it first asks for an
  illegal QUEUED -> FAILED: AdvanceMovesTheRun under Spec, Ops = {"start"}.
* CancelRun lists tasks before it cancels them (`store/control.go:15`); a step
  advanced in between leaves a live task: CancelledRunIsQuiet, SpecStarted,
  Ops = {"cancel"}.
* Rejecting or answering a rerun's gate loses the rerun's marker, and what
  follows runs again (`workflow/engine.go:407` against
  `engine_control.go:83-84`): RerunStopsAtItsGate with "reject" in Ops.
* RetryRun of a cancelled run without a failed task leaves it RUNNING with
  nothing to do (`workflow/engine_control.go:64`).  RerunStep of a RUNNING run
  starts a second live step (`store/control.go:99` against `app/app.go:627`):
  SerialSteps with RerunFrom = {"RUNNING"}.
* PruneEvents forgets the retry boundary (`store/retention.go:8`), and old
  failures count again: FailedMeansExhausted with Retention = TRUE.
* A reaped worker and its successor share the staging directory, and SyncBack's
  error is ignored (`agent/runner.go:138` against 130-131): an accepted step's
  edits may be missing: AcceptedWorkIsInTheTree.  A worker reaped between the
  ownership check and SyncBack overwrites the new owner's tree:
  OnlyTheOwnerSyncs with "owner" in LoseAt.
* The two atomics of the pause are written one by one.  A pause ordered in a
  credit window is lifted with it (`workflow/engine_control.go:287-291` against
  `engine.go:30-31`): OrderedPauseHolds.  Auto-resume swaps the flag and then
  clears the time (290-291), as Resume does (209); a PauseUntil in between leaves
  a pause that never ends ("then auto-resumes", 217): AutoResumes.  Of two
  PauseUntil that overlap the earlier time may stay ("keeps the LATER resume
  time", 218): KeepsTheLater.  Each fails when it is put into `MCBreaker.cfg`.
  The pause is a flag of one process; `cmd/worker` goes on.

Scheduler:

* The B4 reset takes another scheduler's claim for a stranded one
  (`orchestrator/native.go:1601`), and both fire: NoDoubleFire with
  Schedulers <- TwoSchedulers, Limit <- Quiet.
* In story mode the merge of one story's pull request marks every story of its
  sprint done (`native.go:1330` against `tickets/tickets.go:2463`):
  DoneMeansMerged with Boards <- PlannedBoards.
* reconcileRevivedRuns asks for failed -> running, which the store refuses
  (`tickets/tickets.go:93`): a retried run's pull request is watched by nobody.
* A DONE run whose result and URL cannot be read parks the story with an empty
  pull request (`native.go:1495-1497`), which reconcileOne skips.
* A sprint of which one story was cancelled or requeued alone is never ready
  again in sprint mode (`tickets/tickets.go:2304`).
* An automatic merge counts as exhausted between the last attempt and the write,
  so a pull request merged by hand just then belongs to a failed story.

Backlog and ceremonies:

* Sprint ids are ordered as text: SP10 comes before SP2 (`tickets.go` listSprints).
* Two editors may close a cycle, and a deletion may lose an edge added meanwhile:
  NoNewCycle and WaitIsKept with Editors <- TwoEditors.  A split beside a
  dependency named before its story exists makes one too
  (`tickets.go:1708-1710`): SplitKeepsAcyclic with Requests <- NamedEarly, five
  ids and three requests.
* A plan that makes a story wait for another and then splits that one is stamped
  as planned with the link on the parts.
* An edit of dependencies only is accepted for a story that raced into running.
* ApplyPlan may stop half-way; its run fails, and the same plan cannot be
  approved again because what it did is no longer valid.  A plan that moves a
  story to the loose pool and then defers it invents sprint "-2".
* Cancelling a story leaves its dependents waiting for ever.  A story moved or
  created into a started sprint is never fired in sprint mode.
* A failed list of sprints that await review yields no holds, and the next sprint
  is fired unreviewed; a failed read of the settings means "auto"
  (`native.go:1048-1055`, 858-891).  NothingFiresUnapproved leaves such cycles
  out (`sched.blind`).
* ensureSprintReview decides from a row that was listed before a review was
  stamped, so a duplicate review may publish its corrections late, into a sprint
  already at work (`native.go:1131-1134`, 1877-1878 call a duplicate harmless).
* A sprint that such a correction reaches after its work was done is not done any
  more, so it is not listed for its review, while readiness looks at the
  dependencies only: later sprints fire past its review.  It takes three sprints
  and two faults, more than `MCCeremonies` has; the proof found it, and
  NothingFiresUnapproved excepts the sprints in `late`.

Conductor and mirror:

* The streak of stale-label passes is kept when the label disappears for a while
  (`conductor/projection.go:611` against 179-180): a fresh agent's label may count
  as stale and a second agent is started: `MCStaleStreak.cfg`.
* A webhook's pass may put a story just dispatched back to backlog from its older
  snapshot, or remove a fresh label; button and tick may dispatch the same story;
  passes started by webhooks advance counters meant for ticks.  OneAgentPerStory
  speaks of the agents outside these overlaps (`overlap`).
* A lost answer of one channel makes the fallback start a second agent; a Copilot
  task without a URL never anchors its session; a failed label removal, or a
  changed channel, frees a live agent; a Copilot task that completed without a
  pull request keeps its story running until it is purged.
* Sprint mode ignores dependencies on stories that do not exist;
  MaxConcurrency does not count agents of stories in review.
* The bulk export takes no lock and duplicates issues (`api/exports.go:50`
  against `costura.go:23-28`): OneIssuePerStory with Callers = {"bulk"}.  An
  import between create and record takes the issue; a lost answer of the
  creation duplicates it on the next export.  A dependency edited during an export
  reaches GitHub with the next one.
* The export's ten minutes run while it waits for the lock.  A story with its own
  repository drags the project's unexported stories there.  Dependencies removed
  here stay on GitHub.  A crash loses the hook's export.  An id deleted and
  created again may get the old story's issue.
* GitHub mode: a crash, a failed or torn write or a lost answer between FireRun
  and MarkFired fires twice (`orchestrator.go:278` against `state.go:22-23`); a
  torn file keeps it from starting; failed runs are never retried.

People, events, disk:

* Inviting the owner's own e-mail demotes the owner (`api/members.go:91` lacks
  the guard of 136).  An invite accepted twice re-admits a removed member.
* An editor of any project answers the actions of all: the role is checked in the
  project of the URL (`api/brain.go:78-87`) or of the chat (`api/telegram.go:179-195`),
  the action's project is not (`brain/brain.go:170-186`).  A viewer may so approve
  what `api/brain.go:82-83` reserves to editors: EditorsApprove in
  `MCAssistant.cfg`; it holds with Elsewhere = {}.
* A second answer to an action may block its request for ever, or report success
  and be dropped (`brain/brain.go:184`); the role captured at Send outlives the
  membership; an action stays "pending" after a restart, and SetActionStatus'
  errors are ignored.  ConversationFor may create two conversations.
* Events appended between a restart and Bus.Run are never announced; a failing
  MaxSeq replays history to the channels; a crash loses pending announcements;
  sends to a channel may arrive out of order.
* An edge without its story makes migrateToCompositePK insert NULL, and every
  start fails (`tickets/tickets.go:558`); Upgrade's Init has no such edge.
* With a retried or slow copy, gc's stale listing may delete the newest preview:
  GcKeepsNewest with Calm = FALSE.  A failed copy returns before gc, so the disk
  is cleaned by the next release only.  gitClone returns its output before the
  command ran (`release/release.go:374`), so it is always empty.
* A story whose run ended between the digest's two reads, or between gathering
  and marking, is never told; a crash, a lost answer or a failed mark tells it
  twice.  Stories without a run appear in the first digest only.

## Not modelled

Payloads, templates and step outputs (only what decides control is kept), agent
backends and containers, prompts, rendering, wording and HTTP routing.  Settings
are parameters of the modules that read them; PutSettings reads and writes
without a transaction.  Billing has a live entitlement check (which fails open)
and a feature counter; its other operations have no callers.  Passwords and
sessions are single statements but for one race: a login that overlaps
ChangePassword keeps its session.  Telemetry and metrics aggregate events and
decide nothing.  Serving of previews, the Firebase command, the parsing of cron
expressions, epics, issue grooming and labels on GitHub, the captured file graph,
scaffolds and the module map are left out.  A failing database statement in the
middle of an operation is modelled as a crash of its caller unless an action
names it.  A workdir pruned while its run is rerun is not a state of any module.
The console and the commands decide which calls are made.

## Plan

1. *(done)* TaskStore, TaskQueue, Lease; proofs and refinement.
2. *(done)* Engine over the queue; AgentStep; CircuitBreaker.
3. *(done)* TicketStore and Scheduler; Backlog, StoryOrder and Ceremonies.
4. *(done)* Conductor, Mirror, IssueOrchestrator; Members and Assistant.
5. *(done)* EventBus, Upgrade, Releases, Standup, each with its proof.
6. *(done)* Proofs of AgentStep, Engine (its refinement of the queue included), Scheduler,
   CircuitBreaker, Ceremonies, Conductor, Backlog, Mirror, Members and Assistant.
7. *(left)* Backlog and Scheduler composed, so that plans and moves meet a
   scheduler that holds a listing.
