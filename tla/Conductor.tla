------------------------------ MODULE Conductor ------------------------------
(****************************************************************************)
(* The GitHub conductor (conductor/projection.go, conductor/dispatch.go and *)
(* the tick of app.go): it mirrors the issues, pull requests and agents of  *)
(* one repository into the stories of one project, frees the stories whose  *)
(* agent is dead and, in auto mode, hands the ready ones to a new agent.    *)
(*                                                                          *)
(* GitHub, its agents and the people who merge and close are the            *)
(* environment; the store and the conductor are modelled step by step: a    *)
(* pass reads the stories, then GitHub, then writes story by story, while   *)
(* agents, people, webhooks and other dispatches go on.                     *)
(****************************************************************************)
EXTENDS Integers, FiniteSets, Sequences, FiniteSetsExt

CONSTANTS
    Stories,                \* story ids, 1..n: the order of ids is the order of work
    Deps,                   \* Deps[s]: the stories s depends on
    Units,                  \* what one dispatch hands over: {{1},{2}} or a whole sprint
    Executor,               \* the channel of the project's policy
    MaxConcurrency,         \* stories with an agent at a time; 0 = no limit
    notFoundDeathThreshold, \* passes that find no task before it counts as dead (8)
    staleLabelThreshold,    \* passes with a label and no run before it counts as stale (8)
    MaterialiseTicks,       \* ticks GitHub may need before it lists a dispatched run
    Webhooks,               \* TRUE: deliveries start passes between two ticks
    Buttons,                \* TRUE: the console's button dispatches too
    Faults,                 \* which calls may fail: see FaultKinds
    MaxEvents,              \* bound: failed calls, hand edits, buttons and deliveries
    MaxAgents               \* bound: agents started in a behaviour

Channels == {"copilot", "claude_action"}
FaultKinds == {"read", "channel", "label", "noURL", "lostAnswer"}

ASSUME ConductorAssumption ==
    /\ IsFiniteSet(Stories) /\ Stories = 1 .. Cardinality(Stories)
    /\ Deps \in [Stories -> SUBSET Stories]
    /\ Units \subseteq SUBSET Stories
    /\ Executor \in Channels
    /\ Faults \subseteq FaultKinds
    /\ {notFoundDeathThreshold, staleLabelThreshold, MaxAgents} \subseteq Nat \ {0}
    /\ {MaxConcurrency, MaterialiseTicks, MaxEvents} \subseteq Nat

Agents     == 1 .. MaxAgents
Dispatchers == IF Buttons THEN {"loop", "button"} ELSE {"loop"}

\* A session URL names a Copilot task, or a page without a task id.
NoSession == 0
RunsPage  == MaxAgents + 1

VARIABLES
    story,     \* [Stories -> [status, pr, lost, session]]: the rows of the store
    issue,     \* [Stories -> [open, label, assigned]]: the mirrored issues
    agents,    \* agents ever started: [kind, state, work, pr, age]
    notFound,  \* [Agents -> Nat]: 404s in a row for the agent's task
    staleLabel,\* [Stories -> Nat]: passes that saw a label without a run
    sync,      \* the pass in flight: one per repository
    tick,      \* the loop: [pc, cands]
    disp,      \* [Dispatchers -> [pc, unit, session, left]]
    events,
    overlap    \* history: a pass met a dispatch or a run not listed yet, or GitHub
               \* did not say what a call had started

github == <<issue, agents>>
counters == <<notFound, staleLabel>>
vars == <<story, issue, agents, notFound, staleLabel, sync, tick, disp, events, overlap>>

Idle     == [pc |-> "idle"]
IdleDisp == [pc |-> "idle", unit |-> {}, session |-> NoSession, left |-> {}]

Init ==
    /\ story = [s \in Stories |-> [status |-> "backlog", pr |-> 0, lost |-> FALSE,
                                   session |-> NoSession]]
    /\ issue = [s \in Stories |-> [open |-> TRUE, label |-> FALSE, assigned |-> FALSE]]
    /\ agents = <<>>
    /\ notFound = [k \in Agents |-> 0]
    /\ staleLabel = [s \in Stories |-> 0]
    /\ sync = Idle
    /\ tick = [pc |-> "idle", cands |-> {}]
    /\ disp = [d \in Dispatchers |-> IdleDisp]
    /\ events = 0
    /\ overlap = FALSE

Event == events < MaxEvents /\ events' = events + 1
Fails(kind) == kind \in Faults /\ Event

Live(k) == agents[k].state \in {"starting", "working"}
AgentsOf(s) == {k \in DOMAIN agents : s \in agents[k].work}
OpenPRs(s) == {k \in AgentsOf(s) : agents[k].pr \in {"draft", "ready"}}

-----------------------------------------------------------------------------
(* The store's operations. *)

\* Faulty variant: the kernel's table of moves applies, done only after review.
SyncExternalStatus_Legal(row, status, pr) ==
    IF status = "done" /\ row.status # "in_review" THEN row
    ELSE [row EXCEPT !.status = status, !.pr = IF pr # 0 THEN pr ELSE @]

\* SyncExternalStatus: no table of legal moves; the pull request goes with the
\* return to the backlog, and so does the session if the status changed.
SyncExternalStatus(row, status, pr) ==
    [row EXCEPT !.status = status,
                !.pr = IF pr # 0 THEN pr ELSE IF status = "backlog" THEN 0 ELSE @,
                !.session = IF status = "backlog" /\ row.status # "backlog"
                            THEN NoSession ELSE @]

\* Faulty variant: the session is not stored.
SetStorySession_Unstored(row, url) == [row EXCEPT !.lost = FALSE]

SetStorySession(row, url) == [row EXCEPT !.session = url, !.lost = FALSE]

-----------------------------------------------------------------------------
(* The projection: SyncProject. *)

\* A pass reads the stories; a trigger that finds a pass in flight does nothing.
SyncBegins ==
    sync' = [pc |-> "read", rows |-> story]

Dispatching == \E d \in Dispatchers : disp[d].pc # "idle"
Unlisted == \E k \in DOMAIN agents :
               agents[k].kind = "claude_action" /\ agents[k].state = "starting"

\* The tick starts a pass. When a pass is in flight its own result says nothing
\* is mirrored, and the loop leaves the project to the next tick.
TickStarts ==
    /\ tick.pc = "idle"
    /\ \A k \in DOMAIN agents :
           agents[k].kind = "claude_action" /\ agents[k].state = "starting"
               => agents[k].age < MaterialiseTicks
    /\ agents' = [k \in DOMAIN agents |->
                     IF agents[k].state = "starting" /\ agents[k].age < MaterialiseTicks
                     THEN [agents[k] EXCEPT !.age = @ + 1] ELSE agents[k]]
    /\ IF sync.pc = "idle"
       THEN SyncBegins /\ tick' = [tick EXCEPT !.pc = "sync"]
       ELSE UNCHANGED <<sync, tick>>
    /\ overlap' = (overlap \/ Dispatching)
    /\ UNCHANGED <<story, issue, counters, disp, events>>

WebhookStarts ==
    /\ Webhooks /\ sync.pc = "idle"
    /\ Event
    /\ SyncBegins
    /\ overlap' = (overlap \/ Dispatching \/ Unlisted)
    /\ UNCHANGED <<story, github, counters, tick, disp>>

\* The open pull request that closes an issue: the first one out of draft, else
\* the last draft, in a list whose newest comes first.
PRFor(s) ==
    LET ready == {k \in OpenPRs(s) : agents[k].pr = "ready"}
    IN  IF ready # {} THEN Max(ready) ELSE IF OpenPRs(s) # {} THEN Min(OpenPRs(s)) ELSE 0

\* The issues and the open pull requests. An error ends the pass, and the tick.
SyncReadsGitHub ==
    /\ sync.pc = "read"
    /\ \/ /\ sync' = [pc |-> "sweep", rows |-> sync.rows, issues |-> issue,
                      prs |-> [s \in Stories |->
                                 [agent |-> PRFor(s),
                                  draft |-> PRFor(s) # 0 /\ agents[PRFor(s)].pr = "draft"]]]
          /\ UNCHANGED <<tick, events>>
       \/ /\ Fails("read")
          /\ sync' = Idle
          /\ tick' = IF tick.pc = "sync" THEN [tick EXCEPT !.pc = "idle"] ELSE tick
    /\ UNCHANGED <<story, github, counters, disp, overlap>>

\* The task behind a session, if the session names one.
isTaskSession(url) == url \in Agents

\* Faulty variant: a task that is not found says nothing.
TaskReadDead_Purged(k, n) == agents[k].state = "failed"

TaskReadDead(k, n) == \/ agents[k].state = "failed"
                      \/ agents[k].state = "purged" /\ n >= notFoundDeathThreshold

\* The sweep reads every task a session names. A purged task is dead when it was
\* not found often enough in a row; any other error says nothing and ends the row.
\* Stories whose pull request merged without closing their issue close it here.
SyncSweeps ==
    /\ sync.pc = "sweep"
    /\ LET sessions == [s \in Stories |-> story[s].session]
           polled == {sessions[s] : s \in Stories} \cap Agents
           streak(read) == [k \in Agents |->
                              IF k \notin polled THEN notFound[k]
                              ELSE IF k \notin read \/ agents[k].state # "purged" THEN 0
                              ELSE IF notFound[k] < notFoundDeathThreshold
                                   THEN notFound[k] + 1 ELSE notFound[k]]
           toClose == {s \in Stories :
                         /\ sync.issues[s].open /\ sync.prs[s].agent = 0
                         /\ sync.rows[s].pr # 0 /\ agents[sync.rows[s].pr].pr = "merged"}
           listed == \E k \in DOMAIN agents :
                        agents[k].kind = "claude_action" /\ agents[k].state = "working"
           next(read, live) ==
               /\ notFound' = streak(read)
               /\ sync' = [pc |-> "write", rows |-> sync.rows, prs |-> sync.prs,
                           issues |-> [s \in Stories |->
                               IF s \in toClose THEN [sync.issues[s] EXCEPT !.open = FALSE]
                                                ELSE sync.issues[s]],
                           sessions |-> sessions, live |-> live, left |-> Stories,
                           dead |-> {s \in Stories :
                               /\ sessions[s] \in read
                               /\ TaskReadDead(sessions[s], streak(read)[sessions[s]])}]
               /\ issue' = [s \in Stories |-> IF s \in toClose
                                              THEN [issue[s] EXCEPT !.open = FALSE] ELSE issue[s]]
       IN  \/ next(polled, listed) /\ UNCHANGED events
           \/ Fails("read") /\ \/ next({}, listed)
                               \/ next(polled, TRUE)  \* unreadable runs: assumed live
    /\ UNCHANGED <<story, agents, staleLabel, tick, disp, overlap>>

\* What a label without any other sign of life says: "running", or a stale label
\* after staleLabelThreshold passes without a live run.
LabelAnchor(s) ==
    IF sync.rows[s].lost THEN "ghost"
    ELSE IF sync.live THEN "alive"
    ELSE IF staleLabel[s] + 1 < staleLabelThreshold THEN "suspect"
    ELSE "stale"

\* The derivation of one story, and its write.
SyncWrites(s) ==
    /\ sync.pc = "write" /\ s \in sync.left
    /\ LET iss == sync.issues[s]
           pr == sync.prs[s]
           bare == iss.open /\ pr.agent = 0 /\ ~iss.assigned
           anchor == IF bare /\ iss.label THEN LabelAnchor(s) ELSE "none"
           asked == bare /\ anchor \notin {"alive", "suspect"} /\ isTaskSession(sync.sessions[s])
           target == CASE ~iss.open -> "done"
                       [] iss.open /\ pr.agent # 0 -> IF pr.draft THEN "running" ELSE "in_review"
                       [] iss.open /\ pr.agent = 0 /\ iss.assigned -> "running"
                       [] bare -> IF \/ anchor \in {"alive", "suspect"}
                                     \/ asked /\ s \notin sync.dead
                                  THEN "running" ELSE "backlog"
           freed == [story[s] EXCEPT !.lost = TRUE, !.session = NoSession]
           lostTask == [story[s] EXCEPT !.lost = TRUE]
           row == IF anchor = "stale" THEN freed
                  ELSE IF asked /\ s \in sync.dead /\ sync.rows[s].status = "running"
                          /\ ~sync.rows[s].lost
                       THEN lostTask ELSE story[s]
       IN  /\ story' = [story EXCEPT ![s] =
                           SyncExternalStatus(row, target, IF iss.open THEN pr.agent ELSE 0)]
           /\ staleLabel' = [staleLabel EXCEPT ![s] =
                               CASE anchor \in {"alive", "stale"} -> 0
                                 [] anchor = "suspect" -> @ + 1
                                 [] OTHER -> @]
           /\ issue' = [issue EXCEPT ![s].label = IF anchor \in {"ghost", "stale"}
                                                  THEN FALSE ELSE @]
    /\ sync' = [sync EXCEPT !.left = @ \ {s}]
    /\ UNCHANGED <<agents, notFound, tick, disp, events, overlap>>

\* Sessions of dead tasks are dropped, whatever they name by now.
SyncEnds ==
    /\ sync.pc = "write" /\ sync.left = {}
    /\ story' = [s \in Stories |-> IF s \in sync.dead
                                   THEN [story[s] EXCEPT !.session = NoSession] ELSE story[s]]
    /\ sync' = Idle
    /\ tick' = IF tick.pc = "sync" THEN [tick EXCEPT !.pc = "merge"] ELSE tick
    /\ UNCHANGED <<github, counters, disp, events, overlap>>

\* merge_mode=auto merges the clean pull requests of the stories in review; which
\* ones are clean, and whether the merge closes the issues, is GitHub's to say.
Merged(K, closing) ==
    /\ agents' = [k \in DOMAIN agents |-> IF k \in K THEN [agents[k] EXCEPT !.pr = "merged"]
                                                     ELSE agents[k]]
    /\ issue' = [s \in Stories |-> IF \E k \in K \cap closing : s \in agents[k].work
                                   THEN [issue[s] EXCEPT !.open = FALSE] ELSE issue[s]]

-----------------------------------------------------------------------------
(* Dispatch: Candidates, Dispatch, fireChannel. *)

Running == {s \in Stories : story[s].status = "running"}

\* A unit is ready when the cap has room and its members say so: one story in the
\* backlog with every dependency done; or a sprint with work left, none of it in
\* flight, and every dependency on another sprint done.
UnitReady(u) ==
    /\ MaxConcurrency > 0 => Cardinality(Running) < MaxConcurrency
    /\ \E s \in u : story[s].status = "backlog"
    /\ \A s \in u : story[s].status \notin {"running", "in_review"}
    /\ \A s \in u : \A dep \in Deps[s] \ u : story[dep].status = "done"

Candidates == {u \in Units : UnitReady(u)}

otherExecutor(e) == CHOOSE c \in Channels : c # e

\* Dispatch checks the unit again; the minutes that grooming takes follow.
DispatchBegins(d, u) ==
    /\ disp[d].pc = "idle" /\ Len(agents) < MaxAgents
    /\ UnitReady(u)
    /\ overlap' = (overlap \/ sync.pc # "idle" \/ Dispatching)
    /\ disp' = [disp EXCEPT ![d] = [pc |-> "fire", session |-> NoSession, left |-> {},
                                    unit |-> {s \in u : story[s].status = "backlog"}]]

\* The tick takes the candidates one by one, each checked again.
TickMerges ==
    /\ tick.pc = "merge"
    /\ \E K \in SUBSET {k \in DOMAIN agents : agents[k].pr = "ready"
                          /\ \E s \in Stories : story[s].status = "in_review" /\ story[s].pr = k},
          closing \in SUBSET DOMAIN agents :
            closing \subseteq K /\ Merged(K, closing)
    /\ tick' = [pc |-> "dispatch", cands |-> Candidates]
    /\ UNCHANGED <<story, counters, sync, disp, events, overlap>>

TickDispatches ==
    /\ tick.pc = "dispatch" /\ disp["loop"].pc = "idle"
    /\ LET u == CHOOSE v \in tick.cands : \A w \in tick.cands : Min(v) <= Min(w)
       IN  IF tick.cands = {}
           THEN tick' = [tick EXCEPT !.pc = "idle"] /\ UNCHANGED <<disp, overlap>>
           ELSE /\ tick' = [tick EXCEPT !.cands = @ \ {u}]
                /\ IF UnitReady(u) /\ Len(agents) < MaxAgents
                   THEN DispatchBegins("loop", u) ELSE UNCHANGED <<disp, overlap>>
    /\ UNCHANGED <<story, github, counters, sync, events>>

ButtonDispatches ==
    /\ "button" \in Dispatchers
    /\ Event
    /\ \E u \in Units : DispatchBegins("button", u)
    /\ UNCHANGED <<story, github, counters, sync, tick>>

NewAgent(kind, work) ==
    [kind |-> kind, state |-> "starting", work |-> work, pr |-> "none", age |-> 0]

\* The channel is fired; on an error the other one is; both may fail. A call whose
\* answer was lost did start its agent.
Fired(d, kinds, url) ==
    /\ Len(agents) + Len(kinds) <= MaxAgents
    /\ agents' = agents \o [i \in DOMAIN kinds |-> NewAgent(kinds[i], disp[d].unit)]
    /\ disp' = [disp EXCEPT ![d].session = url, ![d].left = disp[d].unit, ![d].pc =
                   IF kinds[Len(kinds)] = "claude_action" THEN "label" ELSE "mark"]

SessionOf(kind, k) == IF kind = "copilot" THEN k ELSE RunsPage

DispatchFires(d) ==
    /\ disp[d].pc = "fire"
    /\ LET n == Len(agents)
           alt == otherExecutor(Executor)
       IN  \/ /\ Fired(d, <<Executor>>, SessionOf(Executor, n + 1))
              /\ UNCHANGED <<events, overlap>>
           \/ /\ Fails("channel") /\ Fired(d, <<alt>>, SessionOf(alt, n + 1))
              /\ UNCHANGED overlap
           \/ /\ Fails("lostAnswer") /\ Fired(d, <<Executor, alt>>, SessionOf(alt, n + 2))
              /\ overlap' = TRUE
           \/ /\ Executor = "copilot" /\ Fails("noURL") /\ Fired(d, <<Executor>>, RunsPage)
              /\ overlap' = TRUE
           \/ /\ \/ Fails("channel")
                 \/ Len(agents) = MaxAgents /\ UNCHANGED events
              /\ UNCHANGED overlap
              /\ disp' = [disp EXCEPT ![d] = IdleDisp] /\ UNCHANGED agents
    /\ UNCHANGED <<story, issue, counters, sync, tick>>

\* The claude_action channel marks the issues at once, best-effort: some of the
\* calls may fail.
DispatchLabels(d) ==
    /\ disp[d].pc = "label"
    /\ \E marked \in SUBSET disp[d].unit :
           /\ issue' = [s \in Stories |-> IF s \in marked THEN [issue[s] EXCEPT !.label = TRUE]
                                                         ELSE issue[s]]
           /\ IF marked = disp[d].unit THEN UNCHANGED events ELSE Fails("label")
    /\ disp' = [disp EXCEPT ![d].pc = "mark"]
    /\ UNCHANGED <<story, agents, counters, sync, tick, overlap>>

\* Then the stories, one by one: the status, and in a statement of its own the
\* session, which also takes the mark of a lost agent away.
DispatchMarks(d) ==
    /\ disp[d].pc = "mark" /\ disp[d].left # {}
    /\ LET s == Min(disp[d].left)
       IN  story' = [story EXCEPT ![s] = SyncExternalStatus(@, "running", 0)]
    /\ disp' = [disp EXCEPT ![d].pc = "session"]
    /\ UNCHANGED <<github, counters, sync, tick, events, overlap>>

DispatchRecords(d) ==
    /\ disp[d].pc = "session"
    /\ LET s == Min(disp[d].left)
       IN  /\ story' = [story EXCEPT ![s] = SetStorySession(@, disp[d].session)]
           /\ disp' = [disp EXCEPT ![d] =
                          IF disp[d].left = {s} THEN IdleDisp
                          ELSE [disp[d] EXCEPT !.pc = "mark", !.left = disp[d].left \ {s}]]
    /\ UNCHANGED <<github, counters, sync, tick, events, overlap>>

-----------------------------------------------------------------------------
(* GitHub: the agents and the people. *)

WorldOnly == UNCHANGED <<story, counters, sync, tick, disp, overlap>>

SetState(k, state) == agents' = [agents EXCEPT ![k].state = state]
SetLabel(k, value) ==
    issue' = [s \in Stories |-> IF agents[k].kind = "claude_action" /\ s \in agents[k].work
                                THEN [issue[s] EXCEPT !.label = value] ELSE issue[s]]

\* The run is listed; the workflow's first step sets the label, its last one, which
\* runs however the run ends unless it is killed, takes it away.
AgentStarts(k) ==
    /\ agents[k].state = "starting"
    /\ SetState(k, "working") /\ SetLabel(k, TRUE)
    /\ WorldOnly /\ UNCHANGED events

AgentOpensPR(k) ==
    /\ agents[k].state = "working"
    /\ \/ /\ agents[k].pr = "none"
          /\ \E pr \in {"draft", "ready"} : agents' = [agents EXCEPT ![k].pr = pr]
       \/ agents[k].pr = "draft" /\ agents' = [agents EXCEPT ![k].pr = "ready"]
    /\ WorldOnly /\ UNCHANGED <<issue, events>>

AgentEnds(k) ==
    /\ agents[k].state = "working"
    /\ SetState(k, "ended") /\ SetLabel(k, FALSE)
    /\ WorldOnly /\ UNCHANGED events

\* Out of credits or killed: nothing is cleaned up.
AgentDies(k) ==
    /\ Live(k)
    /\ SetState(k, "failed")
    /\ WorldOnly /\ UNCHANGED <<issue, events>>

\* GitHub drops the record of a task that is over.
TaskIsPurged(k) ==
    /\ agents[k].kind = "copilot" /\ agents[k].state \in {"ended", "failed"}
    /\ SetState(k, "purged")
    /\ WorldOnly /\ UNCHANGED <<issue, events>>

PersonMerges(k) ==
    /\ agents[k].pr = "ready"
    /\ \E closing \in SUBSET {k} : Merged({k}, closing)
    /\ WorldOnly /\ UNCHANGED events

\* By hand, a bounded number of times: a pull request closed without merging, an
\* issue closed, reopened, or assigned to an agent and back.
PersonEdits ==
    /\ Event
    /\ \/ /\ \E k \in DOMAIN agents :
                agents[k].pr \in {"draft", "ready"} /\ agents' = [agents EXCEPT ![k].pr = "closed"]
          /\ UNCHANGED issue
       \/ /\ \E s \in Stories : \/ issue' = [issue EXCEPT ![s].open = ~@]
                                \/ issue' = [issue EXCEPT ![s].assigned = ~@]
          /\ UNCHANGED agents
    /\ WorldOnly

-----------------------------------------------------------------------------
ProjectionNext ==
    \/ TickStarts \/ WebhookStarts \/ SyncReadsGitHub \/ SyncSweeps
    \/ \E s \in Stories : SyncWrites(s)
    \/ SyncEnds

DispatchGoesOn(d) ==
    DispatchFires(d) \/ DispatchLabels(d) \/ DispatchMarks(d) \/ DispatchRecords(d)

DispatchNext ==
    \/ TickMerges \/ TickDispatches \/ ButtonDispatches
    \/ \E d \in Dispatchers : DispatchGoesOn(d)

GitHubNext ==
    \/ \E k \in DOMAIN agents : \/ AgentStarts(k) \/ AgentOpensPR(k) \/ AgentEnds(k)
                                \/ AgentDies(k) \/ TaskIsPurged(k) \/ PersonMerges(k)
    \/ PersonEdits

Next == ProjectionNext \/ DispatchNext \/ GitHubNext

Spec == Init /\ [][Next]_vars

\* The loop ticks for ever, what it started goes on, and GitHub's agents neither
\* wait for ever to start nor work for ever (the workflow's timeout, the task's own
\* end); GitHub drops the records of tasks that are over.
Fairness ==
    /\ WF_vars(ProjectionNext)
    /\ WF_vars(TickMerges \/ TickDispatches \/ DispatchGoesOn("loop"))
    /\ WF_vars("button" \in Dispatchers /\ DispatchGoesOn("button"))
    /\ \A k \in Agents :
         WF_vars(/\ k \in DOMAIN agents
                 /\ AgentStarts(k) \/ AgentEnds(k) \/ AgentDies(k) \/ TaskIsPurged(k))

LiveSpec == Spec /\ Fairness

-----------------------------------------------------------------------------
(* Properties. *)

TypeOK ==
    /\ story \in [Stories -> [status : {"backlog", "running", "in_review", "done"},
                             pr : 0 .. MaxAgents, lost : BOOLEAN, session : 0 .. RunsPage]]
    /\ issue \in [Stories -> [open : BOOLEAN, label : BOOLEAN, assigned : BOOLEAN]]
    /\ agents \in Seq([kind : Channels, work : SUBSET Stories, age : 0 .. MaterialiseTicks,
                        state : {"starting", "working", "ended", "failed", "purged"},
                        pr : {"none", "draft", "ready", "merged", "closed"}])
    /\ notFound \in [Agents -> 0 .. notFoundDeathThreshold]
    /\ staleLabel \in [Stories -> 0 .. staleLabelThreshold - 1]

\* A story has at most one agent at work on it. The anchors of the projection (the
\* label, the task session, the draft) are there so that a story that is being
\* worked on does not fall back to the backlog and get a second agent.
\* It holds as long as no pass overlaps a dispatch and GitHub answers the calls that
\* start agents.
OneAgentPerStory ==
    ~overlap => \A s \in Stories : Cardinality({k \in AgentsOf(s) : Live(k)}) <= 1

\* A story runs although nobody works on it and nothing is left to wait for.
Stranded(s) ==
    /\ story[s].status = "running"
    /\ issue[s].open /\ ~issue[s].assigned
    /\ \A k \in AgentsOf(s) : ~Live(k)
    /\ OpenPRs(s) = {}

\* A story whose agent died, was killed or left nothing does not run for ever: the
\* sweep of dead tasks and the stale label free it.
LostAgentIsFreed == \A s \in Stories : []<>~Stranded(s)

\* Once nobody opens or closes its issue any more, a story whose issue is closed
\* is done, whatever it was doing, and one whose issue is open is not.
IssueDecides == \A s \in Stories : <>[](story[s].status = "done" <=> ~issue[s].open)

=============================================================================
