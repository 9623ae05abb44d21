----------------------------- MODULE Scheduler -----------------------------
(***************************************************************************)
(* The native factory scheduler (orchestrator/native.go) over the ticket   *)
(* store: it claims ready work, fires a run for it, records the run on the *)
(* work, parks it in review when the run is done, and closes it when the   *)
(* pull request is merged or closed.                                       *)
(*                                                                         *)
(* A cycle (RunOnce) is four passes.  Each pass lists its work once and    *)
(* visits the listed units one by one, with the copy it read; a visit      *)
(* reads a run or a pull request and makes at most one chain of calls.     *)
(* Every call is an HTTP request that may be lost, or served without an    *)
(* answer.  A unit is one story, or all the stories of the sprint.         *)
(*                                                                         *)
(* Limit bounds the faults and the interventions of people, and Runs the   *)
(* runs that can be fired.                                                 *)
(***************************************************************************)
EXTENDS TicketStore, FiniteSetsExt

CONSTANTS
  Schedulers,    \* scheduler processes over the same store
  Boards,        \* the settings and the sprint a behaviour may have
  MaxMergeFails, \* failed merge attempts before a unit is failed
  Limit,         \* bound: how often each kind of disturbance happens
  MaxSpent       \* bound: disturbances of all kinds

Kinds == {"lost", "unheard", "crash", "revive", "people"}

ASSUME SchedulerAssumption ==
  /\ MaxMergeFails \in Nat \ {0}
  /\ Limit \in [Kinds -> Nat] /\ MaxSpent \in Nat
  /\ \A b \in Boards : /\ b.unit \in {"story", "sprint"}
                       /\ b.merge \in {"manual", "auto"}
                       /\ b.sprint \subseteq Stories

VARIABLES
  board,    \* the project's settings and the stories of its sprint
  stories,  \* the ticket store
  runs,     \* the control plane's runs, with the pull request of each
  sched,    \* what each scheduler is doing
  spent,    \* disturbances so far
  astray    \* runs no scheduler was told of, and runs revived after failing

vars == <<board, stories, runs, sched, spent, astray>>

Phases == <<"revive", "merge", "advance", "fire">>
NextPhase(p) == LET i == CHOOSE j \in 1..4 : Phases[j] = p IN Phases[(i % 4) + 1]

\* A unit as listed: a story, or 0 for the sprint, with the run and the pull
\* request the listing showed.
Sprint == 0
Unit(id, r, p) == [id |-> id, run |-> r, pr |-> p]
Units == [id : Stories \cup {Sprint}, run : Runs \cup {0}, pr : Runs \cup {0}]

\* The stories the requests for unit t are about.
Members(t) == IF t.id = Sprint THEN board.sprint ELSE {t.id}

\* The request being made: for which unit, with which run or pull request,
\* and how often it is made again.
Ops == {"none", "claim", "fire", "record", "resync", "reset", "in_review",
        "done", "failed", "merge"}
Call(op, t, arg, again) == [op |-> op, t |-> t, arg |-> arg, again |-> again]
NoCall == Call("none", Unit(Sprint, 0, 0), 0, 0)

Idle == [phase |-> "fire", todo |-> {}, call |-> NoCall,
         fails |-> [u \in Stories \cup {Sprint} |-> 0]]

Init ==
  /\ board \in Boards
  /\ stories = [s \in Stories |-> NewStory]
  /\ runs = [r \in Runs |-> [status |-> "unborn", covers |-> {}, pr |-> "none"]]
  /\ sched = [k \in Schedulers |-> Idle]
  /\ spent = [f \in Kinds |-> 0]
  /\ astray = {}

Unborn == {r \in Runs : runs[r].status = "unborn"}
Spend(f) ==
  /\ spent[f] < Limit[f] /\ MapThenSumSet(LAMBDA g : spent[g], Kinds) < MaxSpent
  /\ spent' = [spent EXCEPT ![f] = @ + 1]

-----------------------------------------------------------------------------
(* Listing a pass                                                          *)

Having(status) == {s \in Stories : stories[s].status = status}
One(s) == Unit(s, stories[s].run, stories[s].pr)

\* Faulty variant: only a story with a run of its own is listed.
RunningWork_Recorded == {One(s) : s \in {x \in Having("running") : stories[x].run # 0}}

\* Running: by story, or by sprint with any run its running stories carry.
RunningWork ==
  IF board.unit = "story" THEN {One(s) : s \in Having("running")}
  ELSE LET S == Having("running") \cap board.sprint
           fired == {s \in S : stories[s].run # 0}
       IN {One(s) : s \in Having("running") \ S}
          \cup (IF S = {} THEN {}
                ELSE {Unit(Sprint, IF fired = {} THEN 0 ELSE stories[Max(fired)].run, 0)})

\* reconcileMerges: a sprint is visited once, as its first story in review.
ReviewWork ==
  LET S == Having("in_review") \cap board.sprint
  IN {One(s) : s \in Having("in_review") \ S}
     \cup (IF S = {} THEN {}
           ELSE {Unit(Sprint, stories[Min(S)].run, stories[Min(S)].pr)})

\* Ready and ReadySprints.
ReadyWork ==
  IF board.unit = "story" THEN {One(s) : s \in Ready(stories)}
  ELSE IF SprintReady(stories, board.sprint)
       THEN {Unit(Sprint, 0, 0)} ELSE {}

Work(phase) ==
  CASE phase = "revive"  -> {One(s) : s \in {x \in Having("failed") : stories[x].run # 0}}
    [] phase = "merge"   -> ReviewWork
    [] phase = "advance" -> RunningWork
    [] phase = "fire"    -> ReadyWork

\* The pass is over: list the work of the next one.
List(k) ==
  /\ sched[k].todo = {} /\ sched[k].call = NoCall
  /\ LET p == NextPhase(sched[k].phase)
     IN sched' = [sched EXCEPT ![k].phase = p, ![k].todo = Work(p)]
  /\ UNCHANGED <<board, stories, runs, spent, astray>>

-----------------------------------------------------------------------------
(* Visiting a unit                                                         *)

HasPR(r) == runs[r].pr # "none"
PRof(r) == IF HasPR(r) THEN r ELSE 0

\* reconcileRevivedRuns: MarkRunning for a failed story whose run runs again.
Revive(t) ==
  IF runs[t.run].status = "RUNNING" THEN Call("resync", t, t.run, 0) ELSE NoCall

\* Faulty variant: a pull request that is not open was merged.
Reconcile_NotOpen(t) ==
  LET pr == IF t.pr = 0 THEN "none" ELSE runs[t.pr].pr
  IN CASE pr \in {"merged", "closed"} -> Call("done", t, 0, 0)
       [] pr = "open" /\ board.merge = "auto" -> Call("merge", t, t.pr, 0)
       [] OTHER -> NoCall

\* reconcileOne, up to its first call.
Reconcile(t) ==
  LET pr == IF t.pr = 0 THEN "none" ELSE runs[t.pr].pr
  IN CASE pr = "merged" -> Call("done", t, 0, 0)
       [] pr = "closed" -> Call("failed", t, 0, 0)
       [] pr = "open" /\ board.merge = "auto" -> Call("merge", t, t.pr, 0)
       [] OTHER -> NoCall

StatusOf(t) == IF t.run = 0 THEN "none" ELSE runs[t.run].status

\* parkOrFailStory, parkOrFailSprint: a DONE run must have a pull request (prGate).
Park(t) == IF HasPR(t.run) THEN Call("in_review", t, t.run, 0) ELSE Call("failed", t, 0, 0)

\* What becomes of a unit whose run is over.
RunOver(t) ==
  CASE StatusOf(t) = "DONE"   -> Park(t)
    [] StatusOf(t) = "FAILED" -> Call("failed", t, 0, 0)
    [] OTHER -> NoCall

\* advanceRunningStories, advanceRunningSprints and advanceLooseStory, which
\* leaves a story without a run alone.
Advance(t) ==
  IF t.run # 0 THEN RunOver(t)
  ELSE IF t.id = Sprint \/ board.unit = "story" THEN Call("reset", t, 0, 0) ELSE NoCall

Decision(phase, t) ==
  CASE phase = "revive"  -> Revive(t)
    [] phase = "merge"   -> Reconcile(t)
    [] phase = "advance" -> Advance(t)
    [] phase = "fire"    -> IF Unborn = {} THEN NoCall ELSE Call("claim", t, 0, 0)

\* A merged pull request clears the count of failed attempts to merge it.
Visit(k) ==
  /\ sched[k].call = NoCall
  /\ \E t \in sched[k].todo : LET c == Decision(sched[k].phase, t) IN
       sched' = [sched EXCEPT ![k].todo = @ \ {t}, ![k].call = c,
                               ![k].fails[t.id] = IF c.op = "done" THEN 0 ELSE @]
  /\ UNCHANGED <<board, stories, runs, spent, astray>>

\* A read fails, or the work may not be fired this cycle (entitlement, docs
\* not on dev): the unit waits for the next cycle.  When it is the result of
\* a DONE run that cannot be read, prGate asks for the URL alone and parks the
\* unit with what that gives.
Unread(k) ==
  /\ sched[k].call = NoCall
  /\ Spend("lost")
  /\ \E t \in sched[k].todo :
     LET parked == sched[k].phase = "advance" /\ StatusOf(t) = "DONE"
         calls == IF parked THEN {Call("in_review", t, p, 0) : p \in {0, PRof(t.run)}}
                  ELSE {}
     IN \E c \in calls \cup {NoCall} :
          sched' = [sched EXCEPT ![k].todo = @ \ {t}, ![k].call = c]
  /\ UNCHANGED <<board, stories, runs, astray>>

-----------------------------------------------------------------------------
(* Making the call                                                         *)

\* What serving a request does, and what it answers.
Outcome(st, rs, ok, r) == [stories |-> st, runs |-> rs, ok |-> ok, run |-> r]

ServeClaim(U) ==
  LET free == CanClaim(stories, U)
  IN Outcome(IF free THEN Claimed(stories, U) ELSE stories, runs, free, 0)

\* FireRun: POST /runs creates the run and starts it.
ServeFire(U) ==
  IF Unborn = {} THEN Outcome(stories, runs, FALSE, 0)
  ELSE LET r == CHOOSE x \in Unborn : TRUE
       IN Outcome(stories, [runs EXCEPT ![r].status = "RUNNING", ![r].covers = U], TRUE, r)

\* MarkRunning, MarkSprintRunning.
ServeRecord(t, r) ==
  IF t.id = Sprint THEN Outcome(SprintRecorded(stories, board.sprint, r), runs, TRUE, 0)
  ELSE LET legal == CanRecord(stories, Members(t))
       IN Outcome(IF legal THEN Recorded(stories, Members(t), r) ELSE stories, runs, legal, 0)

\* MergePR: an open pull request merges, or conflicts.
ServeMerge(p) ==
  IF runs[p].pr = "open"
  THEN {Outcome(stories, [runs EXCEPT ![p].pr = "merged"], TRUE, 0),
        Outcome(stories, runs, FALSE, 0)}
  ELSE {Outcome(stories, runs, runs[p].pr = "merged", 0)}

Outcomes(c) ==
  LET Store(st) == {Outcome(st, runs, TRUE, 0)}
  IN CASE c.op = "claim"                -> {ServeClaim(Members(c.t))}
       [] c.op = "fire"                 -> {ServeFire(Members(c.t))}
       [] c.op \in {"record", "resync"} -> {ServeRecord(c.t, c.arg)}
       [] c.op = "merge"                -> ServeMerge(c.arg)
       [] c.op = "reset"                -> Store(ResetClaim(stories, Members(c.t)))
       [] c.op = "in_review"            -> Store(InReview(stories, Members(c.t), c.arg))
       [] c.op \in {"done", "failed"}   -> Store(Moved(stories, Members(c.t), c.op))

\* Faulty variant: recording the run is tried once.
Fired_Once(c, ok, r) ==
  CASE c.op = "claim" /\ ok -> Call("fire", c.t, 0, 0)
    [] c.op = "fire" /\ ok  -> Call("record", c.t, r, 0)
    [] c.op \in {"fire", "record"} /\ ~ok -> Call("reset", c.t, 0, 0)
    [] OTHER -> NoCall

\* fireReadyStories, fireSprint: claim, fire and record, which is tried twice;
\* a claim without a recorded run is given back.
Fired(c, ok, r) ==
  CASE c.op = "claim" /\ ok -> Call("fire", c.t, 0, 0)
    [] c.op = "fire" /\ ok  -> Call("record", c.t, r, 1)
    [] c.op = "record" /\ ~ok /\ c.again > 0 -> Call("record", c.t, c.arg, c.again - 1)
    [] c.op = "record" /\ ~ok /\ c.again = 0 -> Call("reset", c.t, 0, 0)
    [] c.op = "fire" /\ ~ok -> Call("reset", c.t, 0, 0)
    [] OTHER -> NoCall

\* Faulty variant: a conflict is tried again for ever.
MergeTried_Forever(k, c, ok) == IF ok THEN Call("done", c.t, 0, 0) ELSE NoCall

\* reconcileOne after its attempt to merge: done, failed, or tried next cycle.
MergeTried(k, c, ok) ==
  CASE ok -> Call("done", c.t, 0, 0)
    [] ~ok /\ sched[k].fails[c.t.id] + 1 >= MaxMergeFails -> Call("failed", c.t, 0, 0)
    [] OTHER -> NoCall

\* What the scheduler asks for next, given the answer it got.
Then(k, c, ok, r) == IF c.op = "merge" THEN MergeTried(k, c, ok) ELSE Fired(c, ok, r)

\* Faulty variant: the count is not cleared when the unit is failed.
Fails_Kept(k, c, ok) ==
  LET n == sched[k].fails[c.t.id]
  IN IF c.op # "merge" THEN n ELSE IF ok THEN 0 ELSE n + 1

\* bumpMergeFails and clearMergeFails.
Fails(k, c, ok) ==
  LET n == sched[k].fails[c.t.id]
  IN IF c.op # "merge" THEN n
     ELSE IF ok \/ n + 1 >= MaxMergeFails THEN 0 ELSE n + 1

Answered(k, c, ok, r) ==
  sched' = [sched EXCEPT ![k].call = Then(k, c, ok, r),
                         ![k].fails[c.t.id] = Fails(k, c, ok)]

\* A request is served and its answer arrives.
Send(k) ==
  LET c == sched[k].call
  IN /\ c # NoCall
     /\ \E o \in Outcomes(c) : /\ stories' = o.stories /\ runs' = o.runs
                               /\ Answered(k, c, o.ok, o.run)
     /\ UNCHANGED <<board, spent, astray>>

\* A request does not arrive.
Lost(k) ==
  LET c == sched[k].call
  IN /\ c # NoCall
     /\ Spend("lost")
     /\ Answered(k, c, FALSE, 0)
     /\ UNCHANGED <<board, stories, runs, astray>>

\* A request is served and its answer does not arrive.
Unheard(k) ==
  LET c == sched[k].call
  IN /\ c # NoCall
     /\ Spend("unheard")
     /\ \E o \in Outcomes(c) :
          /\ stories' = o.stories /\ runs' = o.runs
          /\ astray' = astray \cup ({o.run} \ {0})
     /\ Answered(k, c, FALSE, 0)
     /\ UNCHANGED board

\* fireSprint: the stories of the claimed sprint cannot be read.
Unlisted(k) ==
  LET c == sched[k].call
  IN /\ c.op = "fire" /\ c.t.id = Sprint
     /\ Spend("lost")
     /\ sched' = [sched EXCEPT ![k].call = Call("failed", c.t, 0, 0)]
     /\ UNCHANGED <<board, stories, runs, astray>>

\* The process restarts: it keeps nothing, the counts of failed merges either.
Crash(k) ==
  LET c == sched[k].call
  IN /\ sched[k] # Idle
     /\ Spend("crash")
     /\ astray' = astray \cup (IF c.op = "record" THEN {c.arg} ELSE {})
     /\ sched' = [sched EXCEPT ![k] = Idle]
     /\ UNCHANGED <<board, stories, runs>>

-----------------------------------------------------------------------------
(* The runs, the pull requests, and people                                 *)

Ends(r, status, pr) ==
  /\ runs[r].status = "RUNNING"
  /\ runs' = [runs EXCEPT ![r].status = status, ![r].pr = pr]
  /\ UNCHANGED <<board, stories, sched, spent, astray>>

\* A run ends with a pull request, DONE without one, or FAILED or CANCELLED.
RunEnds(r) ==
  \/ Ends(r, "DONE", "open")
  \/ Ends(r, "DONE", "none")
  \/ Ends(r, "FAILED", "none")

\* A failed run is retried.
RunRevives(r) ==
  /\ runs[r].status = "FAILED"
  /\ Spend("revive")
  /\ runs' = [runs EXCEPT ![r].status = "RUNNING"]
  /\ astray' = astray \cup {r}
  /\ UNCHANGED <<board, stories, sched>>

\* A person merges or closes a pull request on GitHub.
PersonSettles(r) ==
  /\ runs[r].pr = "open"
  /\ \E pr \in {"merged", "closed"} : runs' = [runs EXCEPT ![r].pr = pr]
  /\ UNCHANGED <<board, stories, sched, spent, astray>>

Edited(st) == Spend("people") /\ stories' = st /\ UNCHANGED <<board, runs, sched, astray>>

\* POST /stories/{id}/requeue, and each story of POST /sprints/{id}/requeue:
\* not while the run recorded for the story is alive.
Requeue(s) ==
  /\ stories[s].status = "failed"
  /\ stories[s].run # 0 => runs[stories[s].run].status # "RUNNING"
  /\ Edited(Requeued(stories, {s}))

\* POST /runs/{id}/requeue: the stories of the run, or their whole sprint.
RequeueRun(r) ==
  LET S == {s \in Stories : stories[s].run = r}
      W == (S \ board.sprint) \cup (IF S \cap board.sprint = {} THEN {} ELSE board.sprint)
  IN /\ Rows(stories, W, {"failed"}) # {}
     /\ Edited(Requeued(stories, W))

Cancel(s) ==
  /\ stories[s].status \in LegalSources["cancelled"]
  /\ Edited(Moved(stories, {s}, "cancelled"))

-----------------------------------------------------------------------------

Cycle(k) == List(k) \/ Visit(k) \/ Send(k)

Next ==
  \/ \E k \in Schedulers : \/ Cycle(k)
                            \/ Unread(k) \/ Lost(k) \/ Unheard(k) \/ Unlisted(k) \/ Crash(k)
  \/ \E r \in Runs : RunEnds(r) \/ RunRevives(r) \/ PersonSettles(r) \/ RequeueRun(r)
  \/ \E s \in Stories : Requeue(s) \/ Cancel(s)

Spec == Init /\ [][Next]_vars

\* The poll loop never stops (Run), so every scheduler keeps taking its next
\* step.  Runs and people owe nothing.
FairSpec == Spec /\ \A k \in Schedulers : WF_vars(Cycle(k))

-----------------------------------------------------------------------------
(* Properties                                                              *)

TypeOK ==
  /\ board \in Boards
  /\ stories \in [Stories -> Story]
  /\ runs \in [Runs -> [status : {"unborn", "RUNNING", "DONE", "FAILED"},
                        covers : SUBSET Stories,
                        pr : {"none", "open", "merged", "closed"}]]
  /\ sched \in [Schedulers ->
       [phase : {"revive", "merge", "advance", "fire"}, todo : SUBSET Units,
        call : [op : Ops, t : Units, arg : Runs \cup {0}, again : {0, 1}],
        fails : [Stories \cup {Sprint} -> 0..MaxMergeFails - 1]]]
  /\ spent \in [Kinds -> Nat] /\ \A f \in Kinds : spent[f] <= Limit[f]
  /\ astray \subseteq Runs

Merged(s) == \E r \in Runs : s \in runs[r].covers /\ runs[r].pr = "merged"

\* A story is done only when a pull request of a run fired for it was merged,
\* whatever the copies the scheduler decides from (MarkDone, MarkSprintDone).
DoneMeansMerged == \A s \in Stories : stories[s].status = "done" => Merged(s)

\* A run is fired for a story only after the work of every story it depends
\* on, outside the run itself, was merged (Ready, sprintReady).
DependentsWaitForTheMerge ==
  \A r \in Runs : \A s \in runs[r].covers : \A d \in Deps[s] \ runs[r].covers : Merged(d)

Alive(s) == {r \in Runs : s \in runs[r].covers /\ runs[r].status = "RUNNING"}

\* Two live runs never implement one story, unless the id of one of them
\* was lost on its way to the scheduler or one failed before and was retried:
\* requests that are lost and answers that are late do not fire work twice.
NoDoubleFire ==
  \A s \in Stories : \A a, b \in Alive(s) : a # b => {a, b} \cap astray # {}

\* A cancelled or done story keeps its status: no scheduler holding an older
\* copy of it, and nobody else, moves it again.
EndedStoryStays ==
  [][\A s \in Stories : stories[s].status \in {"cancelled", "done"} =>
       stories'[s].status = stories[s].status]_vars

Stranded(s) == stories[s].status = "running" /\ stories[s].run = 0

Overdue(s) ==
  /\ stories[s].status = "running" /\ stories[s].run # 0
  /\ runs[stories[s].run].status \in {"DONE", "FAILED"}

\* A story claimed and left without a run, by a lost answer or a crash between
\* the claim and the record, does not stay so (B3 and B4), and one whose run has
\* ended does not stay running.
NobodyIsStranded == \A s \in Stories : []<>~Stranded(s) /\ []<>~Overdue(s)

\* A story in review whose pull request was merged or closed, or is the
\* scheduler's to merge, leaves review.
Settled(s) ==
  /\ stories[s].status = "in_review" /\ stories[s].pr # 0
  /\ board.merge = "auto" \/ runs[stories[s].pr].pr \in {"merged", "closed"}

ReviewSettles == \A s \in Stories : []<>~Settled(s)
=============================================================================
