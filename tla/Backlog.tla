------------------------------ MODULE Backlog ------------------------------
(***************************************************************************)
(* The edits of a project's backlog (tickets/tickets.go, planapply.go,     *)
(* publish.go and their API handlers): people and workflow steps create,   *)
(* link, edit, move, split, cancel and delete stories, apply an approved   *)
(* sprint plan and publish a designed backlog, while the scheduler claims  *)
(* and finishes the same stories.                                          *)
(*                                                                         *)
(* An edit reads and validates with some statements and writes with a      *)
(* later one: the reads of an edit are one step, its write transaction is  *)
(* another, and the scheduler or another editor may come in between.       *)
(*                                                                         *)
(* A sprint is the number of its id (SP8 is 8); 0 is the loose pool.       *)
(***************************************************************************)
EXTENDS Naturals, Sequences, FiniteSets, StoryStatus

CONSTANTS
  Ids,           \* story ids, the ones not in the store included
  Sprints,       \* sprint numbers
  Editors,       \* whoever edits the backlog at the same time
  Requests,      \* the single edits they ask for
  Plans,         \* the sprint plans they approve
  Publications,  \* the designed backlogs they publish
  MaxRequests,   \* bound: edits, plans and publications in a behaviour
  FirstStories, FirstDeps, FirstSprints  \* the backlog at the start

Story == [status : Statuses \cup {"absent"}, sprint : Sprints \cup {0}]

\* One edit, as a request, an approved plan or a designed backlog names it.
Ops ==
  [op : {"create"}, id : Ids, sprint : Sprints \cup {0}, deps : SUBSET Ids]
  \cup [op : {"add_dep"}, id : Ids, deps : SUBSET Ids]
  \cup [op : {"edit"}, id : Ids, deps : SUBSET Ids, fields : BOOLEAN]
  \cup [op : {"move"}, id : Ids, sprint : Sprints \cup {0}]
  \cup [op : {"defer", "cancel", "delete"}, id : Ids]
  \cup [op : {"split"}, id : Ids, parts : SUBSET Ids]
  \cup [op : {"sprint"}, sprint : Sprints]

PlanOps == {o \in Ops : o.op \in {"move", "defer", "cancel", "edit", "split"}}

ASSUME BacklogAssumption ==
  /\ Sprints \subseteq Nat \ {0}
  /\ MaxRequests \in Nat
  /\ FirstStories \in [Ids -> Story]
  /\ FirstSprints \subseteq Sprints
  /\ FirstDeps \subseteq Ids \X Ids

ASSUME OpsAssumption ==
  /\ Requests \subseteq Ops
  /\ Plans \subseteq [sprint : Sprints, actions : Seq(PlanOps)]
  /\ Publications \subseteq Seq({o \in Ops : o.op \in {"create", "sprint"}})

VARIABLES
  stories,   \* stories[s]: its status, or "absent", and its sprint
  deps,      \* pairs <<s, d>>: s depends on d, which may be no story yet
  sprints,   \* the rows of the sprints table
  planned,   \* the sprints with planned_at set
  calls,     \* calls[e]: what editor e is doing
  requests   \* how many requests were made

backlogVars == <<stories, deps, sprints, planned, calls, requests>>

Absent == [status |-> "absent", sprint |-> 0]
Movable == {"backlog", "failed"}
editable == {"backlog", "failed", "in_review"}

storyExists(s) == stories[s].status # "absent"
StoryDependents(s) == {c \in Ids : <<c, s>> \in deps}
DepsOf(s) == {d \in Ids : <<s, d>> \in deps}
Edges(s, D) == {s} \X D

\* Does target lie on a path of dep-edges that starts at start?  The search visits
\* the least set of ids that holds start and that no edge leaves.
Closed(S, E) == \A e \in E : e[1] \in S => e[2] \in S
reaches(E, start, target) ==
  \A S \in SUBSET Ids : start \in S /\ Closed(S, E) => target \in S

\* Faulty variant: only the dependencies' own edges are looked at.
closesCycle_Direct(s, D) == \E d \in D : d = s \/ <<d, s>> \in deps

closesCycle(s, D) == \E d \in D : reaches(deps, d, s)

\* Sprint ids are listed as text: SP10 comes before SP8.
TextKey(n) == IF n < 10 THEN 11 * n ELSE 11 * (n \div 10) + 1 + (n % 10)
Later(a, b) == TextKey(a) > TextKey(b)

\* sprintOf, for a sprint that has a rank.
RankedIn(s, n) == n \in sprints /\ stories[s].sprint = n

checkMoveOrdering(s, target) ==
  target \in sprints =>
    \A n \in sprints :
      /\ \A d \in DepsOf(s) : RankedIn(d, n) => ~Later(n, target)
      /\ \A c \in StoryDependents(s) : RankedIn(c, n) => ~Later(target, n)

\* The sprint listed after the story's, or its number plus one.
deferTarget(s) ==
  LET own == stories[s].sprint
      next == {n \in sprints : Later(n, own)}
  IN  IF own \in sprints /\ next # {}
      THEN CHOOSE n \in next : \A m \in next : ~Later(n, m)
      ELSE own + 1

DepsAreValid(s, D) ==
  /\ s \notin D
  /\ \A d \in D : storyExists(d)
  /\ ~closesCycle(s, D)

-----------------------------------------------------------------------------
(* The reads of an edit: whether it is accepted, from what is stored now.  *)

AcceptsCreate(o) == o.op = "create" /\ o.id \notin o.deps /\ ~closesCycle(o.id, o.deps)
AcceptsAddDep(o) == o.op = "add_dep" /\ storyExists(o.id) /\ DepsAreValid(o.id, o.deps)
AcceptsEdit(o) ==
  o.op = "edit" /\ stories[o.id].status \in editable /\ DepsAreValid(o.id, o.deps)
AcceptsMove(o) ==
  /\ o.op = "move"
  /\ stories[o.id].status \in Movable
  /\ o.sprint \in sprints \cup {0}
  /\ checkMoveOrdering(o.id, o.sprint)
AcceptsDefer(o) ==
  /\ o.op = "defer"
  /\ stories[o.id].status \in Movable
  /\ stories[o.id].sprint # 0
  /\ checkMoveOrdering(o.id, deferTarget(o.id))
AcceptsSplit(o) ==
  /\ o.op = "split"
  /\ stories[o.id].status \in Movable
  /\ Cardinality(o.parts) >= 2
  /\ \A p \in o.parts : ~storyExists(p)
AcceptsCancel(o) == o.op = "cancel" /\ stories[o.id].status \in LegalSources.cancelled
AcceptsDelete(o) == o.op = "delete" /\ storyExists(o.id) /\ StoryDependents(o.id) = {}
AcceptsSprint(o) == o.op = "sprint"

Accepts(o) ==
  \/ AcceptsCreate(o) \/ AcceptsAddDep(o) \/ AcceptsEdit(o)
  \/ AcceptsMove(o)   \/ AcceptsDefer(o)  \/ AcceptsSplit(o)
  \/ AcceptsCancel(o) \/ AcceptsDelete(o) \/ AcceptsSprint(o)

\* What an edit keeps of its reads for the write: a split keeps the story's
\* dependencies, its dependents and its sprint.
Read(o) ==
  IF o.op = "split"
  THEN [op |-> "split", id |-> o.id, parts |-> o.parts, deps |-> DepsOf(o.id),
        dependents |-> StoryDependents(o.id), sprint |-> stories[o.id].sprint]
  ELSE o
-----------------------------------------------------------------------------
(* The write transactions.  Each has the guard of its own statement.       *)

\* Faulty variant: the move's write trusts the status that was read.
CanWrite_Trusting(o) ==
  \/ o.op = "move"
  \/ o.op = "create" /\ ~storyExists(o.id)
  \/ o.op = "sprint" /\ o.sprint \notin sprints

CanWrite(o) ==
  \/ o.op = "create"  /\ ~storyExists(o.id)
  \/ o.op = "add_dep"
  \/ o.op = "edit"    /\ (o.fields => stories[o.id].status \in editable)
  \/ o.op = "move"    /\ stories[o.id].status \in Movable
  \/ o.op = "split"   /\ stories[o.id].status \in Movable /\ \A p \in o.parts : ~storyExists(p)
  \/ o.op = "cancel"  /\ stories[o.id].status \in LegalSources.cancelled
  \/ o.op = "delete"  /\ storyExists(o.id)
  \/ o.op = "sprint"  /\ o.sprint \notin sprints

CreateStory(o) ==
  /\ o.op = "create"
  /\ stories' = [stories EXCEPT ![o.id] = [status |-> "backlog", sprint |-> o.sprint]]
  /\ deps' = deps \cup Edges(o.id, o.deps)
  /\ UNCHANGED sprints

AddDep(o) ==
  /\ o.op = "add_dep"
  /\ deps' = deps \cup Edges(o.id, o.deps)
  /\ UNCHANGED <<stories, sprints>>

EditStory(o) ==
  /\ o.op = "edit"
  /\ deps' = (deps \ Edges(o.id, Ids)) \cup Edges(o.id, o.deps)
  /\ UNCHANGED <<stories, sprints>>

MoveStory(o) ==
  /\ o.op = "move"
  /\ stories' = [stories EXCEPT ![o.id].sprint = o.sprint]
  /\ UNCHANGED <<deps, sprints>>

\* Faulty variant: the dependents are put on one part only.
SplitStory_OnePart(o) ==
  /\ o.op = "split"
  /\ stories' = [s \in Ids |->
       IF s = o.id THEN [stories[s] EXCEPT !.status = "cancelled"]
       ELSE IF s \in o.parts THEN [status |-> "backlog", sprint |-> o.sprint]
       ELSE stories[s]]
  /\ deps' = (deps \ (o.dependents \X {o.id})) \cup (o.parts \X o.deps)
             \cup (o.dependents \X {CHOOSE p \in o.parts : TRUE})
  /\ UNCHANGED sprints

SplitStory(o) ==
  /\ o.op = "split"
  /\ stories' = [s \in Ids |->
       IF s = o.id THEN [stories[s] EXCEPT !.status = "cancelled"]
       ELSE IF s \in o.parts THEN [status |-> "backlog", sprint |-> o.sprint]
       ELSE stories[s]]
  /\ deps' = (deps \ (o.dependents \X {o.id})) \cup (o.parts \X o.deps)
             \cup (o.dependents \X o.parts)
  /\ UNCHANGED sprints

CancelStory(o) ==
  /\ o.op = "cancel"
  /\ stories' = [stories EXCEPT ![o.id].status = "cancelled"]
  /\ UNCHANGED <<deps, sprints>>

DeleteStory(o) ==
  /\ o.op = "delete"
  /\ stories' = [stories EXCEPT ![o.id] = Absent]
  /\ deps' = {e \in deps : o.id \notin {e[1], e[2]}}
  /\ UNCHANGED sprints

CreateSprint(o) ==
  /\ o.op = "sprint"
  /\ sprints' = sprints \cup {o.sprint}
  /\ UNCHANGED <<stories, deps>>

Write(o) ==
  \/ CreateStory(o) \/ AddDep(o)      \/ EditStory(o)   \/ MoveStory(o)
  \/ SplitStory(o)  \/ CancelStory(o) \/ DeleteStory(o) \/ CreateSprint(o)

-----------------------------------------------------------------------------
(* An editor: idle, or at the check or the write of the first of its ops.  *)

AtRest == [at |-> "idle"]
Doing(e, kind, at) == calls[e].at = at /\ calls[e].kind = kind
Op(e) == Head(calls[e].ops)
Goes(e, call) == calls' = [calls EXCEPT ![e] = call]
Stored == UNCHANGED <<stories, deps, sprints, planned>>
NewRequest(e) ==
  calls[e].at = "idle" /\ requests < MaxRequests /\ requests' = requests + 1

\* A request that its reads accept; one they refuse changes nothing.
Request(e, o) ==
  /\ NewRequest(e)
  /\ Accepts(o)
  /\ Goes(e, [kind |-> "request", at |-> "write", ops |-> <<Read(o)>>])
  /\ Stored

RequestWrites(e) ==
  /\ Doing(e, "request", "write")
  /\ IF CanWrite(Op(e)) THEN Write(Op(e)) ELSE UNCHANGED <<stories, deps, sprints>>
  /\ Goes(e, AtRest)
  /\ UNCHANGED <<planned, requests>>

\* ApplyPlan, phase 1: every action is accepted as the store is now.
ApprovePlan(e, p) ==
  /\ NewRequest(e)
  /\ \A i \in DOMAIN p.actions : Accepts(p.actions[i])
  /\ Goes(e, [kind |-> "plan", at |-> "check", ops |-> p.actions, plan |-> p])
  /\ Stored

\* Phase 2, one action at a time: its own checks again, then its write.  The
\* first that fails ends the plan.  A defer is a move, after its sprint is made.
PlanChecks(e) ==
  /\ Doing(e, "plan", "check")
  /\ calls[e].ops # <<>>
  /\ Op(e).op # "defer"
  /\ Goes(e, IF Accepts(Op(e))
             THEN [calls[e] EXCEPT !.at = "write", !.ops[1] = Read(Op(e))]
             ELSE AtRest)
  /\ Stored
  /\ UNCHANGED requests

PlanDefers(e) ==
  /\ Doing(e, "plan", "check")
  /\ calls[e].ops # <<>>
  /\ Op(e).op = "defer"
  /\ LET s == Op(e).id
         target == deferTarget(s)
     IN  IF storyExists(s) /\ target \in Sprints
         THEN /\ sprints' = sprints \cup {target}
              /\ Goes(e, [calls[e] EXCEPT
                   !.ops[1] = [op |-> "move", id |-> s, sprint |-> target]])
         ELSE Goes(e, AtRest) /\ UNCHANGED sprints
  /\ UNCHANGED <<stories, deps, planned, requests>>

\* Faulty variant: an action that fails is passed over.
PlanWrites_Skip(e) ==
  /\ Doing(e, "plan", "write")
  /\ IF CanWrite(Op(e)) THEN Write(Op(e)) ELSE UNCHANGED <<stories, deps, sprints>>
  /\ Goes(e, [calls[e] EXCEPT !.at = "check", !.ops = Tail(@)])
  /\ UNCHANGED <<planned, requests>>

PlanWrites(e) ==
  /\ Doing(e, "plan", "write")
  /\ IF CanWrite(Op(e))
     THEN Write(Op(e)) /\ Goes(e, [calls[e] EXCEPT !.at = "check", !.ops = Tail(@)])
     ELSE UNCHANGED <<stories, deps, sprints>> /\ Goes(e, AtRest)
  /\ UNCHANGED <<planned, requests>>

\* Phase 3: SetSprintPlanned, for a sprint that exists.
PlanIsStamped(e) ==
  /\ Doing(e, "plan", "check")
  /\ calls[e].ops = <<>>
  /\ planned' = planned \cup ({calls[e].plan.sprint} \cap sprints)
  /\ Goes(e, AtRest)
  /\ UNCHANGED <<stories, deps, sprints, requests>>

\* PublishRunner.Run: the sprints, then the stories one by one.
Publish(e, p) ==
  /\ NewRequest(e)
  /\ Goes(e, [kind |-> "publish", at |-> "check", ops |-> p])
  /\ Stored

\* A sprint or story that exists already is passed over; a refused one ends it.
PublishChecks(e) ==
  /\ Doing(e, "publish", "check")
  /\ calls[e].ops # <<>>
  /\ Goes(e, IF Accepts(Op(e)) THEN [calls[e] EXCEPT !.at = "write"] ELSE AtRest)
  /\ Stored
  /\ UNCHANGED requests

PublishWrites(e) ==
  /\ Doing(e, "publish", "write")
  /\ IF CanWrite(Op(e)) THEN Write(Op(e)) ELSE UNCHANGED <<stories, deps, sprints>>
  /\ Goes(e, [calls[e] EXCEPT !.at = "check", !.ops = Tail(@)])
  /\ UNCHANGED <<planned, requests>>

-----------------------------------------------------------------------------
\* ValidateDeps: every dependency is a story and no story reaches itself.
NoDanglingDep == \A e \in deps : storyExists(e[2])
Acyclic == \A e \in deps : ~reaches(deps, e[2], e[1])
ValidateDeps == NoDanglingDep /\ Acyclic

\* The step fails when they are not, and leaves what it stored.
PublishEnds(e) ==
  /\ Doing(e, "publish", "check")
  /\ calls[e].ops = <<>>
  /\ Goes(e, IF ValidateDeps THEN AtRest ELSE [at |-> "failed"])
  /\ Stored
  /\ UNCHANGED requests

\* The run shows the failure to its owner, who edits the backlog.
Acknowledge(e) ==
  /\ calls[e].at = "failed"
  /\ Goes(e, AtRest)
  /\ Stored
  /\ UNCHANGED requests

\* The scheduler and the operators: a claim from a listing that may be old,
\* a pull request, a merge, a failure, a requeue.
Progress(s, target) ==
  /\ stories[s].status \in LegalSources[target]
  /\ stories' = [stories EXCEPT ![s].status = target]
  /\ UNCHANGED <<deps, sprints, planned, calls, requests>>

Requeue(s) ==
  /\ stories[s].status = "failed"
  /\ stories' = [stories EXCEPT ![s].status = "backlog"]
  /\ UNCHANGED <<deps, sprints, planned, calls, requests>>

BacklogInit ==
  /\ stories = FirstStories
  /\ deps = FirstDeps
  /\ sprints = FirstSprints
  /\ planned = {}
  /\ calls = [e \in Editors |-> AtRest]
  /\ requests = 0

Edit(e) ==
  \/ \E o \in Requests : Request(e, o)
  \/ RequestWrites(e)
  \/ \E p \in Plans : ApprovePlan(e, p)
  \/ PlanChecks(e)
  \/ PlanDefers(e)
  \/ PlanWrites(e)
  \/ PlanIsStamped(e)
  \/ \E p \in Publications : Publish(e, p)
  \/ PublishChecks(e)
  \/ PublishWrites(e)
  \/ PublishEnds(e)
  \/ Acknowledge(e)

Work(s) ==
  \/ \E target \in {"running", "in_review", "done", "failed"} : Progress(s, target)
  \/ Requeue(s)

BacklogNext ==
  \/ \E e \in Editors : Edit(e)
  \/ \E s \in Ids : Work(s)

BacklogSpec == BacklogInit /\ [][BacklogNext]_backlogVars
-----------------------------------------------------------------------------
\* Types: an editor is at one op of a list, and every stored sprint number and
\* dependency names something of the model.
BacklogTypes ==
  /\ stories \in [Ids -> Story]
  /\ deps \subseteq Ids \X Ids
  /\ planned \subseteq sprints /\ sprints \subseteq Sprints
  /\ \A e \in Editors : calls[e].at \in {"idle", "check", "write", "failed"}
  /\ requests \in 0..MaxRequests

\* checkNoCycle, SplitStory: from a backlog in which every dependency is a story
\* and none waits for itself, no edit makes a story wait for itself, whatever
\* the scheduler does between the edit's checks and its write.
NoNewCycle == [][ValidateDeps => Acyclic']_backlogVars

\* SplitStory's comment: "the rewrite is acyclic by construction", so a split of
\* a story of an acyclic backlog leaves it acyclic.
SplitKeepsAcyclic ==
  [][Acyclic /\ (\E e \in Editors : calls[e].at = "write" /\ Op(e).op = "split")
       => Acyclic']_backlogVars

\* AddDep, EditStory, SplitStory, DeleteStory: a story goes on waiting for
\* another until its own edit or its deletion says otherwise; when the other is
\* split it waits for every part.
WaitIsKept ==
  [][\A e \in deps \ deps' :
       \/ \E c \in Editors :
            /\ calls[c].at = "write"
            /\ Op(c).op \in {"edit", "delete"}
            /\ Op(c).id = e[1]
       \/ /\ stories[e[2]].status # "cancelled" /\ stories'[e[2]].status = "cancelled"
          /\ \E P \in SUBSET {p \in Ids : ~storyExists(p) /\ stories'[p].status = "backlog"} :
               Cardinality(P) >= 2 /\ {e[1]} \X P \subseteq deps'
          /\ \A p \in Ids : ~storyExists(p) /\ stories'[p].status = "backlog" => <<e[1], p>> \in deps'
    ]_backlogVars

\* MoveStory, ApplyPlan: a story that the scheduler has taken, or whose work is
\* over, stays in its sprint until it is back in the backlog or deleted.
WorkStaysInItsSprint ==
  [][\A s \in Ids :
       stories[s].status \in Statuses \ Movable /\ stories'[s].status # "absent"
         => stories'[s].sprint = stories[s].sprint]_backlogVars

\* ApplyPlan: a sprint is stamped as planned only when every action of the
\* approved plan is in force, the last one on a story counting.
InForce(a) ==
  \/ a.op = "move"   /\ stories[a.id].sprint = a.sprint
  \/ a.op = "cancel" /\ stories[a.id].status = "cancelled"
  \/ a.op = "split"  /\ \A p \in a.parts : storyExists(p)
  \/ a.op = "edit"   /\ \A d \in a.deps : <<a.id, d>> \in deps
  \/ a.op = "defer"  /\ stories[a.id].sprint \in Sprints
PlannedMeansApplied ==
  [][\A e \in Editors :
       planned' # planned /\ calls'[e] # calls[e] =>
         LET A == calls[e].plan.actions
         IN  \A i \in DOMAIN A :
               InForce(A[i]) \/ \E j \in DOMAIN A : j > i /\ A[j].id = A[i].id]_backlogVars
=============================================================================
