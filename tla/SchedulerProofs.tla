--------------------------- MODULE SchedulerProofs ---------------------------
(***************************************************************************)
(* Proofs about Scheduler, for any number of schedulers, stories and runs  *)
(* and any number of faults.                                               *)
(***************************************************************************)
EXTENDS Scheduler, TLAPS

StoryTable == [Stories -> Story]
RunTable == [Runs -> [status : {"unborn", "RUNNING", "DONE", "FAILED"},
                      covers : SUBSET Stories,
                      pr : {"none", "open", "merged", "closed"}]]
Requests == [op : Ops, t : Units, arg : Runs \cup {0}, again : {0, 1}]
Desks == [phase : {"revive", "merge", "advance", "fire"}, todo : SUBSET Units,
          call : Requests, fails : [Stories \cup {Sprint} -> 0..MaxMergeFails - 1]]

-----------------------------------------------------------------------------
(* The updates of the ticket store                                         *)

\* What an update makes of a story table, whatever it is asked to do.
LEMMA UpdateType ==
  ASSUME NEW st \in StoryTable, NEW W, NEW to \in StoryTable
  PROVE  /\ Updated(st, W, to) \in StoryTable
         /\ \A s \in Stories : Updated(st, W, to)[s] = IF s \in W THEN to[s] ELSE st[s]
  BY DEF Updated, StoryTable

\* Every update of the store makes a story table of a story table.
LEMMA StoreTypes ==
  ASSUME NEW st \in StoryTable, NEW U, NEW r \in Runs \cup {0}
  PROVE  /\ \A target \in {"running", "in_review", "done", "failed", "cancelled"} :
              Moved(st, U, target) \in StoryTable
         /\ Claimed(st, U) \in StoryTable
         /\ ResetClaim(st, U) \in StoryTable
         /\ Recorded(st, U, r) \in StoryTable
         /\ SprintRecorded(st, U, r) \in StoryTable
         /\ InReview(st, U, r) \in StoryTable
         /\ Requeued(st, U) \in StoryTable
<1>1. ASSUME NEW target \in {"running", "in_review", "done", "failed", "cancelled"}
      PROVE  Moved(st, U, target) \in StoryTable
  <2>1. [s \in Stories |-> [st[s] EXCEPT !.status = target]] \in StoryTable
    BY DEF StoryTable, Story, Statuses
  <2> QED
    BY <2>1, UpdateType DEF Moved
<1>2. [s \in Stories |-> [st[s] EXCEPT !.status = "backlog"]] \in StoryTable
  BY DEF StoryTable, Story, Statuses
<1>3. [s \in Stories |-> [st[s] EXCEPT !.status = "running", !.run = r]] \in StoryTable
  BY DEF StoryTable, Story, Statuses
<1>4. [s \in Stories |-> [st[s] EXCEPT !.run = r]] \in StoryTable
  BY DEF StoryTable, Story, Statuses
<1>5. [s \in Stories |-> [st[s] EXCEPT !.status = "in_review", !.pr = r]] \in StoryTable
  BY DEF StoryTable, Story, Statuses
<1>6. [s \in Stories |-> NewStory] \in StoryTable
  BY DEF StoryTable, Story, Statuses, NewStory
<1> QED
  BY <1>1, <1>2, <1>3, <1>4, <1>5, <1>6, UpdateType
  DEF Claimed, ResetClaim, Recorded, SprintRecorded, InReview, Requeued

\* Table st2 keeps the stories that are over in table st.
Keeps(st, st2) ==
  \A s \in Stories : st[s].status \in {"cancelled", "done"} => st2[s].status = st[s].status

\* No update of the store moves a story that is done or cancelled: neither
\* status is one a story may leave.
LEMMA StoreKeeps ==
  ASSUME NEW st \in StoryTable, NEW U \in SUBSET Stories, NEW r \in Runs \cup {0}
  PROVE  /\ \A target \in {"running", "in_review", "done", "failed", "cancelled"} :
              Keeps(st, Moved(st, U, target))
         /\ Keeps(st, Claimed(st, U))
         /\ Keeps(st, ResetClaim(st, U))
         /\ CanRecord(st, U) => Keeps(st, Recorded(st, U, r))
         /\ Keeps(st, SprintRecorded(st, U, r))
         /\ Keeps(st, InReview(st, U, r))
         /\ Keeps(st, Requeued(st, U))
<1>1. ASSUME NEW W \in SUBSET Stories, NEW to,
             \A s \in W : st[s].status \notin {"cancelled", "done"}
      PROVE  Keeps(st, Updated(st, W, to))
  BY <1>1 DEF Keeps, Updated
<1>2. ASSUME NEW from \in SUBSET {"backlog", "running", "in_review", "failed"}
      PROVE  /\ Rows(st, U, from) \in SUBSET Stories
             /\ \A s \in Rows(st, U, from) : st[s].status \notin {"cancelled", "done"}
  BY DEF Rows
<1>3. \A target \in {"running", "in_review", "done", "failed", "cancelled"} :
        LegalSources[target] \in SUBSET {"backlog", "running", "in_review", "failed"}
  BY DEF LegalSources
<1>4. \A target \in {"running", "in_review", "done", "failed", "cancelled"} :
        Keeps(st, Moved(st, U, target))
  BY <1>1, <1>2, <1>3 DEF Moved
<1>5. Keeps(st, ResetClaim(st, U))
  <2>1. \A s \in {x \in Rows(st, U, {"running"}) : st[x].run = 0} :
          s \in Stories /\ st[s].status \notin {"cancelled", "done"}
    BY DEF Rows
  <2> QED
    BY <1>1, <2>1 DEF ResetClaim
<1>6. CanRecord(st, U) => Keeps(st, Recorded(st, U, r))
  <2>1. CanRecord(st, U) => \A s \in U : st[s].status \notin {"cancelled", "done"}
    BY DEF CanRecord, Rows
  <2> QED
    BY <1>1, <2>1 DEF Recorded
<1>7. Keeps(st, SprintRecorded(st, U, r))
  BY <1>1, <1>2 DEF SprintRecorded, NotEnded
<1>8. Keeps(st, InReview(st, U, r))
  BY <1>1, <1>2, <1>3 DEF InReview
<1>9. Keeps(st, Requeued(st, U))
  BY <1>1, <1>2 DEF Requeued
<1> QED
  BY <1>4, <1>5, <1>6, <1>7, <1>8, <1>9 DEF Claimed

-----------------------------------------------------------------------------
(* The shape of the state                                                  *)

\* A request without an operation is no request, a merge names its pull
\* request and a record names its run.
WellFormed(c) == /\ c.op = "none" => c = NoCall
                 /\ c.op \in {"merge", "record"} => c.arg \in Runs

TInv == TypeOK /\ \A k \in Schedulers : WellFormed(sched[k].call)

LEMMA TypesNamed ==
  ASSUME TInv
  PROVE  /\ board \in Boards /\ stories \in StoryTable /\ runs \in RunTable
         /\ \A k \in Schedulers : sched[k] \in Desks /\ WellFormed(sched[k].call)
         /\ board.sprint \subseteq Stories
         /\ 0 \notin Stories /\ 0 \notin Runs
  BY SchedulerAssumption, TicketAssumption
  DEF TInv, TypeOK, StoryTable, RunTable, Desks, Requests

\* The first and the last story of a listing are stories of that listing.
LEMMA ListingEnds ==
  ASSUME NEW S \in SUBSET Stories, S # {}
  PROVE  Min(S) \in S /\ Max(S) \in S
<1>1. PICK a \in S, z \in S : \A s \in S : a <= s /\ s <= z
  BY OrderAssumption
<1>2. \A y \in S : z >= y
  BY <1>1, TicketAssumption
<1> QED
  BY <1>1, <1>2, TicketAssumption DEF Min, Max

\* Every pass lists units.
LEMMA WorkType ==
  ASSUME TInv, NEW p \in {"revive", "merge", "advance", "fire"}
  PROVE  Work(p) \subseteq Units
<1> USE TypesNamed
<1>1. \A s \in Stories : One(s) \in Units
  BY DEF One, Unit, Units, StoryTable, Story
<1>2. \A status : Having(status) \subseteq Stories
  BY DEF Having
<1>3. \A r \in Runs \cup {0}, q \in Runs \cup {0} : Unit(Sprint, r, q) \in Units
  BY DEF Unit, Units
<1>4. RunningWork \subseteq Units
  <2> DEFINE S == Having("running") \cap board.sprint
             fired == {s \in S : stories[s].run # 0}
  <2>1. fired # {} => stories[Max(fired)].run \in Runs \cup {0}
    BY <1>2, ListingEnds DEF StoryTable, Story
  <2>2. Unit(Sprint, IF fired = {} THEN 0 ELSE stories[Max(fired)].run, 0) \in Units
    BY <2>1, <1>3
  <2> HIDE DEF S, fired
  <2>3. RunningWork \subseteq {One(s) : s \in Having("running")}
          \cup {Unit(Sprint, IF fired = {} THEN 0 ELSE stories[Max(fired)].run, 0)}
    BY DEF RunningWork, S, fired
  <2> QED
    BY <1>1, <1>2, <2>2, <2>3
<1>5. ReviewWork \subseteq Units
  <2> DEFINE S == Having("in_review") \cap board.sprint
  <2>1. S # {} => stories[Min(S)].run \in Runs \cup {0} /\ stories[Min(S)].pr \in Runs \cup {0}
    BY <1>2, ListingEnds DEF StoryTable, Story
  <2>2. S # {} => Unit(Sprint, stories[Min(S)].run, stories[Min(S)].pr) \in Units
    BY <2>1, <1>3
  <2> HIDE DEF S
  <2>3. ReviewWork \subseteq {One(s) : s \in Having("in_review")}
          \cup (IF S = {} THEN {} ELSE {Unit(Sprint, stories[Min(S)].run, stories[Min(S)].pr)})
    BY DEF ReviewWork, S
  <2> QED
    BY <1>1, <1>2, <2>2, <2>3
<1>6. ReadyWork \subseteq Units
  BY <1>1, <1>3 DEF ReadyWork, Ready
<1>7. {One(s) : s \in {x \in Having("failed") : stories[x].run # 0}} \subseteq Units
  BY <1>1, <1>2
<1> QED
  BY <1>4, <1>5, <1>6, <1>7 DEF Work

\* A visit decides on a well-formed request, about the unit visited.
LEMMA DecisionType ==
  ASSUME TInv, NEW p \in {"revive", "merge", "advance", "fire"}, NEW t \in Units
  PROVE  /\ Decision(p, t) \in Requests /\ WellFormed(Decision(p, t))
         /\ Decision(p, t) = NoCall \/ Decision(p, t).t = t
<1> DEFINE Fit(c) == c = NoCall \/ (c \in Requests /\ WellFormed(c) /\ c.t = t)
<1> USE TypesNamed
<1>1. NoCall \in Requests /\ WellFormed(NoCall)
  BY DEF NoCall, Call, Requests, Ops, Units, Unit, WellFormed
<1>2. ASSUME NEW op \in Ops \ {"none"}, NEW arg \in Runs \cup {0}, op \in {"merge", "record"} => arg # 0
      PROVE  Fit(Call(op, t, arg, 0))
  BY <1>2 DEF Call, Requests, WellFormed
<1>3. t.run \in Runs \cup {0} /\ t.pr \in Runs \cup {0}
  BY DEF Units
<1> HIDE DEF Fit
<1>4. Fit(NoCall)
  BY DEF Fit
<1>5. Fit(Revive(t))
  BY <1>2, <1>3, <1>4 DEF Revive, Ops
<1>6. Fit(Reconcile(t))
  BY <1>2, <1>3, <1>4 DEF Reconcile, Ops
<1>7. Fit(Advance(t))
  BY <1>2, <1>3, <1>4 DEF Advance, RunOver, Park, Ops
<1>8. Fit(Call("claim", t, 0, 0))
  BY <1>2 DEF Ops
<1> QED
  BY <1>1, <1>4, <1>5, <1>6, <1>7, <1>8 DEF Decision, Fit

\* Serving a request gives tables again and moves no story that is over.
LEMMA ServeType ==
  ASSUME TInv, NEW c \in Requests, WellFormed(c), c # NoCall, NEW o \in Outcomes(c)
  PROVE  /\ o.stories \in StoryTable /\ o.runs \in RunTable
         /\ o.ok \in BOOLEAN /\ o.run \in Runs \cup {0}
         /\ c.op = "fire" /\ o.ok => o.run # 0
         /\ Keeps(stories, o.stories)
<1> USE TypesNamed
<1> DEFINE U == Members(c.t)
           Sound(x) == /\ x.stories \in StoryTable /\ x.runs \in RunTable
                       /\ x.ok \in BOOLEAN /\ x.run \in Runs \cup {0}
                       /\ c.op = "fire" /\ x.ok => x.run # 0
                       /\ Keeps(stories, x.stories)
<1>1. U \in SUBSET Stories /\ c.arg \in Runs \cup {0}
  BY DEF Members, Requests, Units
<1>2. Keeps(stories, stories)
  BY DEF Keeps
<1>3. ASSUME NEW st \in StoryTable, Keeps(stories, st), NEW rs \in RunTable,
             NEW ok \in BOOLEAN, NEW r \in Runs \cup {0}, c.op = "fire" /\ ok => r # 0
      PROVE  Sound(Outcome(st, rs, ok, r))
  BY <1>3 DEF Outcome
<1> HIDE DEF U, Sound
<1>4. c.op # "fire" => Sound(ServeClaim(U))
  <2>1. Claimed(stories, U) \in StoryTable /\ Keeps(stories, Claimed(stories, U))
    BY <1>1, StoreTypes, StoreKeeps
  <2>2. /\ CanClaim(stories, U) => ServeClaim(U) = Outcome(Claimed(stories, U), runs, TRUE, 0)
        /\ ~CanClaim(stories, U) => ServeClaim(U) = Outcome(stories, runs, FALSE, 0)
    BY DEF ServeClaim, CanClaim
  <2> QED
    BY <1>2, <1>3, <2>1, <2>2
<1>5. Sound(ServeFire(U))
  <2>1. CASE Unborn = {}
    BY <2>1, <1>2, <1>3 DEF ServeFire
  <2>2. CASE Unborn # {}
    <3> DEFINE r == CHOOSE x \in Unborn : TRUE
               rs == [runs EXCEPT ![r].status = "RUNNING", ![r].covers = U]
    <3>1. r \in Runs
      BY <2>2 DEF Unborn
    <3> HIDE DEF r
    <3>2. rs \in RunTable
      BY <1>1, <3>1 DEF RunTable
    <3>3. ServeFire(U) = Outcome(stories, rs, TRUE, r)
      BY <2>2 DEF ServeFire, r
    <3> HIDE DEF rs
    <3> QED
      BY <1>2, <1>3, <3>1, <3>2, <3>3
  <2> QED
    BY <2>1, <2>2
<1>6. c.op # "fire" => Sound(ServeRecord(c.t, c.arg))
  <2>1. /\ SprintRecorded(stories, board.sprint, c.arg) \in StoryTable
        /\ Keeps(stories, SprintRecorded(stories, board.sprint, c.arg))
    BY <1>1, StoreTypes, StoreKeeps
  <2>2. /\ Recorded(stories, U, c.arg) \in StoryTable
        /\ CanRecord(stories, U) => Keeps(stories, Recorded(stories, U, c.arg))
    BY <1>1, StoreTypes, StoreKeeps
  <2>3. ServeRecord(c.t, c.arg) =
          IF c.t.id = Sprint
          THEN Outcome(SprintRecorded(stories, board.sprint, c.arg), runs, TRUE, 0)
          ELSE IF CanRecord(stories, U) THEN Outcome(Recorded(stories, U, c.arg), runs, TRUE, 0)
          ELSE Outcome(stories, runs, FALSE, 0)
    BY DEF ServeRecord, U, CanRecord
  <2> QED
    BY <1>2, <1>3, <2>1, <2>2, <2>3
<1>7. ASSUME c.op = "merge", NEW x \in ServeMerge(c.arg)
      PROVE  Sound(x)
  <2>1. c.arg \in Runs
    BY <1>7 DEF WellFormed
  <2>2. [runs EXCEPT ![c.arg].pr = "merged"] \in RunTable
    BY <2>1 DEF RunTable
  <2>3. /\ Sound(Outcome(stories, [runs EXCEPT ![c.arg].pr = "merged"], TRUE, 0))
        /\ \A ok \in BOOLEAN : Sound(Outcome(stories, runs, ok, 0))
    BY <1>2, <1>3, <1>7, <2>2
  <2>4. (runs[c.arg].pr = "merged") \in BOOLEAN
    OBVIOUS
  <2> QED
    BY <1>7, <2>3, <2>4 DEF ServeMerge
<1>8. ASSUME NEW st \in StoryTable, Keeps(stories, st), c.op # "fire"
      PROVE  Sound(Outcome(st, runs, TRUE, 0))
  BY <1>3, <1>8
<1>9. c.op # "fire" =>
      /\ Sound(Outcome(ResetClaim(stories, U), runs, TRUE, 0))
      /\ Sound(Outcome(InReview(stories, U, c.arg), runs, TRUE, 0))
      /\ \A target \in {"done", "failed"} :
           Sound(Outcome(Moved(stories, U, target), runs, TRUE, 0))
  BY <1>1, <1>8, StoreTypes, StoreKeeps
<1>10. c.op \in Ops \ {"none"}
  BY DEF WellFormed, Requests
<1>11. Sound(o)
  BY <1>4, <1>5, <1>6, <1>7, <1>9, <1>10 DEF Outcomes, Ops, U
<1> QED
  BY <1>11 DEF Sound

\* The next request after an answer is well formed, and the count of failed
\* merges stays below its limit.
LEMMA ThenType ==
  ASSUME TInv, NEW k \in Schedulers, NEW c \in Requests, WellFormed(c),
         NEW ok \in BOOLEAN, NEW r \in Runs \cup {0}, c.op = "fire" /\ ok => r # 0
  PROVE  /\ Then(k, c, ok, r) \in Requests /\ WellFormed(Then(k, c, ok, r))
         /\ Fails(k, c, ok) \in 0..MaxMergeFails - 1
<1> DEFINE Fit(x) == x \in Requests /\ WellFormed(x)
<1> USE TypesNamed
<1>1. ASSUME NEW op \in Ops \ {"none", "merge"}, NEW arg \in Runs \cup {0}, NEW n \in {0, 1},
             op = "record" => arg # 0
      PROVE  Fit(Call(op, c.t, arg, n))
  BY <1>1 DEF Call, Requests, WellFormed
<1>2. Fit(NoCall)
  BY DEF NoCall, Call, Requests, Ops, Units, Unit, WellFormed
<1>3. c.arg \in Runs \cup {0} /\ (c.again > 0 => c.again - 1 \in {0, 1}) /\ c.t \in Units
  BY DEF Requests
<1> HIDE DEF Fit
<1>4. {"fire", "record", "reset", "done", "failed"} \subseteq Ops \ {"none", "merge"}
  BY DEF Ops
<1>5. Fit(Then(k, c, ok, r))
  <2>1. /\ Fit(Call("fire", c.t, 0, 0)) /\ Fit(Call("reset", c.t, 0, 0))
        /\ Fit(Call("done", c.t, 0, 0)) /\ Fit(Call("failed", c.t, 0, 0))
        /\ c.op = "fire" /\ ok => Fit(Call("record", c.t, r, 1))
        /\ c.op = "record" /\ c.again > 0 => Fit(Call("record", c.t, c.arg, c.again - 1))
    BY <1>1, <1>3, <1>4 DEF WellFormed
  <2> QED
    BY <1>2, <2>1 DEF Then, Fired, MergeTried
<1>6. Fails(k, c, ok) \in 0..MaxMergeFails - 1
  <2>1. sched[k].fails[c.t.id] \in 0..MaxMergeFails - 1
    BY <1>3 DEF Desks, Units
  <2>2. 0 \in 0..MaxMergeFails - 1
    BY SchedulerAssumption
  <2> QED
    BY <2>1, <2>2, SchedulerAssumption DEF Fails
<1> QED
  BY <1>5, <1>6 DEF Fit

\* An answer, or its absence, leaves every desk in shape.
LEMMA AnsweredType ==
  ASSUME TInv, NEW k \in Schedulers, NEW ok \in BOOLEAN, NEW r \in Runs \cup {0},
         sched[k].call.op = "fire" /\ ok => r # 0, Answered(k, sched[k].call, ok, r)
  PROVE  /\ sched' \in [Schedulers -> Desks]
         /\ \A j \in Schedulers : WellFormed(sched'[j].call)
<1> USE TypesNamed
<1> DEFINE c == sched[k].call
           d == Then(k, c, ok, r)
           n == Fails(k, c, ok)
<1>1. c \in Requests /\ WellFormed(c) /\ c.t.id \in Stories \cup {Sprint}
  BY DEF Desks, Requests, Units
<1>2. d \in Requests /\ WellFormed(d) /\ n \in 0..MaxMergeFails - 1
  BY <1>1, ThenType
<1>3. sched' = [sched EXCEPT ![k].call = d, ![k].fails[c.t.id] = n]
  BY DEF Answered
<1>4. sched \in [Schedulers -> Desks]
  BY DEF TInv, TypeOK, Desks, Requests
<1> HIDE DEF d, n, c
<1>5. sched' \in [Schedulers -> Desks]
  BY <1>1, <1>2, <1>3, <1>4 DEF Desks
<1>6. \A j \in Schedulers : sched'[j].call = IF j = k THEN d ELSE sched[j].call
  BY <1>3, <1>4 DEF Desks
<1> QED
  BY <1>2, <1>5, <1>6

\* A new desk for scheduler k.
LEMMA DeskType ==
  ASSUME TInv, NEW k \in Schedulers, NEW d \in Desks, WellFormed(d.call),
         sched' = [sched EXCEPT ![k] = d]
  PROVE  /\ sched' \in [Schedulers -> Desks]
         /\ \A j \in Schedulers : WellFormed(sched'[j].call)
<1>1. sched \in [Schedulers -> Desks]
  BY DEF TInv, TypeOK, Desks, Requests
<1>2. \A j \in Schedulers : sched'[j] = IF j = k THEN d ELSE sched[j]
  BY <1>1
<1> QED
  BY <1>1, <1>2, TypesNamed

\* A disturbance is counted within its limit.
LEMMA SpendType ==
  ASSUME TInv, NEW f \in Kinds, Spend(f)
  PROVE  spent' \in [Kinds -> Nat] /\ \A g \in Kinds : spent'[g] <= Limit[g]
<1>1. spent[f] < Limit[f] /\ spent' = [spent EXCEPT ![f] = @ + 1]
  BY DEF Spend
<1>2. /\ spent \in [Kinds -> Nat] /\ Limit \in [Kinds -> Nat]
      /\ \A g \in Kinds : spent[g] <= Limit[g]
  BY SchedulerAssumption DEF TInv, TypeOK
<1> QED
  BY <1>1, <1>2

\* What a step that types its state has to show.
Typed ==
  /\ board' = board /\ stories' \in StoryTable /\ runs' \in RunTable
  /\ sched' \in [Schedulers -> Desks] /\ \A k \in Schedulers : WellFormed(sched'[k].call)
  /\ spent' \in [Kinds -> Nat] /\ \A f \in Kinds : spent'[f] <= Limit[f]
  /\ astray' \subseteq Runs
  /\ Keeps(stories, stories')

LEMMA TypedIsTyped == TInv /\ Typed => TInv'
  BY DEF TInv, TypeOK, Typed, StoryTable, RunTable, Desks, Requests

\* The steps of a scheduler.
LEMMA SchedulerStepTyped ==
  ASSUME TInv, NEW k \in Schedulers,
         Cycle(k) \/ Unread(k) \/ Lost(k) \/ Unheard(k) \/ Unlisted(k) \/ Crash(k)
  PROVE  Typed
<1> USE TypesNamed
<1> DEFINE c == sched[k].call
<1>1. /\ c \in Requests /\ WellFormed(c)
      /\ sched[k].phase \in {"revive", "merge", "advance", "fire"}
      /\ sched[k].todo \subseteq Units
      /\ sched[k].fails \in [Stories \cup {Sprint} -> 0..MaxMergeFails - 1]
  BY DEF Desks
<1>2. /\ sched \in [Schedulers -> Desks]
      /\ spent \in [Kinds -> Nat] /\ \A f \in Kinds : spent[f] <= Limit[f]
      /\ astray \subseteq Runs
      /\ Keeps(stories, stories)
  BY DEF TInv, TypeOK, Desks, Requests, Keeps
<1>3. NoCall \in Requests /\ WellFormed(NoCall)
  BY DEF NoCall, Call, Requests, Ops, Units, Unit, WellFormed
<1>4. CASE List(k)
  <2> DEFINE p == NextPhase(sched[k].phase)
  <2>1. p \in {"revive", "merge", "advance", "fire"}
    <3>1. \A j \in 1..4 : Phases[(j % 4) + 1] \in {"revive", "merge", "advance", "fire"}
      BY DEF Phases
    <3>2. \E j \in 1..4 : Phases[j] = sched[k].phase
      BY <1>1 DEF Phases
    <3> QED
      BY <3>1, <3>2 DEF NextPhase
  <2>2. Work(p) \subseteq Units
    BY <2>1, WorkType
  <2> DEFINE d == [sched[k] EXCEPT !.phase = p, !.todo = Work(p)]
  <2>3. sched' = [sched EXCEPT ![k] = d]
    BY <1>4 DEF List
  <2>4. d \in Desks /\ d.call = c
    BY <2>1, <2>2 DEF Desks
  <2> HIDE DEF d, p
  <2> QED
    BY <1>1, <1>2, <1>4, <2>3, <2>4, DeskType DEF List, Typed
<1>5. CASE Visit(k)
  <2>1. PICK t \in sched[k].todo :
          sched' = [sched EXCEPT
            ![k].todo = @ \ {t}, ![k].call = Decision(sched[k].phase, t),
            ![k].fails[t.id] = IF Decision(sched[k].phase, t).op = "done" THEN 0 ELSE @]
    BY <1>5 DEF Visit
  <2> DEFINE e == Decision(sched[k].phase, t)
             d == [sched[k] EXCEPT !.todo = @ \ {t}, !.call = e,
                                   !.fails[t.id] = IF e.op = "done" THEN 0 ELSE @]
  <2>2. e \in Requests /\ WellFormed(e) /\ t.id \in Stories \cup {Sprint}
    BY <1>1, DecisionType DEF Units
  <2>3. sched' = [sched EXCEPT ![k] = d]
    BY <2>1
  <2>4. d \in Desks /\ d.call = e
    <3> HIDE DEF e
    <3> DEFINE n == IF e.op = "done" THEN 0 ELSE sched[k].fails[t.id]
               f == [sched[k].fails EXCEPT ![t.id] = n]
    <3>1. n \in 0..MaxMergeFails - 1
      BY <1>1, <2>2, SchedulerAssumption
    <3>2. f \in [Stories \cup {Sprint} -> 0..MaxMergeFails - 1]
      BY <1>1, <3>1
    <3>3. d = [sched[k] EXCEPT !.todo = @ \ {t}, !.call = e, !.fails = f]
      BY DEF Desks
    <3> HIDE DEF f
    <3> QED
      BY <1>1, <2>2, <3>2, <3>3 DEF Desks
  <2> HIDE DEF e
  <2> HIDE DEF d
  <2> QED
    BY <1>2, <1>5, <2>2, <2>3, <2>4, DeskType DEF Visit, Typed
<1>6. CASE Unread(k)
  <2> DEFINE Made(t, e) == sched' = [sched EXCEPT ![k].todo = @ \ {t}, ![k].call = e]
  <2>1. PICK t \in sched[k].todo :
          \/ Made(t, NoCall)
          \/ /\ StatusOf(t) = "DONE"
             /\ \E p \in {0, PRof(t.run)} : Made(t, Call("in_review", t, p, 0))
    <3>1. PICK t \in sched[k].todo :
            LET parked == sched[k].phase = "advance" /\ StatusOf(t) = "DONE"
                calls == IF parked THEN {Call("in_review", t, p, 0) : p \in {0, PRof(t.run)}}
                         ELSE {}
            IN \E e \in calls \cup {NoCall} : Made(t, e)
      BY <1>6 DEF Unread
    <3> HIDE DEF Made
    <3> QED
      BY <3>1
  <2>2. t.run \in Runs \cup {0} /\ (StatusOf(t) = "DONE" => t.run \in Runs)
    BY <1>1 DEF Units, StatusOf
  <2>3. \A p \in Runs \cup {0} : LET e == Call("in_review", t, p, 0)
                               IN e \in Requests /\ WellFormed(e)
    BY <1>1 DEF Call, Requests, Ops, WellFormed
  <2>4. PICK e \in Requests : WellFormed(e) /\ Made(t, e)
    <3>1. StatusOf(t) = "DONE" => PRof(t.run) \in Runs \cup {0}
      BY <2>2 DEF PRof
    <3> HIDE DEF Made
    <3> QED
      BY <1>3, <2>1, <2>3, <3>1
  <2> DEFINE d == [sched[k] EXCEPT !.todo = @ \ {t}, !.call = e]
  <2>5. sched' = [sched EXCEPT ![k] = d]
    BY <2>4
  <2>6. d \in Desks /\ d.call = e
    BY <2>4 DEF Desks
  <2> HIDE DEF d
  <2> QED
    BY <1>2, <1>6, <2>4, <2>5, <2>6, DeskType, SpendType DEF Unread, Typed, Kinds
<1>7. CASE Send(k)
  <2>1. PICK o \in Outcomes(c) : /\ c # NoCall
                                 /\ stories' = o.stories /\ runs' = o.runs
                                 /\ Answered(k, c, o.ok, o.run)
    BY <1>7 DEF Send
  <2>2. /\ o.stories \in StoryTable /\ o.runs \in RunTable
        /\ o.ok \in BOOLEAN /\ o.run \in Runs \cup {0} /\ Keeps(stories, o.stories)
        /\ c.op = "fire" /\ o.ok => o.run # 0
    BY <1>1, <2>1, ServeType
  <2> QED
    BY <1>2, <1>7, <2>1, <2>2, AnsweredType DEF Send, Typed
<1>8. CASE Lost(k)
  BY <1>2, <1>8, AnsweredType, SpendType DEF Lost, Typed, Kinds
<1>9. CASE Unheard(k)
  <2>1. PICK o \in Outcomes(c) : /\ c # NoCall
                                 /\ stories' = o.stories /\ runs' = o.runs
                                 /\ astray' = astray \cup ({o.run} \ {0})
    BY <1>9 DEF Unheard
  <2>2. /\ o.stories \in StoryTable /\ o.runs \in RunTable
        /\ o.run \in Runs \cup {0} /\ Keeps(stories, o.stories)
    BY <1>1, <2>1, ServeType
  <2>3. Answered(k, c, FALSE, 0) /\ Spend("unheard") /\ board' = board
    BY <1>9 DEF Unheard
  <2> QED
    BY <1>2, <2>1, <2>2, <2>3, AnsweredType, SpendType DEF Typed, Kinds
<1>10. CASE Unlisted(k)
  <2> DEFINE d == [sched[k] EXCEPT !.call = Call("failed", c.t, 0, 0)]
  <2>1. sched' = [sched EXCEPT ![k] = d]
    BY <1>10 DEF Unlisted
  <2>2. d \in Desks /\ WellFormed(d.call)
    BY <1>1 DEF Desks, Call, Requests, Ops, WellFormed
  <2> HIDE DEF d
  <2> QED
    BY <1>2, <1>10, <2>1, <2>2, DeskType, SpendType DEF Unlisted, Typed, Kinds
<1>11. CASE Crash(k)
  <2>1. Idle \in Desks /\ WellFormed(Idle.call)
    BY <1>3, SchedulerAssumption DEF Idle, Desks
  <2>2. (IF c.op = "record" THEN {c.arg} ELSE {}) \subseteq Runs
    BY <1>1 DEF WellFormed
  <2> QED
    BY <1>2, <1>11, <2>1, <2>2, DeskType, SpendType DEF Crash, Typed, Kinds
<1> QED
  BY <1>4, <1>5, <1>6, <1>7, <1>8, <1>9, <1>10, <1>11 DEF Cycle

\* The steps of runs, of pull requests and of people.
LEMMA OtherStepTyped ==
  ASSUME TInv,
         \/ \E r \in Runs : RunEnds(r) \/ RunRevives(r) \/ PersonSettles(r) \/ RequeueRun(r)
         \/ \E s \in Stories : Requeue(s) \/ Cancel(s)
  PROVE  Typed
<1> USE TypesNamed
<1>1. /\ sched \in [Schedulers -> Desks]
      /\ spent \in [Kinds -> Nat] /\ \A f \in Kinds : spent[f] <= Limit[f]
      /\ astray \subseteq Runs
      /\ Keeps(stories, stories)
  BY DEF TInv, TypeOK, Desks, Requests, Keeps
<1>2. ASSUME NEW r \in Runs, RunEnds(r)
      PROVE  Typed
  <2>1. PICK status \in {"DONE", "FAILED"}, pr \in {"open", "none"} : Ends(r, status, pr)
    BY <1>2 DEF RunEnds
  <2>2. [runs EXCEPT ![r].status = status, ![r].pr = pr] \in RunTable
    BY DEF RunTable
  <2> QED
    BY <1>1, <2>1, <2>2 DEF Ends, Typed
<1>3. ASSUME NEW r \in Runs, RunRevives(r)
      PROVE  Typed
  <2>1. [runs EXCEPT ![r].status = "RUNNING"] \in RunTable
    BY DEF RunTable
  <2> QED
    BY <1>1, <1>3, <2>1, SpendType DEF RunRevives, Typed, Kinds
<1>4. ASSUME NEW r \in Runs, PersonSettles(r)
      PROVE  Typed
  <2>1. PICK pr \in {"merged", "closed"} : runs' = [runs EXCEPT ![r].pr = pr]
    BY <1>4 DEF PersonSettles
  <2>2. [runs EXCEPT ![r].pr = pr] \in RunTable
    BY DEF RunTable
  <2> QED
    BY <1>1, <1>4, <2>1, <2>2 DEF PersonSettles, Typed
<1>5. ASSUME NEW st \in StoryTable, Keeps(stories, st), Edited(st)
      PROVE  Typed
  BY <1>1, <1>5, SpendType DEF Edited, Typed, Kinds
<1>6. \A U \in SUBSET Stories :
        /\ Requeued(stories, U) \in StoryTable /\ Keeps(stories, Requeued(stories, U))
        /\ Moved(stories, U, "cancelled") \in StoryTable
        /\ Keeps(stories, Moved(stories, U, "cancelled"))
  BY StoreTypes, StoreKeeps
<1>7. ASSUME NEW r \in Runs, RequeueRun(r)
      PROVE  Typed
  BY <1>5, <1>6, <1>7 DEF RequeueRun
<1>8. ASSUME NEW s \in Stories, Requeue(s) \/ Cancel(s)
      PROVE  Typed
  BY <1>5, <1>6, <1>8 DEF Requeue, Cancel
<1> QED
  BY <1>2, <1>3, <1>4, <1>7, <1>8

LEMMA NextTyped == TInv /\ [Next]_vars => Typed
<1> SUFFICES ASSUME TInv, [Next]_vars
             PROVE  Typed
  OBVIOUS
<1>1. CASE UNCHANGED vars
  BY <1>1, TypesNamed DEF vars, TInv, TypeOK, Typed, Keeps, Desks, Requests
<1>2. CASE Next
  BY <1>2, SchedulerStepTyped, OtherStepTyped DEF Next
<1> QED
  BY <1>1, <1>2

LEMMA InitTyped == Init => TInv
<1> SUFFICES ASSUME Init
             PROVE  TInv
  OBVIOUS
<1>1. NoCall \in Requests /\ WellFormed(NoCall)
  BY DEF NoCall, Call, Requests, Ops, Units, Unit, WellFormed
<1>2. Idle \in Desks
  BY <1>1, SchedulerAssumption DEF Idle, Desks
<1>3. stories \in StoryTable /\ runs \in RunTable
  BY DEF Init, StoryTable, RunTable, Story, Statuses, NewStory
<1>4. spent \in [Kinds -> Nat] /\ \A f \in Kinds : spent[f] <= Limit[f]
  BY SchedulerAssumption DEF Init
<1> QED
  BY <1>1, <1>2, <1>3, <1>4
  DEF Init, TInv, TypeOK, StoryTable, RunTable, Desks, Requests, Idle

LEMMA TypedAlways == Spec => []TInv
<1>1. TInv /\ [Next]_vars => TInv'
  BY NextTyped, TypedIsTyped
<1> QED
  BY InitTyped, <1>1, PTL DEF Spec

\* The tables, the listings, the requests and the counts of failed merges keep
\* their types, and no count of disturbances passes its bound.
THEOREM TypeCorrect == Spec => []TypeOK
<1>1. TInv => TypeOK
  BY DEF TInv
<1> QED
  BY <1>1, TypedAlways, PTL

\* No request, however late, and no person moves a story that is done or
\* cancelled: EndedStoryStays for any number of schedulers and faults.
THEOREM EndedStoriesStay == Spec => EndedStoryStays
<1> DEFINE Stay == \A s \in Stories : stories[s].status \in {"cancelled", "done"} =>
                     stories'[s].status = stories[s].status
<1>1. TInv /\ [Next]_vars => [Stay]_vars
  BY NextTyped DEF Typed, Keeps
<1>2. Spec => [][Stay]_vars
  BY <1>1, TypedAlways, PTL DEF Spec
<1> QED
  BY <1>2 DEF EndedStoryStays

-----------------------------------------------------------------------------
(***************************************************************************)
(* Done means merged                                                       *)
(*                                                                         *)
(* What the schedulers work from is old: a listing shows a story as it     *)
(* was, and a request is about a run the scheduler read of or was told of. *)
(* The invariant says that none of it is wrong: a run or a pull request    *)
(* that appears next to some stories, in the store, in a listing or in a   *)
(* request, covers them, and a request to close stories is about stories   *)
(* whose pull request was merged.  Runs keep what they cover and a merged  *)
(* pull request stays merged, so neither goes stale.                       *)
(*                                                                         *)
(* A listing shows one story's run for the whole sprint, so a run must     *)
(* cover all of a sprint or none of it: this is where stories fired one by *)
(* one out of a sprint have to be excluded (PlannedBoards of MCScheduler). *)
(***************************************************************************)
Plain == board.unit = "story" => board.sprint = {}
OnlyPlainBoards == \A b \in Boards : b.unit = "story" => b.sprint = {}

MergedIn(rs, s) == \E r \in Runs : s \in rs[r].covers /\ rs[r].pr = "merged"
Covered(rs, r, U) == r # 0 => U \subseteq rs[r].covers

RunsWhole(rs) ==
  \A r \in Runs : /\ rs[r].status = "unborn" => rs[r].covers = {}
                  /\ rs[r].status # "DONE" => rs[r].pr = "none"
                  /\ rs[r].covers \cap board.sprint # {} => board.sprint \subseteq rs[r].covers

StoriesBacked(st, rs) ==
  \A s \in Stories : /\ Covered(rs, st[s].run, {s}) /\ Covered(rs, st[s].pr, {s})
                     /\ st[s].status = "done" => MergedIn(rs, s)

UnitBacked(rs, p, t) ==
  /\ Covered(rs, t.run, Members(t)) /\ Covered(rs, t.pr, Members(t))
  /\ p = "fire" => t.id \notin board.sprint

CallBacked(rs, c) ==
  /\ Covered(rs, c.arg, Members(c.t))
  /\ c.op \in {"claim", "fire"} => c.t.id \notin board.sprint
  /\ c.op = "done" => \A s \in Members(c.t) : MergedIn(rs, s)

DeskBacked(rs, d) ==
  CallBacked(rs, d.call) /\ \A t \in d.todo : UnitBacked(rs, d.phase, t)

KInv ==
  /\ Plain /\ RunsWhole(runs) /\ StoriesBacked(stories, runs)
  /\ \A k \in Schedulers : DeskBacked(runs, sched[k])

\* Covers and merges only grow from table rs to table qs.
Grows(rs, qs) == \A r \in Runs : /\ rs[r].covers \subseteq qs[r].covers
                                 /\ rs[r].pr = "merged" => qs[r].pr = "merged"

\* What was right of older runs is right of newer ones.
LEMMA BackedGrows ==
  ASSUME TInv, NEW rs, NEW qs, Grows(rs, qs)
  PROVE  /\ \A s \in Stories : MergedIn(rs, s) => MergedIn(qs, s)
         /\ \A r \in Runs \cup {0}, U \in SUBSET Stories : Covered(rs, r, U) => Covered(qs, r, U)
         /\ \A st \in StoryTable : StoriesBacked(st, rs) => StoriesBacked(st, qs)
         /\ \A d \in Desks : DeskBacked(rs, d) => DeskBacked(qs, d)
<1> USE TypesNamed
<1>1. \A s \in Stories : MergedIn(rs, s) => MergedIn(qs, s)
  BY DEF MergedIn, Grows
<1>2. \A r \in Runs \cup {0}, U \in SUBSET Stories : Covered(rs, r, U) => Covered(qs, r, U)
  BY DEF Covered, Grows
<1>3. \A st \in StoryTable : StoriesBacked(st, rs) => StoriesBacked(st, qs)
  BY <1>1, <1>2 DEF StoriesBacked, StoryTable, Story
<1>4. \A t \in Units : Members(t) \subseteq Stories
  BY DEF Units, Members
<1>5. \A c \in Requests : CallBacked(rs, c) => CallBacked(qs, c)
  BY <1>1, <1>2, <1>4 DEF CallBacked, Requests
<1>6. \A p, t : t \in Units /\ UnitBacked(rs, p, t) => UnitBacked(qs, p, t)
  BY <1>2, <1>4 DEF UnitBacked, Units
<1>7. \A d \in Desks : DeskBacked(rs, d) => DeskBacked(qs, d)
  BY <1>5, <1>6 DEF DeskBacked, Desks
<1> QED
  BY <1>1, <1>2, <1>3, <1>7

\* Every pass lists units that are backed.
LEMMA WorkBacked ==
  ASSUME TInv, KInv, NEW p \in {"revive", "merge", "advance", "fire"}, NEW t \in Work(p)
  PROVE  UnitBacked(runs, p, t)
<1> USE TypesNamed
<1>1. \A s \in Stories : UnitBacked(runs, "advance", One(s))
  BY DEF One, Unit, UnitBacked, Members, Sprint, KInv, StoriesBacked
<1>2. ASSUME NEW s \in Stories \cap board.sprint,
             NEW r \in {stories[s].run, stories[s].pr}
      PROVE  Covered(runs, r, board.sprint)
  <2>1. Covered(runs, r, {s}) /\ r \in Runs \cup {0}
    BY DEF KInv, StoriesBacked, StoryTable, Story
  <2> QED
    BY <2>1 DEF Covered, KInv, RunsWhole
<1>3. ASSUME NEW r, NEW q, Covered(runs, r, board.sprint), Covered(runs, q, board.sprint)
      PROVE  UnitBacked(runs, "advance", Unit(Sprint, r, q))
  BY <1>3 DEF Unit, UnitBacked, Members, Sprint
<1>4. Covered(runs, 0, board.sprint)
  BY DEF Covered
<1>5. \A status : Having(status) \subseteq Stories
  BY DEF Having
<1>6. \A u \in RunningWork : UnitBacked(runs, "advance", u)
  <2> DEFINE S == Having("running") \cap board.sprint
             fired == {s \in S : stories[s].run # 0}
             r == IF fired = {} THEN 0 ELSE stories[Max(fired)].run
  <2>1. fired # {} => Max(fired) \in Stories \cap board.sprint
    BY <1>5, ListingEnds
  <2>2. Covered(runs, r, board.sprint)
    BY <2>1, <1>2, <1>4
  <2>3. UnitBacked(runs, "advance", Unit(Sprint, r, 0))
    BY <1>3, <1>4, <2>2
  <2>4. RunningWork \subseteq {One(s) : s \in Having("running")} \cup {Unit(Sprint, r, 0)}
    <3> HIDE DEF S, fired
    <3> QED
      BY DEF RunningWork, S, fired
  <2> HIDE DEF r
  <2> QED
    BY <1>1, <1>5, <2>3, <2>4
<1>7. \A u \in ReviewWork : UnitBacked(runs, "advance", u)
  <2> DEFINE S == Having("in_review") \cap board.sprint
             u == Unit(Sprint, stories[Min(S)].run, stories[Min(S)].pr)
  <2>1. S # {} => Min(S) \in Stories \cap board.sprint
    BY <1>5, ListingEnds
  <2>2. S # {} => UnitBacked(runs, "advance", u)
    BY <1>2, <1>3, <2>1
  <2> HIDE DEF S
  <2>3. ReviewWork \subseteq {One(s) : s \in Having("in_review")} \cup (IF S = {} THEN {} ELSE {u})
    BY DEF ReviewWork, S
  <2> HIDE DEF u
  <2> QED
    BY <1>1, <1>5, <2>2, <2>3
<1>8. \A u \in ReadyWork : UnitBacked(runs, "fire", u)
  <2>1. CASE board.unit = "story"
    <3>1. ReadyWork = {One(s) : s \in Ready(stories)} /\ board.sprint = {}
      BY <2>1 DEF ReadyWork, KInv, Plain
    <3> QED
      BY <1>1, <3>1 DEF UnitBacked, Ready
  <2>2. CASE board.unit # "story"
    <3>1. ReadyWork \subseteq {Unit(Sprint, 0, 0)}
      BY <2>2 DEF ReadyWork
    <3>2. UnitBacked(runs, "advance", Unit(Sprint, 0, 0)) /\ Unit(Sprint, 0, 0).id \notin board.sprint
      BY <1>3, <1>4 DEF Unit, Sprint
    <3> QED
      BY <3>1, <3>2 DEF UnitBacked
  <2> QED
    BY <2>1, <2>2
<1>9. p # "fire" => \A u : UnitBacked(runs, "advance", u) => UnitBacked(runs, p, u)
  BY DEF UnitBacked
<1>10. CASE p = "fire"
  BY <1>8, <1>10 DEF Work
<1>11. CASE p = "revive"
  <2>1. PICK s \in Stories : t = One(s)
    BY <1>11 DEF Work, Having
  <2> QED
    BY <1>1, <1>9, <1>11, <2>1
<1>12. CASE p = "merge" \/ p = "advance"
  BY <1>6, <1>7, <1>9, <1>12 DEF Work
<1> QED
  BY <1>10, <1>11, <1>12

\* A visit to a backed unit decides on a backed request.
LEMMA DecisionBacked ==
  ASSUME TInv, KInv, NEW p \in {"revive", "merge", "advance", "fire"},
         NEW t \in Units, UnitBacked(runs, p, t)
  PROVE  CallBacked(runs, Decision(p, t))
<1> USE TypesNamed
<1>1. CallBacked(runs, NoCall)
  BY DEF CallBacked, NoCall, Call, Covered
<1>2. \A op \in {"reset", "failed"} : CallBacked(runs, Call(op, t, 0, 0))
  BY DEF CallBacked, Call, Covered
<1>3. \A op \in {"resync", "in_review"} : CallBacked(runs, Call(op, t, t.run, 0))
  BY DEF CallBacked, Call, UnitBacked
<1>4. CallBacked(runs, Call("merge", t, t.pr, 0))
  BY DEF CallBacked, Call, UnitBacked
<1>5. t.pr # 0 /\ runs[t.pr].pr = "merged" => CallBacked(runs, Call("done", t, 0, 0))
  <2>1. t.pr \in Runs \cup {0}
    BY DEF Units
  <2> QED
    BY <2>1 DEF CallBacked, Call, UnitBacked, Covered, MergedIn
<1>6. p = "fire" => CallBacked(runs, Call("claim", t, 0, 0))
  BY DEF CallBacked, Call, UnitBacked, Covered
<1>7. CallBacked(runs, Revive(t))
  BY <1>1, <1>3 DEF Revive
<1>8. CallBacked(runs, Reconcile(t))
  BY <1>1, <1>2, <1>4, <1>5 DEF Reconcile
<1>9. CallBacked(runs, Advance(t))
  BY <1>1, <1>2, <1>3 DEF Advance, RunOver, Park
<1> QED
  BY <1>1, <1>6, <1>7, <1>8, <1>9 DEF Decision

\* What an update of the store must respect to keep the stories backed.
LEMMA UpdateBacked ==
  ASSUME NEW rs, NEW st \in StoryTable, StoriesBacked(st, rs),
         NEW W \in SUBSET Stories, NEW to \in StoryTable,
         \A s \in W : /\ Covered(rs, to[s].run, {s}) /\ Covered(rs, to[s].pr, {s})
                      /\ to[s].status = "done" => MergedIn(rs, s)
  PROVE  StoriesBacked(Updated(st, W, to), rs)
<1> DEFINE up == Updated(st, W, to)
<1>1. \A s \in Stories : up[s] = IF s \in W THEN to[s] ELSE st[s]
  BY UpdateType
<1> HIDE DEF up
<1>2. StoriesBacked(up, rs)
  BY <1>1 DEF StoriesBacked
<1> QED
  BY <1>2 DEF up

LEMMA StoreBacked ==
  ASSUME TInv, NEW rs, NEW st \in StoryTable, StoriesBacked(st, rs),
         NEW U \in SUBSET Stories, NEW r \in Runs \cup {0}
  PROVE  /\ \A target \in {"running", "in_review", "failed", "cancelled"} :
              StoriesBacked(Moved(st, U, target), rs)
         /\ (\A s \in U : MergedIn(rs, s)) => StoriesBacked(Moved(st, U, "done"), rs)
         /\ StoriesBacked(ResetClaim(st, U), rs)
         /\ StoriesBacked(Requeued(st, U), rs)
         /\ Covered(rs, r, U) => /\ StoriesBacked(Recorded(st, U, r), rs)
                                 /\ StoriesBacked(SprintRecorded(st, U, r), rs)
                                 /\ StoriesBacked(InReview(st, U, r), rs)
<1>1. \A from : Rows(st, U, from) \in SUBSET Stories /\ Rows(st, U, from) \subseteq U
  BY DEF Rows
<1>2. \A s \in Stories : Covered(rs, st[s].run, {s}) /\ Covered(rs, st[s].pr, {s})
  BY DEF StoriesBacked
<1>3. Covered(rs, r, U) => \A s \in U : Covered(rs, r, {s})
  BY DEF Covered
<1>4. ASSUME NEW target \in {"running", "in_review", "done", "failed", "cancelled"},
             target = "done" => \A s \in U : MergedIn(rs, s)
      PROVE  StoriesBacked(Moved(st, U, target), rs)
  <2> DEFINE to == [s \in Stories |-> [st[s] EXCEPT !.status = target]]
  <2>1. to \in StoryTable
    BY DEF StoryTable, Story, Statuses
  <2>2. \A s \in Stories : to[s].run = st[s].run /\ to[s].pr = st[s].pr /\ to[s].status = target
    BY DEF StoryTable, Story
  <2>3. Moved(st, U, target) = Updated(st, Rows(st, U, LegalSources[target]), to)
    BY DEF Moved
  <2> HIDE DEF to
  <2>4. \A s \in Rows(st, U, LegalSources[target]) : /\ Covered(rs, to[s].run, {s}) /\ Covered(rs, to[s].pr, {s})
                                                     /\ to[s].status = "done" => MergedIn(rs, s)
    BY <1>1, <1>2, <1>4, <2>2
  <2> QED
    BY <1>1, <2>1, <2>3, <2>4, UpdateBacked
<1>5. StoriesBacked(ResetClaim(st, U), rs)
  <2> DEFINE to == [s \in Stories |-> [st[s] EXCEPT !.status = "backlog"]]
             W == {s \in Rows(st, U, {"running"}) : st[s].run = 0}
  <2>1. to \in StoryTable /\ W \in SUBSET Stories
    BY <1>1 DEF StoryTable, Story, Statuses
  <2>2. \A s \in Stories : to[s].run = st[s].run /\ to[s].pr = st[s].pr /\ to[s].status # "done"
    BY DEF StoryTable, Story
  <2>3. ResetClaim(st, U) = Updated(st, W, to)
    BY DEF ResetClaim
  <2> HIDE DEF to, W
  <2>4. \A s \in W : /\ Covered(rs, to[s].run, {s}) /\ Covered(rs, to[s].pr, {s})
                     /\ to[s].status = "done" => MergedIn(rs, s)
    BY <1>2, <2>1, <2>2
  <2> QED
    BY <2>1, <2>3, <2>4, UpdateBacked
<1>6. StoriesBacked(Requeued(st, U), rs)
  <2> DEFINE to == [s \in Stories |-> NewStory]
  <2>1. to \in StoryTable
    BY DEF StoryTable, Story, Statuses, NewStory
  <2>2. \A s \in Stories : to[s].run = 0 /\ to[s].pr = 0 /\ to[s].status # "done"
    BY DEF NewStory
  <2>3. Requeued(st, U) = Updated(st, Rows(st, U, {"failed"}), to)
    BY DEF Requeued
  <2> HIDE DEF to
  <2>4. \A s \in Rows(st, U, {"failed"}) : /\ Covered(rs, to[s].run, {s}) /\ Covered(rs, to[s].pr, {s})
                                           /\ to[s].status = "done" => MergedIn(rs, s)
    BY <1>1, <2>2 DEF Covered
  <2> QED
    BY <1>1, <2>1, <2>3, <2>4, UpdateBacked
<1>7. ASSUME Covered(rs, r, U)
      PROVE  StoriesBacked(Recorded(st, U, r), rs)
  <2> DEFINE to == [s \in Stories |-> [st[s] EXCEPT !.status = "running", !.run = r]]
  <2>1. to \in StoryTable
    BY DEF StoryTable, Story, Statuses
  <2>2. \A s \in Stories : to[s].run = r /\ to[s].pr = st[s].pr /\ to[s].status # "done"
    BY DEF StoryTable, Story
  <2>3. Recorded(st, U, r) = Updated(st, U, to)
    BY DEF Recorded
  <2> HIDE DEF to
  <2>4. \A s \in U : /\ Covered(rs, to[s].run, {s}) /\ Covered(rs, to[s].pr, {s})
                     /\ to[s].status = "done" => MergedIn(rs, s)
    BY <1>2, <1>3, <1>7, <2>2
  <2> QED
    BY <2>1, <2>3, <2>4, UpdateBacked
<1>8. ASSUME Covered(rs, r, U)
      PROVE  StoriesBacked(SprintRecorded(st, U, r), rs)
  <2> DEFINE to == [s \in Stories |-> [st[s] EXCEPT !.run = r]]
  <2>1. to \in StoryTable
    BY DEF StoryTable, Story, Statuses
  <2>2. \A s \in Stories : to[s].run = r /\ to[s].pr = st[s].pr /\ to[s].status = st[s].status
    BY DEF StoryTable, Story
  <2>3. SprintRecorded(st, U, r) = Updated(st, Rows(st, U, NotEnded), to)
    BY DEF SprintRecorded
  <2>4. \A s \in Rows(st, U, NotEnded) : st[s].status # "done"
    BY DEF Rows, NotEnded
  <2> HIDE DEF to
  <2>5. \A s \in Rows(st, U, NotEnded) : /\ Covered(rs, to[s].run, {s}) /\ Covered(rs, to[s].pr, {s})
                                         /\ to[s].status = "done" => MergedIn(rs, s)
    BY <1>1, <1>2, <1>3, <1>8, <2>2, <2>4
  <2> QED
    BY <1>1, <2>1, <2>3, <2>5, UpdateBacked
<1>9. ASSUME Covered(rs, r, U)
      PROVE  StoriesBacked(InReview(st, U, r), rs)
  <2> DEFINE to == [s \in Stories |-> [st[s] EXCEPT !.status = "in_review", !.pr = r]]
  <2>1. to \in StoryTable
    BY DEF StoryTable, Story, Statuses
  <2>2. \A s \in Stories : to[s].run = st[s].run /\ to[s].pr = r /\ to[s].status # "done"
    BY DEF StoryTable, Story
  <2>3. InReview(st, U, r) = Updated(st, Rows(st, U, LegalSources["in_review"]), to)
    BY DEF InReview
  <2> HIDE DEF to
  <2>4. \A s \in Rows(st, U, LegalSources["in_review"]) : /\ Covered(rs, to[s].run, {s}) /\ Covered(rs, to[s].pr, {s})
                                                          /\ to[s].status = "done" => MergedIn(rs, s)
    BY <1>1, <1>2, <1>3, <1>9, <2>2
  <2> QED
    BY <1>1, <2>1, <2>3, <2>4, UpdateBacked
<1> QED
  BY <1>4, <1>5, <1>6, <1>7, <1>8, <1>9

\* Serving a backed request keeps the runs whole and the stories backed; a run
\* it fires covers the stories it is for, and a merge it grants is a merge.
LEMMA ServeBacked ==
  ASSUME TInv, KInv, NEW c \in Requests, WellFormed(c), c # NoCall, CallBacked(runs, c),
         NEW o \in Outcomes(c)
  PROVE  /\ RunsWhole(o.runs) /\ Grows(runs, o.runs) /\ StoriesBacked(o.stories, o.runs)
         /\ c.op = "fire" /\ o.ok => Covered(o.runs, o.run, Members(c.t))
         /\ c.op = "merge" /\ o.ok => o.runs[c.arg].pr = "merged"
<1> USE TypesNamed
<1> DEFINE U == Members(c.t)
           Sound(x) == /\ RunsWhole(x.runs) /\ Grows(runs, x.runs)
                       /\ StoriesBacked(x.stories, x.runs)
                       /\ c.op = "fire" /\ x.ok => Covered(x.runs, x.run, U)
                       /\ c.op = "merge" /\ x.ok => x.runs[c.arg].pr = "merged"
<1>1. U \in SUBSET Stories /\ c.arg \in Runs \cup {0} /\ Covered(runs, c.arg, U)
  BY DEF Members, Requests, Units, CallBacked
<1>2. /\ RunsWhole(runs) /\ StoriesBacked(stories, runs)
      /\ StoriesBacked(stories, runs) /\ Grows(runs, runs)
  BY DEF KInv, Grows
<1>3. ASSUME NEW st, StoriesBacked(st, runs), NEW ok, NEW r, c.op \notin {"fire", "merge"}
      PROVE  Sound(Outcome(st, runs, ok, r))
  BY <1>2, <1>3 DEF Outcome
<1>4. ASSUME c.op = "claim"
      PROVE  Sound(ServeClaim(U))
  <2>1. StoriesBacked(Claimed(stories, U), runs)
    BY <1>1, <1>2, StoreBacked DEF Claimed
  <2> HIDE DEF U, Sound
  <2> QED
    BY <1>2, <1>3, <1>4, <2>1 DEF ServeClaim
<1>5. ASSUME c.op = "fire"
      PROVE  Sound(ServeFire(U))
  <2>1. CASE Unborn = {}
    BY <2>1, <1>2, <1>5 DEF ServeFire, Outcome
  <2>2. CASE Unborn # {}
    <3> DEFINE r == CHOOSE x \in Unborn : TRUE
               rs == [runs EXCEPT ![r].status = "RUNNING", ![r].covers = U]
    <3>1. r \in Runs /\ runs[r].status = "unborn"
      BY <2>2 DEF Unborn
    <3>2. ServeFire(U) = Outcome(stories, rs, TRUE, r)
      BY <2>2 DEF ServeFire
    <3> HIDE DEF r
    <3>3. runs[r].covers = {} /\ runs[r].pr = "none"
      BY <3>1, <1>2 DEF RunsWhole
    <3>4. \A q \in Runs : rs[q] = IF q = r THEN [runs[q] EXCEPT !.status = "RUNNING", !.covers = U]
                                  ELSE runs[q]
      BY <3>1 DEF RunTable
    <3>5. /\ rs[r].status = "RUNNING" /\ rs[r].covers = U /\ rs[r].pr = "none"
          /\ \A q \in Runs \ {r} : rs[q] = runs[q]
      BY <3>1, <3>3, <3>4 DEF RunTable
    <3>6. U \cap board.sprint # {} => board.sprint \subseteq U
      BY <1>5 DEF CallBacked, Members
    <3> HIDE DEF rs, U
    <3>7. RunsWhole(rs)
      BY <1>2, <3>5, <3>6 DEF RunsWhole
    <3>8. Grows(runs, rs)
      BY <3>3, <3>5 DEF Grows
    <3>9. StoriesBacked(stories, rs)
      BY <1>2, <3>8, BackedGrows
    <3>10. Covered(rs, r, U)
      BY <3>5 DEF Covered
    <3> QED
      BY <1>5, <3>2, <3>7, <3>8, <3>9, <3>10 DEF Outcome
  <2> QED
    BY <2>1, <2>2
<1>6. ASSUME c.op \in {"record", "resync"}
      PROVE  Sound(ServeRecord(c.t, c.arg))
  <2>1. c.t.id = Sprint => U = board.sprint
    BY DEF Members
  <2> HIDE DEF U
  <2>2. /\ StoriesBacked(SprintRecorded(stories, U, c.arg), runs)
        /\ StoriesBacked(Recorded(stories, U, c.arg), runs)
    BY <1>1, <1>2, StoreBacked
  <2>3. ServeRecord(c.t, c.arg) =
          IF c.t.id = Sprint
          THEN Outcome(SprintRecorded(stories, U, c.arg), runs, TRUE, 0)
          ELSE IF CanRecord(stories, U) THEN Outcome(Recorded(stories, U, c.arg), runs, TRUE, 0)
          ELSE Outcome(stories, runs, FALSE, 0)
    BY <2>1 DEF ServeRecord, U, CanRecord
  <2> HIDE DEF Sound
  <2> QED
    BY <1>2, <1>3, <1>6, <2>2, <2>3
<1>7. ASSUME c.op = "merge", NEW x \in ServeMerge(c.arg)
      PROVE  Sound(x)
  <2> DEFINE p == c.arg
             rs == [runs EXCEPT ![p].pr = "merged"]
  <2>1. p \in Runs
    BY <1>7 DEF WellFormed
  <2>2. ASSUME runs[p].pr = "open"
        PROVE  Sound(Outcome(stories, rs, TRUE, 0))
    <3>1. runs[p].status = "DONE"
      BY <1>2, <2>1, <2>2 DEF RunsWhole
    <3>2. \A q \in Runs : rs[q].covers = runs[q].covers /\ rs[q].status = runs[q].status
      BY <2>1 DEF RunTable
    <3>3. rs[p].pr = "merged" /\ \A q \in Runs \ {p} : rs[q].pr = runs[q].pr
      BY <2>1 DEF RunTable
    <3> HIDE DEF rs
    <3>4. RunsWhole(rs)
      BY <1>2, <3>1, <3>2, <3>3 DEF RunsWhole
    <3>5. Grows(runs, rs)
      BY <3>2, <3>3 DEF Grows
    <3>6. StoriesBacked(stories, rs)
      BY <1>2, <3>5, BackedGrows
    <3> QED
      BY <1>7, <3>3, <3>4, <3>5, <3>6 DEF Outcome
  <2>3. ASSUME NEW ok, ok => runs[p].pr = "merged"
        PROVE  Sound(Outcome(stories, runs, ok, 0))
    BY <1>2, <1>7, <2>3 DEF Outcome
  <2> HIDE DEF Sound
  <2>4. CASE runs[p].pr = "open"
    BY <1>7, <2>2, <2>3, <2>4 DEF ServeMerge
  <2>5. CASE runs[p].pr # "open"
    BY <1>7, <2>3, <2>5 DEF ServeMerge
  <2> QED
    BY <2>4, <2>5
<1>8. /\ StoriesBacked(ResetClaim(stories, U), runs)
      /\ StoriesBacked(InReview(stories, U, c.arg), runs)
      /\ StoriesBacked(Moved(stories, U, "failed"), runs)
      /\ c.op = "done" => StoriesBacked(Moved(stories, U, "done"), runs)
  <2>1. c.op = "done" => \A s \in U : MergedIn(runs, s)
    BY DEF CallBacked
  <2> HIDE DEF U
  <2> QED
    BY <1>1, <1>2, <2>1, StoreBacked
<1>9. c.op \in Ops \ {"none"}
  BY DEF WellFormed, Requests
<1> HIDE DEF Sound
<1>10. Sound(o)
  <2> HIDE DEF U
  <2>1. CASE c.op = "claim"
    BY <1>4, <2>1 DEF Outcomes, U
  <2>2. CASE c.op = "fire"
    BY <1>5, <2>2 DEF Outcomes, U
  <2>3. CASE c.op \in {"record", "resync"}
    BY <1>6, <2>3 DEF Outcomes
  <2>4. CASE c.op = "merge"
    BY <1>7, <2>4 DEF Outcomes
  <2>5. CASE c.op \in {"reset", "in_review", "done", "failed"}
    <3>1. \/ o = Outcome(ResetClaim(stories, U), runs, TRUE, 0)
          \/ o = Outcome(InReview(stories, U, c.arg), runs, TRUE, 0)
          \/ o = Outcome(Moved(stories, U, "failed"), runs, TRUE, 0)
          \/ c.op = "done" /\ o = Outcome(Moved(stories, U, "done"), runs, TRUE, 0)
      BY <2>5 DEF Outcomes, U
    <3>2. c.op \notin {"fire", "merge"}
      BY <2>5
    <3> QED
      BY <1>3, <1>8, <3>1, <3>2
  <2> QED
    BY <1>9, <2>1, <2>2, <2>3, <2>4, <2>5 DEF Ops
<1> QED
  BY <1>10 DEF Sound

\* The request that follows an answer is backed by the runs after it.
LEMMA ThenBacked ==
  ASSUME TInv, NEW k \in Schedulers, NEW c \in Requests, WellFormed(c),
         NEW ok \in BOOLEAN, NEW r \in Runs \cup {0}, NEW rs, CallBacked(rs, c),
         c.op = "fire" /\ ok => Covered(rs, r, Members(c.t)),
         c.op = "merge" /\ ok => rs[c.arg].pr = "merged"
  PROVE  CallBacked(rs, Then(k, c, ok, r))
<1>1. CallBacked(rs, NoCall)
  BY DEF CallBacked, NoCall, Call, Covered
<1>2. \A op \in {"reset", "failed"} : CallBacked(rs, Call(op, c.t, 0, 0))
  BY DEF CallBacked, Call, Covered
<1>3. c.op = "claim" => CallBacked(rs, Call("fire", c.t, 0, 0))
  BY DEF CallBacked, Call, Covered
<1>4. c.op = "fire" /\ ok => CallBacked(rs, Call("record", c.t, r, 1))
  BY DEF CallBacked, Call
<1>5. CallBacked(rs, Call("record", c.t, c.arg, c.again - 1))
  BY DEF CallBacked, Call
<1>6. c.op = "merge" /\ ok => CallBacked(rs, Call("done", c.t, 0, 0))
  <2>1. c.op = "merge" => c.arg \in Runs /\ c.arg # 0
    BY TypesNamed DEF WellFormed
  <2>2. c.op = "merge" /\ ok => \A s \in Members(c.t) : MergedIn(rs, s)
    BY <2>1 DEF CallBacked, Covered, MergedIn
  <2> QED
    BY <2>2 DEF CallBacked, Call, Covered
<1> QED
  BY <1>1, <1>2, <1>3, <1>4, <1>5, <1>6 DEF Then, Fired, MergeTried

\* The desk a scheduler has after an answer or a visit, and the others.
LEMMA DesksBacked ==
  ASSUME TInv, KInv, NEW k \in Schedulers, NEW rs, Grows(runs, rs), NEW d,
         \A j \in Schedulers : sched'[j] = IF j = k THEN d ELSE sched[j],
         DeskBacked(rs, d)
  PROVE  \A j \in Schedulers : DeskBacked(rs, sched'[j])
  BY TypesNamed, BackedGrows DEF KInv

LEMMA AnsweredBacked ==
  ASSUME TInv, KInv, NEW k \in Schedulers, NEW ok \in BOOLEAN, NEW r \in Runs \cup {0},
         NEW rs, Grows(runs, rs), Answered(k, sched[k].call, ok, r),
         sched[k].call.op = "fire" /\ ok => Covered(rs, r, Members(sched[k].call.t)),
         sched[k].call.op = "merge" /\ ok => rs[sched[k].call.arg].pr = "merged"
  PROVE  \A j \in Schedulers : DeskBacked(rs, sched'[j])
<1> DEFINE c == sched[k].call
           e == Then(k, c, ok, r)
           d == sched'[k]
<1>1. c \in Requests /\ WellFormed(c) /\ sched[k] \in Desks /\ DeskBacked(rs, sched[k])
  BY TypesNamed, BackedGrows DEF Desks, KInv
<1>2. CallBacked(rs, e)
  BY <1>1, ThenBacked DEF DeskBacked
<1>3. /\ \A j \in Schedulers \ {k} : sched'[j] = sched[j]
      /\ d.call = e /\ d.todo = sched[k].todo /\ d.phase = sched[k].phase
  <2>1. sched \in [Schedulers -> Desks]
    BY DEF TInv, TypeOK, Desks, Requests
  <2> HIDE DEF e
  <2> QED
    BY <2>1 DEF Answered, e, Desks
<1>4. DeskBacked(rs, d)
  <2> HIDE DEF e, d
  <2> QED
    BY <1>1, <1>2, <1>3 DEF DeskBacked
<1> HIDE DEF d
<1> QED
  BY <1>3, <1>4, DesksBacked DEF d

\* What a step that keeps everything backed has to show.
Backed ==
  /\ board' = board /\ RunsWhole(runs') /\ StoriesBacked(stories', runs')
  /\ \A k \in Schedulers : DeskBacked(runs', sched'[k])

LEMMA BackedIsBacked == KInv /\ Backed => KInv'
  BY DEF KInv, Backed, Plain, RunsWhole, StoriesBacked, DeskBacked, UnitBacked, CallBacked,
         Members, MergedIn, Covered

LEMMA SchedulerStepBacked ==
  ASSUME TInv, KInv, NEW k \in Schedulers,
         Cycle(k) \/ Unread(k) \/ Lost(k) \/ Unheard(k) \/ Unlisted(k) \/ Crash(k)
  PROVE  Backed
<1> USE TypesNamed
<1> DEFINE c == sched[k].call
<1>1. /\ c \in Requests /\ WellFormed(c)
      /\ sched[k].phase \in {"revive", "merge", "advance", "fire"}
      /\ sched[k].todo \subseteq Units
      /\ sched \in [Schedulers -> Desks]
  BY DEF Desks, TInv, TypeOK, Requests
<1>2. /\ RunsWhole(runs) /\ StoriesBacked(stories, runs) /\ Grows(runs, runs)
      /\ CallBacked(runs, c) /\ \A t \in sched[k].todo : UnitBacked(runs, sched[k].phase, t)
  BY DEF KInv, DeskBacked, Grows
<1>3. CallBacked(runs, NoCall)
  BY DEF CallBacked, NoCall, Call, Covered
<1>4. ASSUME NEW d, sched' = [sched EXCEPT ![k] = d], DeskBacked(runs, d),
             UNCHANGED <<board, stories, runs>>
      PROVE  Backed
  <2>1. \A j \in Schedulers : sched'[j] = IF j = k THEN d ELSE sched[j]
    BY <1>1, <1>4
  <2>2. \A j \in Schedulers : DeskBacked(runs, sched'[j])
    BY <1>2, <1>4, <2>1, DesksBacked
  <2> QED
    BY <1>2, <1>4, <2>2 DEF Backed
<1>5. CASE List(k)
  <2> DEFINE p == NextPhase(sched[k].phase)
             d == [sched[k] EXCEPT !.phase = p, !.todo = Work(p)]
  <2>1. p \in {"revive", "merge", "advance", "fire"}
    <3>1. \A j \in 1..4 : Phases[(j % 4) + 1] \in {"revive", "merge", "advance", "fire"}
      BY DEF Phases
    <3>2. \E j \in 1..4 : Phases[j] = sched[k].phase
      BY <1>1 DEF Phases
    <3> QED
      BY <3>1, <3>2 DEF NextPhase
  <2> HIDE DEF p
  <2>2. \A t \in Work(p) : UnitBacked(runs, p, t)
    BY <2>1, WorkBacked
  <2>3. d.phase = p /\ d.todo = Work(p) /\ d.call = c
    BY DEF Desks
  <2>4. sched' = [sched EXCEPT ![k] = d] /\ UNCHANGED <<board, stories, runs>>
    BY <1>5 DEF List, p
  <2> HIDE DEF d
  <2>5. DeskBacked(runs, d)
    BY <1>2, <2>2, <2>3 DEF DeskBacked
  <2> QED
    BY <1>4, <2>4, <2>5
<1>6. CASE Visit(k)
  <2>1. PICK t \in sched[k].todo :
          sched' = [sched EXCEPT
            ![k].todo = @ \ {t}, ![k].call = Decision(sched[k].phase, t),
            ![k].fails[t.id] = IF Decision(sched[k].phase, t).op = "done" THEN 0 ELSE @]
    BY <1>6 DEF Visit
  <2> DEFINE e == Decision(sched[k].phase, t)
             f == [sched[k].fails EXCEPT ![t.id] = IF e.op = "done" THEN 0 ELSE @]
             d == [sched[k] EXCEPT !.todo = @ \ {t}, !.call = e, !.fails = f]
  <2>2. CallBacked(runs, e)
    BY <1>1, <1>2, DecisionBacked
  <2>3. sched' = [sched EXCEPT ![k] = d] /\ UNCHANGED <<board, stories, runs>>
    <3>1. sched' = [sched EXCEPT ![k] = d]
      <4> HIDE DEF e
      <4> QED
        BY <2>1 DEF e
    <3> QED
      BY <3>1, <1>6 DEF Visit
  <2> HIDE DEF e, f
  <2>4. d.phase = sched[k].phase /\ d.todo \subseteq sched[k].todo /\ d.call = e
    BY DEF Desks
  <2> HIDE DEF d
  <2>5. DeskBacked(runs, d)
    BY <1>2, <2>2, <2>4 DEF DeskBacked
  <2> QED
    BY <1>4, <2>3, <2>5
<1>7. CASE Unread(k)
  <2> DEFINE Made(t, e) == sched' = [sched EXCEPT ![k].todo = @ \ {t}, ![k].call = e]
  <2>1. PICK t \in sched[k].todo :
          \/ Made(t, NoCall)
          \/ \E p \in {0, PRof(t.run)} : Made(t, Call("in_review", t, p, 0))
    <3>1. PICK t \in sched[k].todo :
            LET parked == sched[k].phase = "advance" /\ StatusOf(t) = "DONE"
                calls == IF parked THEN {Call("in_review", t, p, 0) : p \in {0, PRof(t.run)}}
                         ELSE {}
            IN \E e \in calls \cup {NoCall} : Made(t, e)
      BY <1>7 DEF Unread
    <3> HIDE DEF Made
    <3> QED
      BY <3>1
  <2>2. \A p \in {0, PRof(t.run)} : CallBacked(runs, Call("in_review", t, p, 0))
    BY <1>2 DEF PRof, UnitBacked, CallBacked, Call, Covered
  <2>3. PICK e : CallBacked(runs, e) /\ Made(t, e)
    <3> HIDE DEF Made
    <3> QED
      BY <1>3, <2>1, <2>2
  <2> DEFINE d == [sched[k] EXCEPT !.todo = @ \ {t}, !.call = e]
  <2>4. d.phase = sched[k].phase /\ d.todo \subseteq sched[k].todo /\ d.call = e
    BY DEF Desks
  <2>5. sched' = [sched EXCEPT ![k] = d] /\ UNCHANGED <<board, stories, runs>>
    BY <1>7, <2>3 DEF Unread
  <2> HIDE DEF d
  <2>6. DeskBacked(runs, d)
    BY <1>2, <2>3, <2>4 DEF DeskBacked
  <2> QED
    BY <1>4, <2>5, <2>6
<1>8. CASE Send(k)
  <2>1. PICK o \in Outcomes(c) : /\ c # NoCall
                                 /\ stories' = o.stories /\ runs' = o.runs /\ board' = board
                                 /\ Answered(k, c, o.ok, o.run)
    BY <1>8 DEF Send
  <2>2. /\ RunsWhole(o.runs) /\ Grows(runs, o.runs) /\ StoriesBacked(o.stories, o.runs)
        /\ c.op = "fire" /\ o.ok => Covered(o.runs, o.run, Members(c.t))
        /\ c.op = "merge" /\ o.ok => o.runs[c.arg].pr = "merged"
    BY <1>1, <1>2, <2>1, ServeBacked
  <2>3. o.ok \in BOOLEAN /\ o.run \in Runs \cup {0}
    BY <1>1, <2>1, ServeType
  <2>4. \A j \in Schedulers : DeskBacked(o.runs, sched'[j])
    BY <2>1, <2>2, <2>3, AnsweredBacked
  <2> QED
    BY <2>1, <2>2, <2>4 DEF Backed
<1>9. CASE Lost(k)
  <2>1. \A j \in Schedulers : DeskBacked(runs, sched'[j])
    BY <1>2, <1>9, AnsweredBacked DEF Lost
  <2> QED
    BY <1>2, <1>9, <2>1 DEF Lost, Backed
<1>10. CASE Unheard(k)
  <2>1. PICK o \in Outcomes(c) : c # NoCall /\ stories' = o.stories /\ runs' = o.runs
    BY <1>10 DEF Unheard
  <2>2. RunsWhole(o.runs) /\ Grows(runs, o.runs) /\ StoriesBacked(o.stories, o.runs)
    BY <1>1, <1>2, <2>1, ServeBacked
  <2>3. Answered(k, c, FALSE, 0) /\ board' = board
    BY <1>10 DEF Unheard
  <2>4. \A j \in Schedulers : DeskBacked(o.runs, sched'[j])
    BY <2>2, <2>3, AnsweredBacked
  <2> QED
    BY <2>1, <2>2, <2>3, <2>4 DEF Backed
<1>11. CASE Unlisted(k)
  <2> DEFINE e == Call("failed", c.t, 0, 0)
             d == [sched[k] EXCEPT !.call = e]
  <2>1. CallBacked(runs, e)
    BY DEF CallBacked, Call, Covered
  <2>2. sched' = [sched EXCEPT ![k] = d] /\ UNCHANGED <<board, stories, runs>>
    BY <1>11 DEF Unlisted
  <2> HIDE DEF e
  <2>3. DeskBacked(runs, d)
    BY <1>2, <2>1 DEF DeskBacked, Desks
  <2> HIDE DEF d
  <2> QED
    BY <1>4, <2>2, <2>3
<1>12. CASE Crash(k)
  <2>1. DeskBacked(runs, Idle)
    BY <1>3 DEF DeskBacked, Idle
  <2> QED
    BY <1>4, <1>12, <2>1 DEF Crash
<1> QED
  BY <1>5, <1>6, <1>7, <1>8, <1>9, <1>10, <1>11, <1>12 DEF Cycle

LEMMA OtherStepBacked ==
  ASSUME TInv, KInv,
         \/ \E r \in Runs : RunEnds(r) \/ RunRevives(r) \/ PersonSettles(r) \/ RequeueRun(r)
         \/ \E s \in Stories : Requeue(s) \/ Cancel(s)
  PROVE  Backed
<1> USE TypesNamed
<1>1. /\ RunsWhole(runs) /\ StoriesBacked(stories, runs)
      /\ \A k \in Schedulers : sched[k] \in Desks /\ DeskBacked(runs, sched[k])
  BY DEF KInv
\* A step of the runs that neither uncovers a story nor undoes a merge.
<1>2. ASSUME NEW rs, RunsWhole(rs), Grows(runs, rs), runs' = rs,
             UNCHANGED <<board, stories, sched>>
      PROVE  Backed
  <2>1. StoriesBacked(stories, rs) /\ \A k \in Schedulers : DeskBacked(rs, sched[k])
    BY <1>1, <1>2, BackedGrows
  <2> QED
    BY <1>2, <2>1 DEF Backed
<1>3. ASSUME NEW r \in Runs, RunEnds(r)
      PROVE  Backed
  <2>1. PICK status \in {"DONE", "FAILED"}, pr \in {"open", "none"} :
          Ends(r, status, pr) /\ (status # "DONE" => pr = "none")
    BY <1>3 DEF RunEnds
  <2> DEFINE rs == [runs EXCEPT ![r].status = status, ![r].pr = pr]
  <2>2. \A q \in Runs : rs[q].covers = runs[q].covers
    BY DEF RunTable
  <2>3. /\ rs[r].status = status /\ rs[r].pr = pr
        /\ \A q \in Runs \ {r} : rs[q] = runs[q]
    BY DEF RunTable
  <2>4. runs' = rs /\ runs[r].status = "RUNNING" /\ UNCHANGED <<board, stories, sched>>
    BY <2>1 DEF Ends
  <2> HIDE DEF rs
  <2>5. RunsWhole(rs)
    BY <1>1, <2>1, <2>2, <2>3 DEF RunsWhole
  <2>6. Grows(runs, rs)
    BY <1>1, <2>2, <2>3, <2>4 DEF Grows, RunsWhole
  <2> QED
    BY <1>2, <2>4, <2>5, <2>6
<1>4. ASSUME NEW r \in Runs, RunRevives(r)
      PROVE  Backed
  <2> DEFINE rs == [runs EXCEPT ![r].status = "RUNNING"]
  <2>1. \A q \in Runs : rs[q].covers = runs[q].covers /\ rs[q].pr = runs[q].pr
    BY DEF RunTable
  <2>2. rs[r].status = "RUNNING" /\ \A q \in Runs \ {r} : rs[q] = runs[q]
    BY DEF RunTable
  <2>3. runs' = rs /\ runs[r].status = "FAILED" /\ UNCHANGED <<board, stories, sched>>
    BY <1>4 DEF RunRevives
  <2> HIDE DEF rs
  <2>4. RunsWhole(rs)
    BY <1>1, <2>1, <2>2, <2>3 DEF RunsWhole
  <2>5. Grows(runs, rs)
    BY <2>1 DEF Grows
  <2> QED
    BY <1>2, <2>3, <2>4, <2>5
<1>5. ASSUME NEW r \in Runs, PersonSettles(r)
      PROVE  Backed
  <2>1. PICK pr \in {"merged", "closed"} : runs' = [runs EXCEPT ![r].pr = pr]
    BY <1>5 DEF PersonSettles
  <2> DEFINE rs == [runs EXCEPT ![r].pr = pr]
  <2>2. \A q \in Runs : rs[q].covers = runs[q].covers /\ rs[q].status = runs[q].status
    BY DEF RunTable
  <2>3. \A q \in Runs \ {r} : rs[q] = runs[q]
    BY DEF RunTable
  <2>4. runs' = rs /\ runs[r].pr = "open" /\ UNCHANGED <<board, stories, sched>>
    BY <1>5, <2>1 DEF PersonSettles
  <2> HIDE DEF rs
  <2>5. runs[r].status = "DONE"
    BY <1>1, <2>4 DEF RunsWhole
  <2>6. RunsWhole(rs)
    BY <1>1, <2>2, <2>3, <2>5 DEF RunsWhole
  <2>7. Grows(runs, rs)
    BY <2>2, <2>3, <2>4 DEF Grows
  <2> QED
    BY <1>2, <2>4, <2>6, <2>7
<1>6. ASSUME NEW st, StoriesBacked(st, runs), Edited(st)
      PROVE  Backed
  BY <1>1, <1>6 DEF Edited, Backed
<1>7. \A U \in SUBSET Stories : /\ StoriesBacked(Requeued(stories, U), runs)
                               /\ StoriesBacked(Moved(stories, U, "cancelled"), runs)
  BY <1>1, StoreBacked
<1>8. ASSUME NEW r \in Runs, RequeueRun(r)
      PROVE  Backed
  BY <1>6, <1>7, <1>8 DEF RequeueRun
<1>9. ASSUME NEW s \in Stories, Requeue(s) \/ Cancel(s)
      PROVE  Backed
  BY <1>6, <1>7, <1>9 DEF Requeue, Cancel
<1> QED
  BY <1>3, <1>4, <1>5, <1>8, <1>9

LEMMA NextBacked == TInv /\ KInv /\ [Next]_vars => Backed
<1> SUFFICES ASSUME TInv, KInv, [Next]_vars
             PROVE  Backed
  OBVIOUS
<1>1. CASE UNCHANGED vars
  BY <1>1 DEF vars, KInv, Backed
<1>2. CASE Next
  BY <1>2, SchedulerStepBacked, OtherStepBacked DEF Next
<1> QED
  BY <1>1, <1>2

LEMMA InitBacked == OnlyPlainBoards /\ Init => KInv
<1> SUFFICES ASSUME OnlyPlainBoards, Init
             PROVE  KInv
  OBVIOUS
<1>1. Plain
  BY DEF OnlyPlainBoards, Init, Plain
<1>2. RunsWhole(runs)
  BY DEF Init, RunsWhole
<1>3. StoriesBacked(stories, runs)
  BY DEF Init, StoriesBacked, NewStory, Covered
<1>4. DeskBacked(runs, Idle)
  BY DEF DeskBacked, Idle, CallBacked, NoCall, Call, Covered
<1> QED
  BY <1>1, <1>2, <1>3, <1>4 DEF Init, KInv

\* A story is done only when the pull request of a run fired for it was
\* merged: DoneMeansMerged, for any number of schedulers, runs, lost requests,
\* restarts and edits, when no story of a sprint is fired on its own.
THEOREM MergedBeforeDone == OnlyPlainBoards => (Spec => []DoneMeansMerged)
<1>1. OnlyPlainBoards /\ Init => TInv /\ KInv
  BY InitTyped, InitBacked
<1>2. TInv /\ KInv /\ [Next]_vars => (TInv /\ KInv)'
  BY NextTyped, TypedIsTyped, NextBacked, BackedIsBacked
<1>3. KInv => DoneMeansMerged
  BY DEF KInv, StoriesBacked, MergedIn, DoneMeansMerged, Merged
<1> QED
  BY <1>1, <1>2, <1>3, PTL DEF Spec

-----------------------------------------------------------------------------
(* What the steps of a scheduler do to its desk                            *)

\* It lists the work of the next pass.
Listed(k) ==
  /\ UNCHANGED <<stories, runs, astray>>
  /\ sched[k].todo = {} /\ sched[k].call = NoCall /\ sched'[k].call = NoCall
  /\ sched[k].phase \in {"revive", "merge", "advance", "fire"}
  /\ sched'[k].phase \in {"revive", "merge", "advance", "fire"}
  /\ sched'[k].todo = Work(sched'[k].phase)

\* It visits a unit: it decides on a request, parks the unit of a DONE run or
\* leaves it for the next cycle.
Visited(k) ==
  /\ UNCHANGED <<stories, runs, astray>>
  /\ sched[k].call = NoCall /\ sched'[k].phase = sched[k].phase
  /\ \E t \in sched[k].todo :
       /\ sched'[k].todo = sched[k].todo \ {t}
       /\ \/ sched'[k].call = Decision(sched[k].phase, t)
          \/ sched'[k].call = NoCall
          \/ /\ sched[k].phase = "advance" /\ StatusOf(t) = "DONE"
             /\ \E p \in {0, PRof(t.run)} : sched'[k].call = Call("in_review", t, p, 0)

SameList(k) == sched'[k].phase = sched[k].phase /\ sched'[k].todo = sched[k].todo

\* Its request is served and answered, or served and not answered.
Served(k) ==
  LET c == sched[k].call
  IN /\ c # NoCall /\ SameList(k)
     /\ \E o \in Outcomes(c) :
          /\ stories' = o.stories /\ runs' = o.runs
          /\ \/ sched'[k].call = Then(k, c, o.ok, o.run) /\ astray' = astray
             \/ /\ sched'[k].call = Then(k, c, FALSE, 0)
                /\ astray' = astray \cup ({o.run} \ {0})

\* Its request does not arrive.
Dropped(k) ==
  /\ UNCHANGED <<stories, runs, astray>>
  /\ Lost(k) /\ sched[k].call # NoCall /\ SameList(k)
  /\ sched'[k].call = Then(k, sched[k].call, FALSE, 0)

\* It cannot read the stories of the sprint it claimed.
GaveUp(k) ==
  /\ UNCHANGED <<stories, runs, astray>>
  /\ sched[k].call.op = "fire" /\ SameList(k)
  /\ sched'[k].call = Call("failed", sched[k].call.t, 0, 0)

\* It starts afresh.
Restarted(k) ==
  LET c == sched[k].call
  IN /\ UNCHANGED <<stories, runs>> /\ sched'[k] = Idle
     /\ astray' = astray \cup (IF c.op = "record" THEN {c.arg} ELSE {})

LEMMA DeskSteps ==
  ASSUME TInv, NEW k \in Schedulers,
         Cycle(k) \/ Unread(k) \/ Lost(k) \/ Unheard(k) \/ Unlisted(k) \/ Crash(k)
  PROVE  /\ board' = board /\ \A j \in Schedulers \ {k} : sched'[j] = sched[j]
         /\ Listed(k) \/ Visited(k) \/ Served(k) \/ Dropped(k) \/ GaveUp(k) \/ Restarted(k)
<1> USE TypesNamed
<1> DEFINE c == sched[k].call
<1>1. sched \in [Schedulers -> Desks] /\ sched[k] \in Desks
  BY DEF Desks, TInv, TypeOK, Requests
<1>2. ASSUME NEW d, sched' = [sched EXCEPT ![k] = d]
      PROVE  sched'[k] = d /\ \A j \in Schedulers \ {k} : sched'[j] = sched[j]
  BY <1>1, <1>2
<1>3. ASSUME NEW ok, NEW r, Answered(k, c, ok, r)
      PROVE  /\ sched'[k].call = Then(k, c, ok, r) /\ SameList(k)
             /\ \A j \in Schedulers \ {k} : sched'[j] = sched[j]
  <2> DEFINE e == Then(k, c, ok, r)
             n == Fails(k, c, ok)
  <2>1. sched' = [sched EXCEPT ![k].call = e, ![k].fails[c.t.id] = n]
    BY <1>3 DEF Answered
  <2> HIDE DEF e, n
  <2>2. /\ sched'[k].call = e /\ SameList(k)
        /\ \A j \in Schedulers \ {k} : sched'[j] = sched[j]
    BY <1>1, <2>1 DEF Desks, SameList
  <2> QED
    BY <2>2 DEF e
<1>4. CASE List(k)
  <2> DEFINE p == NextPhase(sched[k].phase)
             d == [sched[k] EXCEPT !.phase = p, !.todo = Work(p)]
  <2>1. /\ sched[k].phase \in {"revive", "merge", "advance", "fire"}
        /\ p \in {"revive", "merge", "advance", "fire"}
    <3>1. \A j \in 1..4 : Phases[(j % 4) + 1] \in {"revive", "merge", "advance", "fire"}
      BY DEF Phases
    <3>2. \E j \in 1..4 : Phases[j] = sched[k].phase
      BY <1>1 DEF Phases, Desks
    <3> QED
      BY <1>1, <3>1, <3>2 DEF NextPhase, Desks
  <2>2. sched' = [sched EXCEPT ![k] = d] /\ UNCHANGED <<board, stories, runs, astray>>
    BY <1>4 DEF List
  <2>3. sched[k].todo = {} /\ c = NoCall
    BY <1>4 DEF List
  <2> HIDE DEF p
  <2>4. d.phase = p /\ d.todo = Work(p) /\ d.call = c
    BY <1>1 DEF Desks
  <2> HIDE DEF d
  <2> QED
    BY <1>2, <2>1, <2>2, <2>3, <2>4 DEF Listed
<1>5. CASE Visit(k)
  <2>1. PICK t \in sched[k].todo :
          sched' = [sched EXCEPT
            ![k].todo = @ \ {t}, ![k].call = Decision(sched[k].phase, t),
            ![k].fails[t.id] = IF Decision(sched[k].phase, t).op = "done" THEN 0 ELSE @]
    BY <1>5 DEF Visit
  <2> DEFINE e == Decision(sched[k].phase, t)
             f == [sched[k].fails EXCEPT ![t.id] = IF e.op = "done" THEN 0 ELSE @]
             d == [sched[k] EXCEPT !.todo = @ \ {t}, !.call = e, !.fails = f]
  <2>2. sched' = [sched EXCEPT ![k] = d]
    <3> HIDE DEF e
    <3> QED
      BY <2>1 DEF e
  <2>3. c = NoCall /\ UNCHANGED <<board, stories, runs, astray>>
    BY <1>5 DEF Visit
  <2> HIDE DEF e, f
  <2>4. d.phase = sched[k].phase /\ d.todo = sched[k].todo \ {t} /\ d.call = e
    BY <1>1 DEF Desks
  <2> HIDE DEF d
  <2> QED
    BY <1>2, <2>2, <2>3, <2>4 DEF Visited, e
<1>6. CASE Unread(k)
  <2> DEFINE Made(t, e) == sched' = [sched EXCEPT ![k].todo = @ \ {t}, ![k].call = e]
             Parked(t, e) == /\ sched[k].phase = "advance" /\ StatusOf(t) = "DONE"
                             /\ \E p \in {0, PRof(t.run)} : e = Call("in_review", t, p, 0)
  <2>1. PICK t \in sched[k].todo : \E e : Made(t, e) /\ (e = NoCall \/ Parked(t, e))
    <3>1. PICK t \in sched[k].todo :
            LET parked == sched[k].phase = "advance" /\ StatusOf(t) = "DONE"
                calls == IF parked THEN {Call("in_review", t, p, 0) : p \in {0, PRof(t.run)}}
                         ELSE {}
            IN \E e \in calls \cup {NoCall} : Made(t, e)
      BY <1>6 DEF Unread
    <3> HIDE DEF Made
    <3> QED
      BY <3>1
  <2>2. PICK e : Made(t, e) /\ (e = NoCall \/ Parked(t, e))
    BY <2>1
  <2> DEFINE d == [sched[k] EXCEPT !.todo = @ \ {t}, !.call = e]
  <2>3. d.phase = sched[k].phase /\ d.todo = sched[k].todo \ {t} /\ d.call = e
    BY <1>1 DEF Desks
  <2>4. sched' = [sched EXCEPT ![k] = d]
    BY <2>2
  <2>5. c = NoCall /\ UNCHANGED <<board, stories, runs, astray>>
    BY <1>6 DEF Unread
  <2> HIDE DEF d, Made
  <2>6. Visited(k)
    <3>1. sched'[k].todo = sched[k].todo \ {t} /\ sched'[k].call = e
      BY <1>2, <2>3, <2>4
    <3> QED
      BY <1>2, <2>2, <2>3, <2>4, <2>5, <3>1 DEF Visited
  <2> QED
    BY <1>2, <2>4, <2>5, <2>6
<1>7. CASE Send(k)
  <2>1. PICK o \in Outcomes(c) : /\ c # NoCall
                                 /\ stories' = o.stories /\ runs' = o.runs
                                 /\ Answered(k, c, o.ok, o.run)
    BY <1>7 DEF Send
  <2>2. board' = board /\ astray' = astray
    BY <1>7 DEF Send
  <2>3. /\ sched'[k].call = Then(k, c, o.ok, o.run) /\ SameList(k)
        /\ \A j \in Schedulers \ {k} : sched'[j] = sched[j]
    BY <1>3, <2>1
  <2>4. Served(k)
    BY <2>1, <2>2, <2>3 DEF Served
  <2> QED
    BY <2>2, <2>3, <2>4
<1>8. CASE Lost(k)
  <2>1. c # NoCall /\ Answered(k, c, FALSE, 0) /\ UNCHANGED <<board, stories, runs, astray>>
    BY <1>8 DEF Lost
  <2> QED
    BY <1>3, <1>8, <2>1 DEF Dropped
<1>9. CASE Unheard(k)
  <2>1. PICK o \in Outcomes(c) : /\ c # NoCall
                                 /\ stories' = o.stories /\ runs' = o.runs
                                 /\ astray' = astray \cup ({o.run} \ {0})
    BY <1>9 DEF Unheard
  <2>2. board' = board /\ Answered(k, c, FALSE, 0)
    BY <1>9 DEF Unheard
  <2> QED
    BY <1>3, <2>1, <2>2 DEF Served
<1>10. CASE Unlisted(k)
  <2> DEFINE d == [sched[k] EXCEPT !.call = Call("failed", c.t, 0, 0)]
  <2>1. /\ sched' = [sched EXCEPT ![k] = d] /\ c.op = "fire"
        /\ UNCHANGED <<board, stories, runs, astray>>
    BY <1>10 DEF Unlisted
  <2>2. d.phase = sched[k].phase /\ d.todo = sched[k].todo /\ d.call = Call("failed", c.t, 0, 0)
    BY <1>1 DEF Desks
  <2> HIDE DEF d
  <2> QED
    BY <1>2, <2>1, <2>2 DEF GaveUp, SameList
<1>11. CASE Crash(k)
  <2>1. sched' = [sched EXCEPT ![k] = Idle] /\ UNCHANGED <<board, stories, runs>>
    BY <1>11 DEF Crash
  <2> QED
    BY <1>2, <1>11, <2>1 DEF Crash, Restarted
<1> QED
  BY <1>4, <1>5, <1>6, <1>7, <1>8, <1>9, <1>10, <1>11 DEF Cycle

\* Serving a request changes what a run covers, or whether it is alive, only
\* when it fires a run, which was unborn.
LEMMA ServeRuns ==
  ASSUME TInv, NEW c \in Requests, WellFormed(c), c # NoCall, NEW o \in Outcomes(c)
  PROVE  /\ c.op # "fire" =>
              \A r \in Runs : /\ o.runs[r].covers = runs[r].covers
                              /\ o.runs[r].status = runs[r].status
         /\ c.op = "fire" =>
              /\ o.stories = stories
              /\ \/ ~o.ok /\ o.runs = runs /\ o.run = 0
                 \/ /\ o.ok /\ o.run \in Runs /\ runs[o.run].status = "unborn"
                    /\ o.runs[o.run].covers = Members(c.t)
                    /\ \A r \in Runs \ {o.run} : /\ o.runs[r].covers = runs[r].covers
                                                 /\ o.runs[r].status = runs[r].status
<1> USE TypesNamed
<1>1. c.op \in Ops \ {"none"}
  BY DEF WellFormed, Requests
<1>2. CASE c.op = "fire"
  <2>1. o = ServeFire(Members(c.t))
    BY <1>2 DEF Outcomes
  <2>2. CASE Unborn = {}
    BY <1>2, <2>1, <2>2 DEF ServeFire, Outcome
  <2>3. CASE Unborn # {}
    <3> DEFINE r == CHOOSE x \in Unborn : TRUE
               rs == [runs EXCEPT ![r].status = "RUNNING", ![r].covers = Members(c.t)]
    <3>1. r \in Runs /\ runs[r].status = "unborn"
      BY <2>3 DEF Unborn
    <3>2. o = Outcome(stories, rs, TRUE, r)
      BY <2>1, <2>3 DEF ServeFire
    <3> HIDE DEF r
    <3>3. rs[r].covers = Members(c.t) /\ \A q \in Runs \ {r} : rs[q] = runs[q]
      BY <3>1 DEF RunTable
    <3> HIDE DEF rs
    <3>4. o.stories = stories /\ o.runs = rs /\ o.run = r /\ o.ok
      BY <3>2 DEF Outcome
    <3> QED
      BY <1>2, <3>1, <3>3, <3>4
  <2> QED
    BY <2>2, <2>3
<1>3. CASE c.op = "merge"
  <2>1. c.arg \in Runs
    BY <1>3 DEF WellFormed
  <2> DEFINE rs == [runs EXCEPT ![c.arg].pr = "merged"]
  <2>2. \A r \in Runs : rs[r].covers = runs[r].covers /\ rs[r].status = runs[r].status
    BY <2>1 DEF RunTable
  <2>3. o \in ServeMerge(c.arg)
    BY <1>3 DEF Outcomes
  <2>4. o.runs \in {rs, runs}
    BY <2>3 DEF ServeMerge, Outcome
  <2> HIDE DEF rs
  <2> QED
    BY <1>3, <2>2, <2>4
<1>4. CASE c.op \notin {"fire", "merge"}
  <2>1. o.runs = runs
    BY <1>1, <1>4 DEF Outcomes, Ops, Outcome, ServeClaim, ServeRecord
  <2> QED
    BY <1>4, <2>1
<1> QED
  BY <1>2, <1>3, <1>4

-----------------------------------------------------------------------------
(***************************************************************************)
(* Dependents wait                                                         *)
(*                                                                         *)
(* The stories a unit depends on are done when the unit is listed for      *)
(* firing.  They are read only then: the claim checks that the unit's own  *)
(* stories are in the backlog, nothing looks at their dependencies again,  *)
(* and between the listing and the run anybody may take any step.  The     *)
(* invariant carries the fact from the listing through the claim and the   *)
(* request to fire into the run; it is kept because a story that is done   *)
(* stays done, and done means merged.                                      *)
(***************************************************************************)
Awaited(st, U) == \A s \in U : \A d \in Deps[s] \ U : st[d].status = "done"

DeskAwaited(st, x) ==
  /\ x.phase = "fire" => \A t \in x.todo : Awaited(st, Members(t))
  /\ x.call.op \in {"claim", "fire"} => Awaited(st, Members(x.call.t))

AInv ==
  /\ \A r \in Runs : Awaited(stories, runs[r].covers)
  /\ \A k \in Schedulers : DeskAwaited(stories, sched[k])

\* A step of which this is shown keeps AInv.
Awaits ==
  /\ board' = board
  /\ \A r \in Runs : Awaited(stories', runs'[r].covers)
  /\ \A k \in Schedulers : DeskAwaited(stories', sched'[k])

\* What was waited for stays done.
LEMMA AwaitedKept ==
  ASSUME TInv, NEW st, Keeps(stories, st)
  PROVE  /\ \A U \in SUBSET Stories : Awaited(stories, U) => Awaited(st, U)
         /\ \A x \in Desks : DeskAwaited(stories, x) => DeskAwaited(st, x)
<1> USE TypesNamed
<1>1. \A U \in SUBSET Stories : Awaited(stories, U) => Awaited(st, U)
  BY TicketAssumption DEF Awaited, Keeps
<1>2. \A t \in Units : Members(t) \in SUBSET Stories
  BY DEF Units, Members
<1>3. ASSUME NEW x \in Desks, DeskAwaited(stories, x)
      PROVE  DeskAwaited(st, x)
  <2>1. x.todo \subseteq Units /\ x.call.t \in Units
    BY DEF Desks, Requests
  <2> QED
    BY <1>1, <1>2, <1>3, <2>1 DEF DeskAwaited
<1> QED
  BY <1>1, <1>3

\* Ready, SprintReady: what is listed for firing waits for nothing.
LEMMA ReadyAwaited ==
  ASSUME TInv, NEW t \in Work("fire")
  PROVE  Awaited(stories, Members(t))
<1> USE TypesNamed
<1>1. t \in ReadyWork
  BY DEF Work
<1>2. ASSUME NEW s \in Ready(stories), t = One(s)
      PROVE  Awaited(stories, Members(t))
  <2>1. Members(t) = {s}
    BY <1>2 DEF Members, One, Unit, Sprint, Ready
  <2> QED
    BY <1>2, <2>1 DEF Ready, depsDone, Awaited
<1>3. ASSUME SprintReady(stories, board.sprint), t = Unit(Sprint, 0, 0)
      PROVE  Awaited(stories, Members(t))
  BY <1>3 DEF Members, Unit, SprintReady, depsDone, Awaited
<1> QED
  BY <1>1, <1>2, <1>3 DEF ReadyWork

LEMMA SchedulerStepAwaits ==
  ASSUME TInv, AInv, NEW k \in Schedulers, Keeps(stories, stories'),
         Cycle(k) \/ Unread(k) \/ Lost(k) \/ Unheard(k) \/ Unlisted(k) \/ Crash(k)
  PROVE  Awaits
<1> USE TypesNamed
<1> DEFINE c == sched[k].call
           d == sched'[k]
<1>1. /\ board' = board /\ \A j \in Schedulers \ {k} : sched'[j] = sched[j]
      /\ Listed(k) \/ Visited(k) \/ Served(k) \/ Dropped(k) \/ GaveUp(k) \/ Restarted(k)
  BY DeskSteps
<1>2. /\ \A r \in Runs : Awaited(stories', runs[r].covers)
      /\ \A j \in Schedulers : DeskAwaited(stories', sched[j])
  BY AwaitedKept DEF AInv, RunTable
<1>3. c \in Requests /\ WellFormed(c) /\ sched[k].todo \subseteq Units
  BY DEF Desks
<1>4. ASSUME DeskAwaited(stories', d),
             \A r \in Runs : Awaited(stories', runs'[r].covers)
      PROVE  Awaits
  BY <1>1, <1>2, <1>4 DEF Awaits
\* An answer leads from a claim to the request to fire, and nowhere else.
<1>5. ASSUME NEW ok, NEW r, d.call = Then(k, c, ok, r), SameList(k)
      PROVE  DeskAwaited(stories', d)
  <2>1. d.call.op \in {"claim", "fire"} => c.op = "claim" /\ d.call.t = c.t
    BY <1>5 DEF Then, Fired, MergeTried, Call, NoCall
  <2> QED
    BY <1>2, <1>5, <2>1 DEF DeskAwaited, SameList
<1>6. CASE Listed(k)
  <2>1. DeskAwaited(stories', d)
    BY <1>6, ReadyAwaited DEF Listed, DeskAwaited, NoCall, Call
  <2> QED
    BY <1>2, <1>4, <1>6, <2>1 DEF Listed
<1>7. CASE Visited(k)
  <2>1. PICK t \in sched[k].todo :
          /\ d.todo = sched[k].todo \ {t} /\ d.phase = sched[k].phase
          /\ \/ d.call = Decision(sched[k].phase, t) \/ d.call = NoCall
             \/ \E p : d.call = Call("in_review", t, p, 0)
    BY <1>7 DEF Visited
  <2>2. Decision(sched[k].phase, t).op \in {"claim", "fire"} =>
          sched[k].phase = "fire" /\ Decision(sched[k].phase, t).t = t
    BY <1>3 DEF Desks, Decision, Revive, Reconcile, Advance, RunOver, Park, Call, NoCall
  <2>3. d.call.op \in {"claim", "fire"} => sched[k].phase = "fire" /\ d.call.t = t
    <3>1. \A p : Call("in_review", t, p, 0).op = "in_review"
      BY DEF Call
    <3>2. NoCall.op = "none"
      BY DEF Call, NoCall
    <3> QED
      BY <2>1, <2>2, <3>1, <3>2
  <2>4. DeskAwaited(stories', d)
    BY <1>2, <2>1, <2>3 DEF DeskAwaited
  <2> QED
    BY <1>2, <1>4, <1>7, <2>4 DEF Visited
<1>8. CASE Served(k)
  <2>1. PICK o \in Outcomes(c) : /\ c # NoCall /\ stories' = o.stories /\ runs' = o.runs
                                 /\ \E ok, r : d.call = Then(k, c, ok, r)
                                 /\ SameList(k)
    BY <1>8 DEF Served
  <2>2. DeskAwaited(stories', d)
    BY <1>5, <2>1
  <2>3. \A r \in Runs : \/ runs'[r].covers = runs[r].covers
                        \/ c.op = "fire" /\ runs'[r].covers = Members(c.t)
    BY <1>3, <2>1, ServeRuns
  <2>4. c.op = "fire" => Awaited(stories', Members(c.t))
    BY <1>2 DEF DeskAwaited
  <2> QED
    BY <1>2, <1>4, <2>2, <2>3, <2>4
<1>9. CASE Dropped(k)
  BY <1>2, <1>4, <1>5, <1>9 DEF Dropped
<1>10. CASE GaveUp(k)
  <2>1. DeskAwaited(stories', d)
    BY <1>2, <1>10 DEF GaveUp, SameList, DeskAwaited, Call
  <2> QED
    BY <1>2, <1>4, <1>10, <2>1 DEF GaveUp
<1>11. CASE Restarted(k)
  <2>1. DeskAwaited(stories', d)
    BY <1>11 DEF Restarted, Idle, DeskAwaited, NoCall, Call
  <2> QED
    BY <1>2, <1>4, <1>11, <2>1 DEF Restarted
<1> QED
  BY <1>1, <1>6, <1>7, <1>8, <1>9, <1>10, <1>11

LEMMA NextAwaits ==
  ASSUME TInv, AInv, [Next]_vars
  PROVE  Awaits
<1> USE TypesNamed
<1>1. Keeps(stories, stories') /\ board' = board
  BY NextTyped DEF Typed
<1>2. ASSUME sched' = sched, \A r \in Runs : runs'[r].covers = runs[r].covers
      PROVE  Awaits
  <2>1. /\ \A r \in Runs : Awaited(stories', runs[r].covers)
        /\ \A j \in Schedulers : DeskAwaited(stories', sched[j])
    BY <1>1, AwaitedKept DEF AInv, RunTable
  <2> QED
    BY <1>1, <1>2, <2>1 DEF Awaits
<1>3. CASE UNCHANGED vars
  BY <1>2, <1>3 DEF vars
<1>4. ASSUME NEW r \in Runs, RunEnds(r) \/ RunRevives(r) \/ PersonSettles(r) \/ RequeueRun(r)
      PROVE  sched' = sched /\ \A q \in Runs : runs'[q].covers = runs[q].covers
  BY <1>4 DEF RunEnds, Ends, RunRevives, PersonSettles, RequeueRun, Edited, RunTable
<1>5. ASSUME NEW s \in Stories, Requeue(s) \/ Cancel(s)
      PROVE  sched' = sched /\ \A q \in Runs : runs'[q].covers = runs[q].covers
  BY <1>5 DEF Requeue, Cancel, Edited
<1>6. CASE Next
  BY <1>1, <1>2, <1>4, <1>5, <1>6, SchedulerStepAwaits DEF Next
<1> QED
  BY <1>3, <1>6

LEMMA InitAwaited == Init => AInv
<1> SUFFICES ASSUME Init
             PROVE  AInv
  OBVIOUS
<1>1. DeskAwaited(stories, Idle)
  BY DEF DeskAwaited, Idle, NoCall, Call
<1> QED
  BY <1>1 DEF Init, AInv, Awaited

\* A run is fired for a story only after the work of every story it depends
\* on, outside the run, was merged: DependentsWaitForTheMerge, for any number
\* of schedulers that list, claim and fire at the same time, and any faults.
THEOREM MergedBeforeDependents ==
  OnlyPlainBoards => (Spec => []DependentsWaitForTheMerge)
<1>1. Init => AInv
  BY InitAwaited
<1>2. TInv /\ AInv /\ [Next]_vars => AInv'
  <2> SUFFICES ASSUME TInv, AInv, [Next]_vars
               PROVE  AInv'
    OBVIOUS
  <2>1. Awaits
    BY NextAwaits
  <2> QED
    BY <2>1 DEF Awaits, AInv, DeskAwaited, Awaited, Members
<1>3. TInv /\ AInv /\ DoneMeansMerged => DependentsWaitForTheMerge
  <2> SUFFICES ASSUME TInv, AInv, DoneMeansMerged,
                      NEW r \in Runs, NEW s \in runs[r].covers,
                      NEW e \in Deps[s] \ runs[r].covers
               PROVE  Merged(e)
    BY DEF DependentsWaitForTheMerge
  <2>1. s \in Stories /\ e \in Stories
    BY TypesNamed, TicketAssumption DEF RunTable
  <2>2. stories[e].status = "done"
    BY DEF AInv, Awaited
  <2> QED
    BY <2>1, <2>2 DEF DoneMeansMerged
<1> QED
  BY <1>1, <1>2, <1>3, TypedAlways, MergedBeforeDone, PTL DEF Spec

-----------------------------------------------------------------------------
(***************************************************************************)
(* No double fire                                                          *)
(*                                                                         *)
(* For one scheduler, as the factory runs it: the give-back of a stranded  *)
(* claim (B4) cannot tell it from another scheduler's claim that is about  *)
(* to be recorded.  A live run that nobody lost is the run of its stories: *)
(* it is recorded on them, or on its way to be.  No other request of the   *)
(* scheduler is about such a story, and no listing shows one except as a   *)
(* running story with this very run: what the scheduler decides from a     *)
(* listing is old, but a run is fired in the pass "fire" only, so no       *)
(* listing meets a run that is younger than itself.                        *)
(*                                                                         *)
(* A request to record a run is made twice.  If neither arrives the run is *)
(* alive and the scheduler gives the claim back; RecordArrives excludes    *)
(* that, and no other loss.                                                *)
(***************************************************************************)
OneScheduler == \E k : Schedulers = {k}

RecordArrives ==
  \A k \in Schedulers :
    sched[k].call.op = "record" /\ sched[k].call.again = 0 => ~Lost(k)

\* Run a, of those of rs, implements story s and is not one of the astray.
Owns(rs, as, s, a) == s \in rs[a].covers /\ rs[a].status = "RUNNING" /\ a \notin as

\* The stories of such a run are running, with the run recorded or on its way.
StoriesOwned(st, rs, as, c) ==
  \A s \in Stories, a \in Runs : Owns(rs, as, s, a) =>
    /\ st[s].status = "running"
    /\ \/ st[s].run = a
       \/ st[s].run = 0 /\ c.op = "record" /\ c.arg = a /\ s \in Members(c.t)

\* A story in the backlog has no run.
Fresh(st) == \A s \in Stories : st[s].status = "backlog" => st[s].run = 0

ListClear(rs, as, x) ==
  \A t \in x.todo : \A s \in Members(t), a \in Runs :
    Owns(rs, as, s, a) => x.phase = "advance" /\ a = t.run

CallClear(rs, as, c) ==
  \A s \in Members(c.t), a \in Runs :
    Owns(rs, as, s, a) => c.op \in {"none", "reset"} \/ (c.op = "record" /\ a = c.arg)

\* The stories of a claim stay claimed until the run is recorded.
ClaimHeld(st, c) ==
  \A s \in Members(c.t) : /\ c.op \in {"fire", "record"} => st[s].status = "running"
                          /\ c.op = "fire" => st[s].run = 0

\* Units are fired in one pass, one after the other, and share no story.
FiredApart(x) ==
  /\ x.call.op \in {"claim", "fire", "record"} => x.phase = "fire"
  /\ x.phase = "fire" => \A t \in x.todo :
       /\ x.call # NoCall => Members(t) \cap Members(x.call.t) = {}
       /\ \A u \in x.todo \ {t} : Members(t) \cap Members(u) = {}

\* A run revived is that of a story, not of a sprint.
RevivedAlone(x) ==
  /\ x.phase = "revive" => \A t \in x.todo : t.id # Sprint
  /\ x.call.op = "resync" => x.call.t.id # Sprint

DeskSound(st, rs, as, x) ==
  /\ StoriesOwned(st, rs, as, x.call)
  /\ ListClear(rs, as, x) /\ CallClear(rs, as, x.call)
  /\ ClaimHeld(st, x.call)
  /\ FiredApart(x) /\ RevivedAlone(x)

OInv == Fresh(stories) /\ \A k \in Schedulers : DeskSound(stories, runs, astray, sched[k])

\* A step of which this is shown keeps OInv.
Sound == /\ board' = board /\ Fresh(stories')
         /\ \A k \in Schedulers : DeskSound(stories', runs', astray', sched'[k])

\* Where no run is born and no running story changes, a desk stays sound.
LEMMA SoundKept ==
  ASSUME NEW x, NEW st, NEW rs, NEW as, DeskSound(stories, runs, astray, x),
         \A s \in Stories : stories[s].status = "running" => st[s] = stories[s],
         \A s \in Stories, a \in Runs : Owns(rs, as, s, a) => Owns(runs, astray, s, a),
         Members(x.call.t) \subseteq Stories,
         \A t \in x.todo : Members(t) \subseteq Stories
  PROVE  DeskSound(st, rs, as, x)
<1>1. StoriesOwned(st, rs, as, x.call)
  BY DEF DeskSound, StoriesOwned
<1>2. ListClear(rs, as, x) /\ CallClear(rs, as, x.call)
  BY DEF DeskSound, ListClear, CallClear
<1>3. ClaimHeld(st, x.call)
  BY DEF DeskSound, ClaimHeld
<1> QED
  BY <1>1, <1>2, <1>3 DEF DeskSound

\* What each pass lists is clear of live runs, but for a run's own stories.
LEMMA WorkClear ==
  ASSUME TInv, KInv, NEW p \in {"revive", "merge", "advance", "fire"},
         StoriesOwned(stories, runs, astray, NoCall),
         NEW t \in Work(p), NEW s \in Members(t), NEW a \in Runs,
         Owns(runs, astray, s, a)
  PROVE  p = "advance" /\ a = t.run
<1> USE TypesNamed
<1> DEFINE Own(x) == Owns(runs, astray, x, a)
<1>1. \A x \in Stories : Own(x) => stories[x].status = "running" /\ stories[x].run = a
  BY DEF StoriesOwned, NoCall, Call
<1>2. s \in board.sprint => \A x \in board.sprint : Own(x)
  BY DEF Owns, KInv, RunsWhole
<1>3. s \in Stories
  BY WorkType DEF Units, Members
\* A story listed on its own shows what the store has.
<1>4. ASSUME NEW x \in Stories, t = One(x)
      PROVE  s = x /\ t.run = stories[x].run
  BY <1>4 DEF One, Unit, Members, Sprint
<1>5. CASE p = "revive"
  <2>1. PICK x \in Stories : t = One(x) /\ stories[x].status = "failed"
    BY <1>5 DEF Work, Having
  <2> QED
    BY <1>1, <1>4, <2>1
<1>6. CASE p = "merge"
  <2> DEFINE S == Having("in_review") \cap board.sprint
  <2>1. \/ \E x \in Stories : t = One(x) /\ stories[x].status = "in_review"
        \/ S # {} /\ t = Unit(Sprint, stories[Min(S)].run, stories[Min(S)].pr)
    BY <1>6 DEF Work, ReviewWork, Having
  <2>2. ASSUME S # {}, t = Unit(Sprint, stories[Min(S)].run, stories[Min(S)].pr)
        PROVE  FALSE
    <3>1. s \in board.sprint
      BY <2>2 DEF Members, Unit
    <3>2. PICK x \in board.sprint : stories[x].status = "in_review"
      BY <2>2 DEF Having
    <3> QED
      BY <1>1, <1>2, <3>1, <3>2
  <2> HIDE DEF S
  <2> QED
    BY <1>1, <1>4, <2>1, <2>2
<1>7. CASE p = "advance"
  <2> DEFINE S == Having("running") \cap board.sprint
             fired == {x \in S : stories[x].run # 0}
             r == IF fired = {} THEN 0 ELSE stories[Max(fired)].run
  <2>1. \/ \E x \in Stories : t = One(x)
        \/ S # {} /\ t = Unit(Sprint, r, 0)
    BY <1>7 DEF Work, RunningWork, Having
  <2>2. ASSUME t = Unit(Sprint, r, 0)
        PROVE  a = t.run
    <3>1. s \in board.sprint
      BY <2>2 DEF Members, Unit
    <3>2. \A x \in board.sprint : stories[x].status = "running" /\ stories[x].run = a
      BY <1>1, <1>2, <3>1
    <3>3. fired = board.sprint /\ fired \subseteq Stories
      BY <3>2 DEF Having
    <3> HIDE DEF fired
    <3>4. Max(fired) \in board.sprint
      BY <3>1, <3>3, ListingEnds
    <3>5. r = a
      BY <3>1, <3>2, <3>3, <3>4
    <3> HIDE DEF r
    <3> QED
      BY <2>2, <3>5 DEF Unit
  <2> HIDE DEF r
  <2> QED
    BY <1>1, <1>3, <1>4, <1>7, <2>1, <2>2
<1>8. CASE p = "fire"
  <2>1. \/ \E x \in Stories : t = One(x) /\ stories[x].status = "backlog"
        \/ t = Unit(Sprint, 0, 0) /\ \A x \in board.sprint : stories[x].status = "backlog"
    BY <1>8 DEF Work, ReadyWork, Ready, SprintReady, CanClaim, Rows
  <2>2. t = Unit(Sprint, 0, 0) => s \in board.sprint
    BY DEF Members, Unit
  <2> QED
    BY <1>1, <1>3, <1>4, <2>1, <2>2
<1> QED
  BY <1>5, <1>6, <1>7, <1>8

\* What a pass lists shares no story with what else it lists, where the pass
\* fires runs.
LEMMA WorkApart ==
  ASSUME TInv, NEW t \in Work("fire"), NEW u \in Work("fire") \ {t}
  PROVE  Members(t) \cap Members(u) = {}
<1> USE TypesNamed
<1>1. \/ \E x, y \in Stories : t = One(x) /\ u = One(y)
      \/ t = Unit(Sprint, 0, 0) /\ u = Unit(Sprint, 0, 0)
  BY DEF Work, ReadyWork, Ready
<1>2. \A x \in Stories : Members(One(x)) = {x}
  BY DEF Members, One, Unit, Sprint
<1> QED
  BY <1>1, <1>2

\* The request that follows an answer, or the lack of one.
LEMMA ThenCases ==
  ASSUME NEW k, NEW c \in Requests, NEW ok \in BOOLEAN, NEW r
  PROVE  LET e == Then(k, c, ok, r)
         IN /\ c.op = "claim" => e = NoCall \/ (ok /\ e = Call("fire", c.t, 0, 0))
            /\ c.op = "fire" => \/ ok /\ e = Call("record", c.t, r, 1)
                                \/ ~ok /\ e = Call("reset", c.t, 0, 0)
            /\ c.op = "record" =>
                 \/ ok /\ e = NoCall
                 \/ ~ok /\ c.again > 0 /\ e = Call("record", c.t, c.arg, c.again - 1)
                 \/ ~ok /\ c.again = 0 /\ e = Call("reset", c.t, 0, 0)
            /\ c.op = "merge" => e = NoCall \/ (e.op \in {"done", "failed"} /\ e.t = c.t)
            /\ c.op \notin {"claim", "fire", "record", "merge"} => e = NoCall
<1>1. c.again \in {0, 1}
  BY DEF Requests
<1>2. c.op = "merge" => LET e == Then(k, c, ok, r)
                        IN e = NoCall \/ (e.op \in {"done", "failed"} /\ e.t = c.t)
  BY DEF Then, MergeTried, Call
<1>3. c.op # "merge" => Then(k, c, ok, r) = Fired(c, ok, r)
  BY DEF Then
<1>4. c.op = "claim" => \/ ~ok /\ Fired(c, ok, r) = NoCall
                        \/ ok /\ Fired(c, ok, r) = Call("fire", c.t, 0, 0)
  BY DEF Fired
<1>5. c.op = "fire" => \/ ok /\ Fired(c, ok, r) = Call("record", c.t, r, 1)
                       \/ ~ok /\ Fired(c, ok, r) = Call("reset", c.t, 0, 0)
  BY DEF Fired
<1>6. c.op = "record" =>
        \/ ok /\ Fired(c, ok, r) = NoCall
        \/ ~ok /\ c.again > 0 /\ Fired(c, ok, r) = Call("record", c.t, c.arg, c.again - 1)
        \/ ~ok /\ c.again = 0 /\ Fired(c, ok, r) = Call("reset", c.t, 0, 0)
  <2>1. ASSUME c.op = "record", c.again = 0
        PROVE  Fired(c, ok, r) = IF ok THEN NoCall ELSE Call("reset", c.t, 0, 0)
    BY <2>1 DEF Fired
  <2>2. ASSUME c.op = "record", c.again = 1
        PROVE  Fired(c, ok, r) = IF ok THEN NoCall ELSE Call("record", c.t, c.arg, c.again - 1)
    BY <2>2 DEF Fired
  <2> QED
    BY <1>1, <2>1, <2>2
<1>7. c.op \notin {"claim", "fire", "record"} => Fired(c, ok, r) = NoCall
  BY DEF Fired
<1> QED
  BY <1>2, <1>3, <1>4, <1>5, <1>6, <1>7

\* A desk without a request, with a shorter list, in the same pass.
LEMMA FreeDesk ==
  ASSUME NEW st, NEW rs, NEW as, NEW x, x.call = NoCall,
         StoriesOwned(st, rs, as, NoCall), ListClear(rs, as, x),
         x.phase = "fire" => \A t \in x.todo : \A u \in x.todo \ {t} : Members(t) \cap Members(u) = {},
         x.phase = "revive" => \A t \in x.todo : t.id # Sprint
  PROVE  DeskSound(st, rs, as, x)
<1>1. x.call.op = "none"
  BY DEF NoCall, Call
<1> QED
  BY <1>1 DEF DeskSound, CallClear, ClaimHeld, FiredApart, RevivedAlone

LEMMA ListedSound ==
  ASSUME TInv, KInv, OInv, NEW k \in Schedulers, Listed(k), board' = board
  PROVE  DeskSound(stories', runs', astray', sched'[k])
<1> USE TypesNamed
<1> DEFINE d == sched'[k]
<1>1. StoriesOwned(stories, runs, astray, NoCall)
  BY DEF OInv, DeskSound, Listed
<1>2. ListClear(runs, astray, d)
  BY <1>1, WorkClear DEF Listed, ListClear
<1>3. d.phase = "fire" => \A t \in d.todo : \A u \in d.todo \ {t} : Members(t) \cap Members(u) = {}
  BY WorkApart DEF Listed
<1>4. d.phase = "revive" => \A t \in d.todo : t.id # Sprint
  BY DEF Listed, Work, One, Unit, Sprint, Having
<1> HIDE DEF d
<1>5. DeskSound(stories, runs, astray, d)
  BY <1>1, <1>2, <1>3, <1>4, FreeDesk DEF Listed, d
<1> QED
  BY <1>5 DEF Listed, d

LEMMA VisitedSound ==
  ASSUME TInv, KInv, OInv, NEW k \in Schedulers, Visited(k)
  PROVE  DeskSound(stories', runs', astray', sched'[k])
<1> USE TypesNamed
<1> DEFINE d == sched'[k]
<1>1. PICK t \in sched[k].todo :
        /\ d.todo = sched[k].todo \ {t} /\ d.phase = sched[k].phase
        /\ \/ d.call = Decision(sched[k].phase, t) \/ d.call = NoCall
           \/ /\ sched[k].phase = "advance" /\ StatusOf(t) = "DONE"
              /\ \E p : d.call = Call("in_review", t, p, 0)
  BY DEF Visited
<1>2. /\ StoriesOwned(stories, runs, astray, NoCall) /\ ListClear(runs, astray, sched[k])
      /\ FiredApart(sched[k]) /\ RevivedAlone(sched[k])
      /\ stories' = stories /\ runs' = runs /\ astray' = astray
  BY DEF Visited, OInv, DeskSound
<1>3. sched[k].phase \in {"revive", "merge", "advance", "fire"} /\ t \in Units
  BY DEF Desks
\* The decision made for t.
<1>4. \/ d.call = NoCall
      \/ /\ d.call.t = t
         /\ \/ d.call.op = "claim" /\ sched[k].phase = "fire"
            \/ d.call.op = "resync" /\ sched[k].phase = "revive"
            \/ d.call.op \in {"done", "failed", "merge"} /\ sched[k].phase = "merge"
            \/ d.call.op = "reset" /\ sched[k].phase = "advance"
            \/ /\ d.call.op \in {"in_review", "failed"} /\ sched[k].phase = "advance"
               /\ StatusOf(t) \in {"DONE", "FAILED"}
  <2>1. CASE sched[k].phase = "advance" /\ d.call = Decision(sched[k].phase, t)
    <3>1. d.call = Advance(t)
      BY <2>1 DEF Decision
    <3> QED
      BY <2>1, <3>1 DEF Advance, RunOver, Park, Call
  <2>2. CASE sched[k].phase # "advance" /\ d.call = Decision(sched[k].phase, t)
    BY <1>3, <2>2 DEF Decision, Revive, Reconcile, Call
  <2>3. CASE StatusOf(t) = "DONE" /\ sched[k].phase = "advance" /\ \E p : d.call = Call("in_review", t, p, 0)
    BY <2>3 DEF Call
  <2> QED
    BY <1>1, <2>1, <2>2, <2>3
<1>5. ListClear(runs, astray, d)
  BY <1>1, <1>2 DEF ListClear
<1> HIDE DEF d
<1>6. CASE d.call = NoCall
  BY <1>1, <1>2, <1>5, <1>6, FreeDesk DEF FiredApart, RevivedAlone, d
<1>7. CASE d.call # NoCall
  <2>1. d.call.op \notin {"none", "fire", "record"} /\ d.call.t = t
    BY <1>4, <1>7
  <2>2. StoriesOwned(stories, runs, astray, d.call)
    BY <1>2, <2>1 DEF StoriesOwned, NoCall, Call
  <2>3. CallClear(runs, astray, d.call)
    <3> SUFFICES ASSUME NEW s \in Members(t), NEW a \in Runs, Owns(runs, astray, s, a)
                 PROVE  d.call.op = "reset"
      BY <2>1 DEF CallClear
    <3>1. sched[k].phase = "advance" /\ a = t.run
      BY <1>2 DEF ListClear
    <3>2. StatusOf(t) = "RUNNING"
      BY <3>1 DEF StatusOf, Owns
    <3> QED
      BY <1>4, <1>7, <3>1, <3>2
  <2>4. ClaimHeld(stories, d.call)
    BY <2>1 DEF ClaimHeld
  <2>5. FiredApart(d)
    <3>1. d.call.op \in {"claim", "fire", "record"} => d.phase = "fire"
      BY <1>1, <1>4, <1>7
    <3>2. ASSUME d.phase = "fire", NEW u \in d.todo
          PROVE  /\ Members(u) \cap Members(d.call.t) = {}
                 /\ \A v \in d.todo \ {u} : Members(u) \cap Members(v) = {}
      BY <1>1, <1>2, <2>1, <3>2 DEF FiredApart
    <3> QED
      BY <3>1, <3>2 DEF FiredApart
  <2>6. RevivedAlone(d)
    BY <1>1, <1>2, <1>4, <1>7 DEF RevivedAlone
  <2> QED
    BY <1>2, <1>5, <2>2, <2>3, <2>4, <2>5, <2>6 DEF DeskSound, d
<1> QED
  BY <1>6, <1>7

\* Tables in which stories have a run or a pull request recorded.
LEMMA RecordTypes ==
  ASSUME NEW st \in StoryTable, NEW r \in Runs \cup {0}
  PROVE  /\ [s \in Stories |-> [st[s] EXCEPT !.status = "running", !.run = r]] \in StoryTable
         /\ [s \in Stories |-> [st[s] EXCEPT !.status = "in_review", !.pr = r]] \in StoryTable
  BY DEF StoryTable, Story, Statuses

\* An answer that neither is about a new run nor changes a story of a live
\* one, and after which the desk asks for nothing or for something about the
\* same unit.
LEMMA AnswerSound ==
  ASSUME TInv, OInv, NEW k \in Schedulers, SameList(k),
         NEW st, NEW rs, NEW as, NEW e, sched'[k].call = e,
         StoriesOwned(st, rs, as, e), CallClear(rs, as, e), ClaimHeld(st, e),
         \A s \in Stories, a \in Runs : Owns(rs, as, s, a) =>
           \/ Owns(runs, astray, s, a)
           \/ sched[k].phase = "fire" /\ \A t \in sched[k].todo : s \notin Members(t),
         e = NoCall \/ (e.t = sched[k].call.t /\ sched[k].call # NoCall),
         e.op # "resync",
         e.op \in {"claim", "fire", "record"} => sched[k].phase = "fire"
  PROVE  DeskSound(st, rs, as, sched'[k])
<1> USE TypesNamed
<1> DEFINE x == sched[k]
           d == sched'[k]
<1>1. DeskSound(stories, runs, astray, x) /\ x.todo \subseteq Units
  BY DEF OInv, Desks
<1>2. d.phase = x.phase /\ d.todo = x.todo /\ d.call = e
  BY DEF SameList
<1> HIDE DEF d
<1>3. ListClear(rs, as, d)
  <2> SUFFICES ASSUME NEW t \in x.todo, NEW s \in Members(t), NEW a \in Runs, Owns(rs, as, s, a)
               PROVE  x.phase = "advance" /\ a = t.run
    BY <1>2 DEF ListClear
  <2>1. s \in Stories
    BY <1>1 DEF Units, Members
  <2>2. Owns(runs, astray, s, a)
    BY <2>1
  <2> QED
    BY <1>1, <2>2 DEF DeskSound, ListClear
<1>4. FiredApart(d)
  <2>1. d.call # NoCall => d.call.t = x.call.t /\ x.call # NoCall
    BY <1>2
  <2> QED
    BY <1>1, <1>2, <2>1 DEF DeskSound, FiredApart
<1>5. RevivedAlone(d)
  BY <1>1, <1>2 DEF DeskSound, RevivedAlone
<1> QED
  BY <1>2, <1>3, <1>4, <1>5 DEF DeskSound, d

\* An update of the store that leaves alone the stories of live runs, and puts
\* none with a run in the backlog.
LEMMA StoreSound ==
  ASSUME TInv, OInv, NEW k \in Schedulers, NEW c, c = sched[k].call, c # NoCall,
         NEW o \in Outcomes(c), c.op # "fire"
  PROVE  /\ Fresh(o.stories)
         /\ StoriesOwned(o.stories, runs, astray, IF c.op = "record" THEN NoCall ELSE c)
         /\ c.op = "claim" /\ o.ok =>
              \A s \in Members(c.t) : o.stories[s].status = "running" /\ o.stories[s].run = 0
         /\ c.op = "record" =>
              o.ok /\ \A s \in Members(c.t) : o.stories[s].status = "running"
<1> USE TypesNamed
<1> DEFINE U == Members(c.t)
           Own(s, a) == Owns(runs, astray, s, a)
<1>1. /\ c \in Requests /\ WellFormed(c) /\ U \in SUBSET Stories
      /\ c.op \in Ops \ {"none"} /\ c.arg \in Runs \cup {0}
  BY DEF Desks, Requests, Units, Members, WellFormed
<1>2. Fresh(stories) /\ DeskSound(stories, runs, astray, sched[k])
  BY DEF OInv
<1>3. \A s \in U, a \in Runs : Own(s, a) => c.op = "reset" \/ (c.op = "record" /\ a = c.arg)
  BY <1>1, <1>2 DEF DeskSound, CallClear
<1>4. \A s \in Stories, a \in Runs : Own(s, a) =>
        /\ stories[s].status = "running"
        /\ \/ stories[s].run = a
           \/ stories[s].run = 0 /\ c.op = "record" /\ c.arg = a /\ s \in U
  BY <1>2 DEF DeskSound, StoriesOwned
\* Rows that no live run owns.
<1>5. ASSUME NEW st, c.op # "record",
             \A s \in Stories, a \in Runs : Own(s, a) => st[s] = stories[s]
      PROVE  StoriesOwned(st, runs, astray, c)
  BY <1>4, <1>5 DEF StoriesOwned
<1>6. ASSUME NEW W \in SUBSET U, NEW to \in StoryTable,
             c.op # "reset", \A s \in Stories : to[s].status # "backlog"
      PROVE  LET st == Updated(stories, W, to)
             IN Fresh(st) /\ (c.op # "record" => StoriesOwned(st, runs, astray, c))
  <2> DEFINE st == Updated(stories, W, to)
  <2>1. \A s \in Stories : st[s] = IF s \in W THEN to[s] ELSE stories[s]
    BY <1>1, UpdateType
  <2> HIDE DEF st
  <2>2. Fresh(st)
    BY <1>2, <1>6, <2>1 DEF Fresh
  <2>3. c.op # "record" => \A s \in Stories, a \in Runs : Own(s, a) => st[s] = stories[s]
    BY <1>3, <1>6, <2>1
  <2>4. c.op # "record" => StoriesOwned(st, runs, astray, c)
    BY <1>5, <2>3
  <2> QED
    BY <2>2, <2>4 DEF st
<1>7. ASSUME NEW target \in {"running", "done", "failed"}, c.op \notin {"reset", "record"}
      PROVE  /\ Fresh(Moved(stories, U, target))
             /\ StoriesOwned(Moved(stories, U, target), runs, astray, c)
  <2> DEFINE to == [s \in Stories |-> [stories[s] EXCEPT !.status = target]]
  <2>1. to \in StoryTable /\ \A s \in Stories : to[s].status # "backlog"
    BY DEF StoryTable, Story, Statuses
  <2>2. Rows(stories, U, LegalSources[target]) \in SUBSET U
    BY DEF Rows
  <2> HIDE DEF to
  <2> QED
    BY <1>6, <1>7, <2>1, <2>2 DEF Moved, to
<1>8. CASE c.op = "claim"
  <2>1. o = ServeClaim(U)
    BY <1>8 DEF Outcomes
  <2>2. CASE CanClaim(stories, U)
    <3>1. o.stories = Moved(stories, U, "running")
      BY <2>1, <2>2 DEF ServeClaim, Outcome, Claimed
    <3>2. \A s \in U : stories[s].status = "backlog" /\ stories[s].run = 0
      BY <1>1, <1>2, <2>2 DEF CanClaim, Rows, Fresh
    <3>3. Rows(stories, U, LegalSources["running"]) = U
      BY <2>2 DEF CanClaim, LegalSources
    <3> DEFINE to == [s \in Stories |-> [stories[s] EXCEPT !.status = "running"]]
    <3>4. to \in StoryTable /\ \A s \in Stories : to[s].status = "running" /\ to[s].run = stories[s].run
      BY DEF StoryTable, Story, Statuses
    <3>5. o.stories = Updated(stories, U, to)
      BY <3>1, <3>3 DEF Moved
    <3> HIDE DEF to
    <3>6. \A s \in U : o.stories[s] = to[s]
      BY <1>1, <3>4, <3>5, UpdateType
    <3>7. \A s \in U : o.stories[s].status = "running" /\ o.stories[s].run = 0
      BY <1>1, <3>2, <3>4, <3>6
    <3> QED
      BY <1>7, <1>8, <3>1, <3>7
  <2>3. CASE ~CanClaim(stories, U)
    <3>1. o.stories = stories /\ ~o.ok
      BY <2>1, <2>3 DEF ServeClaim, Outcome
    <3> QED
      BY <1>2, <1>5, <1>8, <3>1
  <2> QED
    BY <2>2, <2>3
\* Recording leaves every story of a live run with that run.
<1>9. ASSUME NEW to \in StoryTable, o.stories = Updated(stories, U, to), o.ok,
             \A s \in U : to[s].run = c.arg /\ to[s].status = "running",
             c.op \in {"record", "resync"}
      PROVE  /\ Fresh(o.stories)
             /\ StoriesOwned(o.stories, runs, astray, IF c.op = "record" THEN NoCall ELSE c)
             /\ c.op = "record" =>
                  o.ok /\ \A s \in Members(c.t) : o.stories[s].status = "running"
  <2>1. \A s \in Stories : o.stories[s] = IF s \in U THEN to[s] ELSE stories[s]
    BY <1>1, <1>9, UpdateType
  <2>2. Fresh(o.stories)
    BY <1>2, <1>9, <2>1 DEF Fresh
  <2>3. \A s \in Stories, a \in Runs : Own(s, a) =>
          o.stories[s].status = "running" /\ o.stories[s].run = a
    BY <1>3, <1>4, <1>9, <2>1
  <2>4. \A s \in U : o.stories[s].status = "running"
    BY <1>1, <1>9, <2>1
  <2> QED
    BY <1>9, <2>2, <2>3, <2>4 DEF StoriesOwned
<1>10. CASE c.op \in {"record", "resync"}
  <2>1. o = ServeRecord(c.t, c.arg)
    BY <1>10 DEF Outcomes
  <2>2. c.op = "record" => \A s \in U : stories[s].status = "running"
    BY <1>2 DEF DeskSound, ClaimHeld
  <2>3. c.op = "resync" => c.t.id # Sprint
    BY <1>2 DEF DeskSound, RevivedAlone
  <2>4. CASE c.t.id = Sprint
    <3> DEFINE to == [s \in Stories |-> [stories[s] EXCEPT !.run = c.arg]]
    <3>1. to \in StoryTable /\ \A s \in Stories : to[s].run = c.arg /\ to[s].status = stories[s].status
      BY <1>1 DEF StoryTable, Story
    <3>2. Rows(stories, U, NotEnded) = U
      BY <1>1, <1>10, <2>2, <2>3, <2>4 DEF Rows, NotEnded
    <3>3. U = board.sprint
      BY <2>4 DEF Members
    <3>4. o.ok /\ o.stories = Updated(stories, U, to)
      BY <2>1, <2>4, <3>2, <3>3 DEF ServeRecord, Outcome, SprintRecorded
    <3> HIDE DEF to
    <3>5. \A s \in U : to[s].run = c.arg /\ to[s].status = "running"
      BY <1>1, <1>10, <2>2, <2>3, <2>4, <3>1
    <3> QED
      BY <1>9, <1>10, <3>1, <3>4, <3>5
  <2>5. CASE c.t.id # Sprint /\ CanRecord(stories, U)
    <3> DEFINE to == [s \in Stories |-> [stories[s] EXCEPT !.status = "running", !.run = c.arg]]
    <3>1. to \in StoryTable /\ \A s \in Stories : to[s].run = c.arg /\ to[s].status = "running"
      <4>1. to \in StoryTable
        BY <1>1, RecordTypes
      <4>2. \A s \in Stories : to[s].run = c.arg /\ to[s].status = "running"
        BY DEF StoryTable, Story
      <4> QED
        BY <4>1, <4>2
    <3>2. o.ok /\ o.stories = Updated(stories, U, to)
      BY <2>1, <2>5 DEF ServeRecord, Outcome, Recorded
    <3> HIDE DEF to
    <3> QED
      BY <1>1, <1>9, <1>10, <3>1, <3>2
  <2>6. CASE c.t.id # Sprint /\ ~CanRecord(stories, U)
    <3>1. c.op = "resync"
      BY <1>1, <1>10, <2>2, <2>6 DEF CanRecord, Rows
    <3>2. o.stories = stories
      BY <2>1, <2>6 DEF ServeRecord, Outcome
    <3> QED
      BY <1>2, <1>5, <3>1, <3>2
  <2> QED
    BY <2>4, <2>5, <2>6, <1>10
<1>11. CASE c.op = "reset"
  <2> DEFINE W == {s \in Rows(stories, U, {"running"}) : stories[s].run = 0}
             to == [s \in Stories |-> [stories[s] EXCEPT !.status = "backlog"]]
  <2>1. to \in StoryTable /\ \A s \in Stories : to[s].run = stories[s].run
    BY DEF StoryTable, Story, Statuses
  <2>2. o.stories = Updated(stories, W, to)
    BY <1>11 DEF Outcomes, Outcome, ResetClaim
  <2>3. \A s \in W : stories[s].run = 0
    OBVIOUS
  <2> HIDE DEF W, to
  <2>4. \A s \in Stories : o.stories[s] = IF s \in W THEN to[s] ELSE stories[s]
    BY <2>1, <2>2, UpdateType
  <2>5. Fresh(o.stories)
    BY <1>2, <2>1, <2>3, <2>4 DEF Fresh
  <2>6. \A s \in Stories, a \in Runs : Own(s, a) => o.stories[s] = stories[s]
    BY <1>4, <1>11, <2>3, <2>4
  <2> QED
    BY <1>5, <1>11, <2>5, <2>6
<1>12. CASE c.op = "in_review"
  <2> DEFINE to == [s \in Stories |-> [stories[s] EXCEPT !.status = "in_review", !.pr = c.arg]]
             W == Rows(stories, U, LegalSources["in_review"])
  <2>1. to \in StoryTable /\ \A s \in Stories : to[s].status # "backlog"
    <3>1. to \in StoryTable
      BY <1>1, RecordTypes
    <3>2. \A s \in Stories : to[s].status = "in_review"
      BY DEF StoryTable, Story
    <3> QED
      BY <3>1, <3>2
  <2>2. W \in SUBSET U
    BY DEF Rows
  <2>3. o.stories = Updated(stories, W, to)
    <3>1. o = Outcome(InReview(stories, U, c.arg), runs, TRUE, 0)
      BY <1>12 DEF Outcomes
    <3> QED
      BY <3>1 DEF Outcome, InReview
  <2> HIDE DEF W, to
  <2> QED
    BY <1>6, <1>12, <2>1, <2>2, <2>3
<1>13. CASE c.op \in {"done", "failed"}
  <2>1. o.stories = Moved(stories, U, c.op)
    BY <1>13 DEF Outcomes, Outcome
  <2> QED
    BY <1>7, <1>13, <2>1
<1>14. CASE c.op = "merge"
  <2>1. o \in ServeMerge(c.arg)
    BY <1>14 DEF Outcomes
  <2>2. o.stories = stories
    BY <2>1 DEF ServeMerge, Outcome
  <2> QED
    BY <1>2, <1>5, <1>14, <2>2
<1> QED
  BY <1>1, <1>8, <1>10, <1>9, <1>11, <1>12, <1>13, <1>14 DEF Ops

LEMMA ServedSound ==
  ASSUME TInv, OInv, NEW k \in Schedulers, Served(k)
  PROVE  Fresh(stories') /\ DeskSound(stories', runs', astray', sched'[k])
<1> USE TypesNamed
<1> DEFINE c == sched[k].call
           e == sched'[k].call
           U == Members(c.t)
<1>1. c \in Requests /\ WellFormed(c) /\ U \in SUBSET Stories
  BY DEF Desks, Requests, Units, Members
<1>2. /\ Fresh(stories) /\ StoriesOwned(stories, runs, astray, c) /\ CallClear(runs, astray, c)
      /\ ClaimHeld(stories, c) /\ FiredApart(sched[k])
  BY DEF OInv, DeskSound
<1>3. PICK o \in Outcomes(c) :
        /\ c # NoCall /\ SameList(k) /\ stories' = o.stories /\ runs' = o.runs
        /\ \/ e = Then(k, c, o.ok, o.run) /\ astray' = astray
           \/ e = Then(k, c, FALSE, 0) /\ astray' = astray \cup ({o.run} \ {0})
  BY DEF Served
<1>4. o.ok \in BOOLEAN
  BY <1>1, <1>3, ServeType
<1> HIDE DEF c, e, U
\* What AnswerSound asks for, when no run is born.
<1>5. ASSUME \A s \in Stories, a \in Runs : Owns(runs', astray', s, a) => Owns(runs, astray, s, a),
             StoriesOwned(stories', runs', astray', e), CallClear(runs', astray', e),
             ClaimHeld(stories', e), e = NoCall \/ e.t = c.t, e.op # "resync",
             e.op \in {"claim", "fire", "record"} => sched[k].phase = "fire"
      PROVE  DeskSound(stories', runs', astray', sched'[k])
  BY <1>3, <1>5, AnswerSound DEF c, e
<1>6. NoCall.op = "none"
  BY DEF NoCall, Call
<1>7. CASE c.op = "fire"
  <2>1. /\ o.stories = stories
        /\ \/ ~o.ok /\ o.runs = runs /\ o.run = 0
           \/ /\ o.ok /\ o.run \in Runs /\ runs[o.run].status = "unborn"
              /\ o.runs[o.run].covers = U
              /\ \A r \in Runs \ {o.run} : /\ o.runs[r].covers = runs[r].covers
                                           /\ o.runs[r].status = runs[r].status
    BY <1>1, <1>3, <1>7, ServeRuns DEF U
  <2>2. sched[k].phase = "fire" /\ \A t \in sched[k].todo : Members(t) \cap U = {}
    BY <1>2, <1>3, <1>7 DEF FiredApart, c, U
  <2>3. \A s \in U, a \in Runs : ~Owns(runs, astray, s, a)
    BY <1>2, <1>7 DEF CallClear, U
  <2>4. \A s \in U : stories[s].status = "running" /\ stories[s].run = 0
    BY <1>2, <1>7 DEF ClaimHeld, U
  <2>5. ASSUME NEW r, NEW ok \in BOOLEAN, e = Then(k, c, ok, r)
        PROVE  \/ ok /\ e = Call("record", c.t, r, 1)
               \/ ~ok /\ e = Call("reset", c.t, 0, 0)
    BY <1>1, <1>7, <2>5, ThenCases
\* No run, or one nobody hears of: the claim is given back.
  <2>6. ASSUME \A s \in Stories, a \in Runs : Owns(runs', astray', s, a) => Owns(runs, astray, s, a),
               e = Call("reset", c.t, 0, 0)
        PROVE  DeskSound(stories', runs', astray', sched'[k])
    <3>1. e.op = "reset" /\ e.t = c.t
      BY <2>6 DEF Call
    <3>2. StoriesOwned(stories', runs', astray', e)
      BY <1>2, <1>3, <1>7, <2>1, <2>6 DEF StoriesOwned
    <3>3. CallClear(runs', astray', e) /\ ClaimHeld(stories', e)
      BY <3>1 DEF CallClear, ClaimHeld
    <3> QED
      BY <1>5, <2>6, <3>1, <3>2, <3>3
  <2>7. CASE ~o.ok /\ o.runs = runs /\ o.run = 0
    <3>1. \A s \in Stories, a \in Runs : Owns(runs', astray', s, a) => Owns(runs, astray, s, a)
      BY <1>3, <2>7 DEF Owns
    <3>2. e = Call("reset", c.t, 0, 0)
      BY <1>3, <1>4, <2>5, <2>7
    <3> QED
      BY <1>2, <1>3, <2>1, <2>6, <3>1, <3>2
  <2>8. CASE o.ok /\ o.run \in Runs /\ o.runs[o.run].covers = U
    <3>1. ASSUME NEW s \in Stories, NEW a \in Runs, Owns(runs', astray', s, a)
          PROVE  Owns(runs, astray, s, a) \/ (a = o.run /\ s \in U)
      BY <1>3, <2>1, <2>8, <3>1 DEF Owns
    <3>2. CASE e = Then(k, c, FALSE, 0) /\ astray' = astray \cup ({o.run} \ {0})
      <4>1. o.run \in astray'
        BY <2>8, <3>2
      <4>2. \A s \in Stories, a \in Runs : Owns(runs', astray', s, a) => Owns(runs, astray, s, a)
        BY <3>1, <4>1 DEF Owns
      <4>3. e = Call("reset", c.t, 0, 0)
        BY <2>5, <3>2
      <4> QED
        BY <1>2, <1>3, <2>1, <2>6, <4>2, <4>3
    <3>3. CASE e = Then(k, c, o.ok, o.run) /\ astray' = astray
      <4>1. e = Call("record", c.t, o.run, 1)
        BY <1>4, <2>5, <2>8, <3>3
      <4>2. e.op = "record" /\ e.t = c.t /\ e.arg = o.run
        BY <4>1 DEF Call
      <4>3. StoriesOwned(stories', runs', astray', e)
        <5> SUFFICES ASSUME NEW s \in Stories, NEW a \in Runs, Owns(runs', astray', s, a)
                     PROVE  /\ stories'[s].status = "running"
                            /\ \/ stories'[s].run = a
                               \/ stories'[s].run = 0 /\ a = o.run /\ s \in U
          BY <4>2 DEF StoriesOwned, U
        <5>1. CASE Owns(runs, astray, s, a)
          BY <1>2, <1>3, <1>7, <2>1, <5>1 DEF StoriesOwned
        <5>2. CASE a = o.run /\ s \in U
          BY <1>3, <2>1, <2>4, <5>2
        <5> QED
          BY <3>1, <5>1, <5>2
      <4>4. CallClear(runs', astray', e)
        BY <1>1, <2>3, <3>1, <4>2 DEF CallClear, U
      <4>5. ClaimHeld(stories', e)
        BY <1>3, <2>1, <2>4, <4>2 DEF ClaimHeld, U
      <4>6. \A s \in Stories, a \in Runs : Owns(runs', astray', s, a) =>
              \/ Owns(runs, astray, s, a)
              \/ sched[k].phase = "fire" /\ \A t \in sched[k].todo : s \notin Members(t)
        BY <2>2, <3>1
      <4>7. DeskSound(stories', runs', astray', sched'[k])
        BY <1>3, <2>2, <4>2, <4>3, <4>4, <4>5, <4>6, AnswerSound DEF c, e
      <4> QED
        BY <1>2, <1>3, <2>1, <4>7
    <3> QED
      BY <1>3, <3>2, <3>3
  <2> QED
    BY <2>1, <2>7, <2>8
<1>8. CASE c.op # "fire"
  <2>1. /\ Fresh(o.stories)
        /\ StoriesOwned(o.stories, runs, astray, IF c.op = "record" THEN NoCall ELSE c)
        /\ c.op = "claim" /\ o.ok =>
             \A s \in U : o.stories[s].status = "running" /\ o.stories[s].run = 0
        /\ c.op = "record" => o.ok /\ \A s \in U : o.stories[s].status = "running"
    BY <1>3, <1>8, StoreSound DEF c, U
  <2>2. \A s \in Stories, a \in Runs : Owns(runs', astray', s, a) => Owns(runs, astray, s, a)
    BY <1>1, <1>3, <1>8, ServeRuns DEF Owns
\* No live run waits to be recorded any more.
  <2>3. \A s \in Stories, a \in Runs : Owns(runs', astray', s, a) =>
          stories'[s].status = "running" /\ stories'[s].run = a
    BY <1>3, <1>6, <2>1, <2>2 DEF StoriesOwned
  <2>4. StoriesOwned(stories', runs', astray', e)
    BY <2>3 DEF StoriesOwned
  <2>5. PICK ok, r : ok \in BOOLEAN /\ (ok => o.ok) /\ e = Then(k, c, ok, r)
    BY <1>3, <1>4
  <2>6. \A s \in U, a \in Runs : Owns(runs', astray', s, a) =>
          c.op = "reset" \/ (c.op = "record" /\ a = c.arg)
    BY <1>1, <1>2, <1>3, <2>2 DEF CallClear, U, WellFormed
  <2>7. CASE e = NoCall
    BY <1>3, <1>5, <1>6, <2>1, <2>2, <2>4, <2>7 DEF CallClear, ClaimHeld
  <2>8. CASE c.op = "claim" /\ e = Call("fire", c.t, 0, 0) /\ ok
    <3>1. e.op = "fire" /\ e.t = c.t
      BY <2>8 DEF Call
    <3>2. CallClear(runs', astray', e)
      BY <2>6, <2>8, <3>1 DEF CallClear, U
    <3>3. ClaimHeld(stories', e)
      BY <1>3, <2>1, <2>5, <2>8, <3>1 DEF ClaimHeld, U
    <3>4. sched[k].phase = "fire"
      BY <1>2, <2>8 DEF FiredApart, c
    <3> QED
      BY <1>3, <1>5, <2>1, <2>2, <2>4, <3>1, <3>2, <3>3, <3>4
  <2>9. CASE c.op = "record" /\ e.op \in {"record", "reset"} /\ e.t = c.t
                /\ (e.op = "record" => e.arg = c.arg)
    <3>1. CallClear(runs', astray', e)
      BY <2>6, <2>9 DEF CallClear, U
    <3>2. ClaimHeld(stories', e)
      BY <1>3, <2>1, <2>9 DEF ClaimHeld, U
    <3>3. sched[k].phase = "fire"
      BY <1>2, <2>9 DEF FiredApart, c
    <3> QED
      BY <1>3, <1>5, <2>1, <2>2, <2>4, <2>9, <3>1, <3>2, <3>3
  <2>10. CASE c.op = "merge" /\ e.op \in {"done", "failed"} /\ e.t = c.t
    <3>1. CallClear(runs', astray', e) /\ ClaimHeld(stories', e)
      BY <2>6, <2>10 DEF CallClear, ClaimHeld, U
    <3> QED
      BY <1>3, <1>5, <2>1, <2>2, <2>4, <2>10, <3>1
  <2>11. \/ e = NoCall
         \/ c.op = "claim" /\ e = Call("fire", c.t, 0, 0) /\ ok
         \/ /\ c.op = "record" /\ e.op \in {"record", "reset"} /\ e.t = c.t
            /\ e.op = "record" => e.arg = c.arg
         \/ c.op = "merge" /\ e.op \in {"done", "failed"} /\ e.t = c.t
    <3>1. /\ c.op = "claim" => e = NoCall \/ (ok /\ e = Call("fire", c.t, 0, 0))
          /\ c.op = "record" =>
               \/ ok /\ e = NoCall
               \/ ~ok /\ c.again > 0 /\ e = Call("record", c.t, c.arg, c.again - 1)
               \/ ~ok /\ c.again = 0 /\ e = Call("reset", c.t, 0, 0)
          /\ c.op = "merge" => e = NoCall \/ (e.op \in {"done", "failed"} /\ e.t = c.t)
          /\ c.op \notin {"claim", "fire", "record", "merge"} => e = NoCall
      BY <1>1, <2>5, ThenCases
    <3>2. \A n : /\ Call("record", c.t, c.arg, n).op = "record"
                 /\ Call("record", c.t, c.arg, n).t = c.t
                 /\ Call("record", c.t, c.arg, n).arg = c.arg
      BY DEF Call
    <3>3. Call("reset", c.t, 0, 0).op = "reset" /\ Call("reset", c.t, 0, 0).t = c.t
      BY DEF Call
    <3> QED
      BY <1>8, <3>1, <3>2, <3>3
  <2> QED
    BY <2>7, <2>8, <2>9, <2>10, <2>11
<1> QED
  BY <1>7, <1>8

LEMMA DroppedSound ==
  ASSUME TInv, OInv, NEW k \in Schedulers, Dropped(k), RecordArrives
  PROVE  DeskSound(stories', runs', astray', sched'[k])
<1> USE TypesNamed
<1> DEFINE c == sched[k].call
           e == sched'[k].call
<1>1. c \in Requests /\ Members(c.t) \subseteq Stories
  BY DEF Desks, Requests, Units, Members
<1>2. /\ StoriesOwned(stories, runs, astray, c) /\ CallClear(runs, astray, c)
      /\ ClaimHeld(stories, c) /\ FiredApart(sched[k])
  BY DEF OInv, DeskSound
<1>3. /\ UNCHANGED <<stories, runs, astray>> /\ Lost(k) /\ c # NoCall /\ SameList(k)
      /\ e = Then(k, c, FALSE, 0)
  BY DEF Dropped
<1>4. c.op = "record" => c.again # 0
  BY <1>3 DEF RecordArrives
<1>5. NoCall.op = "none"
  BY DEF NoCall, Call
<1>6. ASSUME NEW op, NEW arg, NEW n
      PROVE  /\ Call(op, c.t, arg, n).op = op /\ Call(op, c.t, arg, n).t = c.t
             /\ Call(op, c.t, arg, n).arg = arg
  BY DEF Call
<1> HIDE DEF c, e
<1>7. \/ e = NoCall /\ c.op # "record"
      \/ c.op = "fire" /\ e.op = "reset" /\ e.t = c.t
      \/ c.op = "record" /\ e.op = "record" /\ e.t = c.t /\ e.arg = c.arg
      \/ c.op = "merge" /\ e.op \in {"done", "failed"} /\ e.t = c.t
  <2>1. /\ c.op = "claim" => e = NoCall
        /\ c.op = "fire" => e = Call("reset", c.t, 0, 0)
        /\ c.op = "record" => \/ e = Call("record", c.t, c.arg, c.again - 1)
                              \/ c.again = 0
        /\ c.op = "merge" => e = NoCall \/ (e.op \in {"done", "failed"} /\ e.t = c.t)
        /\ c.op \notin {"claim", "fire", "record", "merge"} => e = NoCall
    <3>1. PICK ok \in BOOLEAN : ~ok /\ e = Then(k, c, ok, 0)
      BY <1>3
    <3> QED
      BY <1>1, <3>1, ThenCases
  <2> QED
    BY <1>4, <1>6, <2>1
<1>8. StoriesOwned(stories, runs, astray, e)
  BY <1>2, <1>7 DEF StoriesOwned
<1>9. CallClear(runs, astray, e)
  BY <1>2, <1>3, <1>5, <1>7 DEF CallClear
<1>10. ClaimHeld(stories, e)
  BY <1>2, <1>5, <1>7 DEF ClaimHeld
<1>11. e.op \in {"claim", "fire", "record"} => sched[k].phase = "fire"
  BY <1>2, <1>5, <1>7 DEF FiredApart, c
<1>12. (e = NoCall \/ e.t = c.t) /\ e.op # "resync"
  BY <1>5, <1>7
<1>13. DeskSound(stories, runs, astray, sched'[k])
  BY <1>3, <1>8, <1>9, <1>10, <1>11, <1>12, AnswerSound DEF c, e
<1> QED
  BY <1>3, <1>13

LEMMA SchedulerStepSound ==
  ASSUME TInv, KInv, OInv, RecordArrives, NEW k \in Schedulers, Schedulers = {k},
         Cycle(k) \/ Unread(k) \/ Lost(k) \/ Unheard(k) \/ Unlisted(k) \/ Crash(k)
  PROVE  Sound
<1> USE TypesNamed
<1> DEFINE c == sched[k].call
<1>1. /\ board' = board
      /\ Listed(k) \/ Visited(k) \/ Served(k) \/ Dropped(k) \/ GaveUp(k) \/ Restarted(k)
  BY DeskSteps
<1>2. Fresh(stories) /\ DeskSound(stories, runs, astray, sched[k])
  BY DEF OInv
<1>3. ASSUME Fresh(stories'), DeskSound(stories', runs', astray', sched'[k])
      PROVE  Sound
  BY <1>1, <1>3 DEF Sound
<1>4. CASE Listed(k)
  BY <1>1, <1>2, <1>3, <1>4, ListedSound DEF Listed
<1>5. CASE Visited(k)
  BY <1>2, <1>3, <1>5, VisitedSound DEF Visited
<1>6. CASE Served(k)
  BY <1>3, <1>6, ServedSound
<1>7. CASE Dropped(k)
  BY <1>2, <1>3, <1>7, DroppedSound DEF Dropped
<1>8. CASE GaveUp(k)
  <2> DEFINE e == Call("failed", c.t, 0, 0)
  <2>1. e.op = "failed" /\ e.t = c.t /\ sched'[k].call = e /\ c.op = "fire"
    BY <1>8 DEF GaveUp, Call
  <2>2. c # NoCall /\ SameList(k) /\ UNCHANGED <<stories, runs, astray>>
    BY <1>8 DEF GaveUp, NoCall, Call
  <2> HIDE DEF e
  <2>3. StoriesOwned(stories, runs, astray, e)
    BY <1>2, <2>1 DEF DeskSound, StoriesOwned
  <2>4. CallClear(runs, astray, e) /\ ClaimHeld(stories, e)
    BY <1>2, <2>1 DEF DeskSound, CallClear, ClaimHeld
  <2>5. DeskSound(stories, runs, astray, sched'[k])
    BY <2>1, <2>2, <2>3, <2>4, AnswerSound
  <2> QED
    BY <1>2, <1>3, <2>2, <2>5
<1>9. CASE Restarted(k)
  <2>1. /\ stories' = stories /\ runs' = runs /\ sched'[k] = Idle
        /\ astray' = astray \cup (IF c.op = "record" THEN {c.arg} ELSE {})
    BY <1>9 DEF Restarted
  <2>2. StoriesOwned(stories, runs, astray', NoCall)
    BY <1>2, <2>1 DEF DeskSound, StoriesOwned, Owns
  <2>3. Idle.call = NoCall /\ Idle.todo = {}
    BY DEF Idle
  <2>4. DeskSound(stories, runs, astray', Idle)
    BY <2>2, <2>3, FreeDesk DEF ListClear
  <2> QED
    BY <1>2, <1>3, <2>1, <2>4
<1> QED
  BY <1>1, <1>4, <1>5, <1>6, <1>7, <1>8, <1>9

LEMMA OtherStepSound ==
  ASSUME TInv, OInv,
         \/ UNCHANGED vars
         \/ \E r \in Runs : RunEnds(r) \/ RunRevives(r) \/ PersonSettles(r) \/ RequeueRun(r)
         \/ \E s \in Stories : Requeue(s) \/ Cancel(s)
  PROVE  Sound
<1> USE TypesNamed
\* Runs end or change hands, and stories that are not running are edited.
<1>1. ASSUME UNCHANGED <<board, sched>>, Fresh(stories'),
             \A s \in Stories : stories[s].status = "running" => stories'[s] = stories[s],
             \A s \in Stories, a \in Runs :
               Owns(runs', astray', s, a) => Owns(runs, astray, s, a)
      PROVE  Sound
  <2>1. \A j \in Schedulers : DeskSound(stories, runs, astray, sched[j]) /\ sched[j] \in Desks
    BY DEF OInv
  <2>2. \A t \in Units : Members(t) \subseteq Stories
    BY DEF Units, Members
  <2>3. \A j \in Schedulers : DeskSound(stories', runs', astray', sched[j])
    BY <1>1, <2>1, <2>2, SoundKept DEF Desks, Requests
  <2> QED
    BY <1>1, <2>3 DEF Sound
<1>2. Fresh(stories)
  BY DEF OInv
<1>3. CASE UNCHANGED vars
  BY <1>1, <1>2, <1>3 DEF vars
<1>4. ASSUME NEW r \in Runs, RunEnds(r) \/ RunRevives(r) \/ PersonSettles(r)
      PROVE  Sound
  <2>1. UNCHANGED <<board, sched, stories>> /\ astray \subseteq astray'
    BY <1>4 DEF RunEnds, Ends, RunRevives, PersonSettles
  <2>2. \/ \E status \in {"DONE", "FAILED"} : \E pr :
             runs' = [runs EXCEPT ![r].status = status, ![r].pr = pr]
        \/ runs' = [runs EXCEPT ![r].status = "RUNNING"] /\ r \in astray'
        \/ \E pr : runs' = [runs EXCEPT ![r].pr = pr]
    BY <1>4 DEF RunEnds, Ends, RunRevives, PersonSettles
  <2>3. \A a \in Runs : /\ runs'[a].covers = runs[a].covers
                        /\ \/ runs'[a].status = runs[a].status
                           \/ runs'[a].status \in {"DONE", "FAILED"}
                           \/ a \in astray'
    BY <2>2 DEF RunTable
  <2>4. \A s \in Stories, a \in Runs : Owns(runs', astray', s, a) => Owns(runs, astray, s, a)
    BY <2>1, <2>3 DEF Owns
  <2> QED
    BY <1>1, <1>2, <2>1, <2>4
<1>5. ASSUME NEW U \in SUBSET Stories, Edited(Requeued(stories, U))
      PROVE  Sound
  <2>1. [s \in Stories |-> NewStory] \in StoryTable
    BY DEF StoryTable, Story, Statuses, NewStory
  <2>2. \A s \in Stories : stories'[s] = IF s \in Rows(stories, U, {"failed"}) THEN NewStory ELSE stories[s]
    BY <1>5, <2>1, UpdateType DEF Edited, Requeued
  <2>3. Fresh(stories') /\ \A s \in Stories : stories[s].status = "running" => stories'[s] = stories[s]
    BY <1>2, <2>2 DEF Fresh, NewStory, Rows
  <2> QED
    BY <1>1, <1>5, <2>3 DEF Edited
<1>6. ASSUME NEW s \in Stories, Cancel(s)
      PROVE  Sound
  <2> DEFINE to == [x \in Stories |-> [stories[x] EXCEPT !.status = "cancelled"]]
             W == Rows(stories, {s}, LegalSources["cancelled"])
  <2>1. to \in StoryTable /\ \A x \in Stories : to[x].status = "cancelled"
    BY DEF StoryTable, Story, Statuses
  <2>2. stories' = Updated(stories, W, to)
    BY <1>6 DEF Cancel, Edited, Moved
  <2>3. \A x \in W : stories[x].status # "running"
    BY DEF Rows, LegalSources
  <2> HIDE DEF to, W
  <2>4. \A x \in Stories : stories'[x] = IF x \in W THEN to[x] ELSE stories[x]
    BY <2>1, <2>2, UpdateType
  <2>5. Fresh(stories') /\ \A x \in Stories : stories[x].status = "running" => stories'[x] = stories[x]
    BY <1>2, <2>1, <2>3, <2>4 DEF Fresh
  <2> QED
    BY <1>1, <1>6, <2>5 DEF Cancel, Edited
<1>7. ASSUME NEW r \in Runs, RequeueRun(r)
      PROVE  Sound
  <2>1. \E U \in SUBSET Stories : Edited(Requeued(stories, U))
    <3> DEFINE S == {s \in Stories : stories[s].run = r}
               W == (S \ board.sprint) \cup (IF S \cap board.sprint = {} THEN {} ELSE board.sprint)
    <3>1. W \in SUBSET Stories
      OBVIOUS
    <3>2. Edited(Requeued(stories, W))
      BY <1>7 DEF RequeueRun
    <3> HIDE DEF W
    <3> QED
      BY <3>1, <3>2
  <2> QED
    BY <1>5, <2>1
<1>8. ASSUME NEW s \in Stories, Requeue(s)
      PROVE  Sound
  BY <1>5, <1>8 DEF Requeue
<1> QED
  BY <1>3, <1>4, <1>6, <1>7, <1>8

LEMMA InitSound == Init => OInv
<1> SUFFICES ASSUME Init
             PROVE  OInv
  OBVIOUS
<1>1. StoriesOwned(stories, runs, astray, NoCall) /\ ListClear(runs, astray, Idle)
  BY DEF Init, StoriesOwned, Owns, ListClear, Idle
<1>2. Fresh(stories)
  BY DEF Init, Fresh, NewStory
<1>3. Idle.call = NoCall /\ Idle.todo = {}
  BY DEF Idle
<1>4. DeskSound(stories, runs, astray, Idle)
  BY <1>1, <1>3, FreeDesk
<1> QED
  BY <1>2, <1>4 DEF Init, OInv

\* Two live runs never implement one story, unless a scheduler was not told of
\* one of them or one failed and was retried: NoDoubleFire, for one scheduler
\* and any number of runs, restarts, edits and lost requests, but for both
\* requests to record one run.
THEOREM NothingFiresTwice ==
  ASSUME OneScheduler, OnlyPlainBoards
  PROVE  Spec /\ [][RecordArrives]_vars => []NoDoubleFire
<1>1. TInv /\ KInv /\ OInv /\ [Next]_vars /\ [RecordArrives]_vars => OInv'
  <2> SUFFICES ASSUME TInv, KInv, OInv, [Next]_vars, [RecordArrives]_vars
               PROVE  OInv'
    OBVIOUS
  <2>1. PICK k : Schedulers = {k}
    BY DEF OneScheduler
  <2>2. Sound
    <3>1. CASE UNCHANGED vars
      BY <3>1, OtherStepSound
    <3>2. CASE Next /\ RecordArrives
      BY <2>1, <3>2, SchedulerStepSound, OtherStepSound DEF Next
    <3> QED
      BY <3>1, <3>2
  <2> QED
    BY <2>2 DEF Sound, OInv, Fresh, DeskSound, StoriesOwned, ListClear, CallClear, ClaimHeld,
                FiredApart, RevivedAlone, Owns, Members
<1>2. TInv /\ OInv => NoDoubleFire
  <2> SUFFICES ASSUME TInv, OInv, NEW s \in Stories,
                      NEW a \in Alive(s), NEW b \in Alive(s), {a, b} \cap astray = {}
               PROVE  a = b
    BY DEF NoDoubleFire
  <2>1. PICK k \in Schedulers : DeskSound(stories, runs, astray, sched[k])
    BY DEF OneScheduler, OInv
  <2>2. /\ a \in Runs /\ b \in Runs /\ a # 0 /\ b # 0
        /\ Owns(runs, astray, s, a) /\ Owns(runs, astray, s, b)
    BY TypesNamed DEF Alive, Owns
  <2> QED
    BY <2>1, <2>2 DEF DeskSound, StoriesOwned
<1>3. Init => TInv /\ KInv /\ OInv
  BY InitTyped, InitBacked, InitSound
<1>4. TInv /\ KInv /\ [Next]_vars => (TInv /\ KInv)'
  BY NextTyped, TypedIsTyped, NextBacked, BackedIsBacked
<1> QED
  BY <1>1, <1>2, <1>3, <1>4, PTL DEF Spec
=============================================================================
