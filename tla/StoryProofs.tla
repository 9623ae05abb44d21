---------------------------- MODULE StoryProofs ----------------------------
(***************************************************************************)
(* Two modules about stories: Conductor, and after it Backlog.             *)
(*                                                                         *)
(* A story of a GitHub project has one agent: for any stories, units,      *)
(* agents, thresholds and bound on GitHub's events, and with webhooks,     *)
(* buttons, hand edits and failing reads.                                  *)
(*                                                                         *)
(* An agent that starts is anchored twice: by the session its story's row  *)
(* keeps (Anchored), and, until the row is written, by the dispatch that   *)
(* will write it (Marks, DispatchSound).  A pass decides from a copy of the*)
(* rows; nothing starts or is marked beside it (OneAtATime), so what it    *)
(* copied still covers every agent when it writes (PassSees).  The first   *)
(* overlap, or a call whose answer or URL is lost, ends the claim, and the *)
(* property with it.                                                       *)
(***************************************************************************)
EXTENDS Conductor, Backlog, FiniteSetTheorems, SequenceTheorems, WellFoundedInduction, TLAPS

\* Every agent is a Copilot task started by the channel that answers with its URL.
\* An agent known by its label only may lose it, and its story a second one.
TaskSessions == Executor = "copilot" /\ "channel" \notin Faults

Rows == [status : {"backlog", "running", "in_review", "done"}, pr : Nat, lost : BOOLEAN,
         session : Nat]
Issues == [open : BOOLEAN, label : {FALSE}, assigned : BOOLEAN]
AgentTasks == [kind : {"copilot"}, state : {"starting", "working", "ended", "failed", "purged"},
               work : SUBSET Stories, pr : {"none", "draft", "ready", "merged", "closed"}, age : Nat]
Dispatches == [pc : {"idle", "fire", "mark", "session"}, unit : SUBSET Stories, session : Nat,
               left : SUBSET Stories]

StoreTypes ==
    /\ story \in [Stories -> Rows]
    /\ issue \in [Stories -> Issues]

AgentTypes == agents \in Seq(AgentTasks) /\ Len(agents) <= MaxAgents

LoopTypes ==
    /\ disp \in [Dispatchers -> Dispatches]
    /\ tick.cands \subseteq {u \in Units : u # {}}
    /\ tick = [pc |-> tick.pc, cands |-> tick.cands]

PassTypes ==
    /\ sync.pc \in {"idle", "read", "sweep", "write"}
    /\ sync.pc \in {"sweep", "write"} => sync.issues \in [Stories -> Issues]
    /\ sync.pc \in {"sweep", "write"} => \A s \in Stories : sync.prs[s].agent \in Nat
    /\ sync.pc = "write" =>
           sync = [pc |-> "write", rows |-> sync.rows, prs |-> sync.prs, issues |-> sync.issues,
                   sessions |-> sync.sessions, live |-> sync.live, left |-> sync.left,
                   dead |-> sync.dead]

WorksOn(k, s) == k \in DOMAIN agents /\ Live(k) /\ s \in agents[k].work
Marks(d, s) == disp[d].pc \in {"mark", "session"} /\ s \in disp[d].left

\* Without an overlap there is one dispatch, or one pass.
OneAtATime ==
    /\ \A d, e \in Dispatchers : disp[d].pc # "idle" /\ disp[e].pc # "idle" => d = e
    /\ \A d \in Dispatchers : disp[d].pc # "idle" => sync.pc = "idle"

\* A dispatch starts an agent for stories of the backlog, and marks them for it.
DispatchSound ==
    \A d \in Dispatchers :
        /\ disp[d].pc = "fire" =>
               disp[d].unit # {} /\ \A s \in disp[d].unit : story[s].status = "backlog"
        /\ disp[d].pc \in {"mark", "session"} => disp[d].left # {}
        /\ disp[d].pc = "session" => story[Min(disp[d].left)].status = "running"
        /\ \A s \in Stories, k \in Agents : Marks(d, s) /\ WorksOn(k, s) => k = disp[d].session

\* An agent at work is the session of its story, which is not in the backlog.
Anchored ==
    \A s \in Stories, k \in Agents :
        WorksOn(k, s) /\ (\A d \in Dispatchers : ~Marks(d, s)) =>
            story[s].session = k /\ story[s].status # "backlog"

\* A pass writes with these sessions, and with none of them dead.
PassSees ==
    sync.pc = "write" =>
        \A s \in Stories, k \in Agents :
            WorksOn(k, s) => sync.sessions[s] = k /\ s \notin sync.dead

Good ==
    /\ StoreTypes /\ AgentTypes /\ LoopTypes /\ PassTypes
    /\ OneAtATime /\ DispatchSound /\ Anchored /\ PassSees

TaskInv == overlap \in BOOLEAN /\ (~overlap => Good)

LEMMA StoriesAreNumbers == IsFiniteSet(Stories) /\ Stories \subseteq Nat \ {0}
<1>1. Cardinality(Stories) \in Nat
  BY ConductorAssumption, FS_CardinalityType
<1> QED
  BY <1>1, ConductorAssumption

LEMMA LessWF == IsWellFoundedOn({p \in Nat \X Nat : p[1] < p[2]}, Nat)
<1>1. {p \in Nat \X Nat : p[1] < p[2]} = OpToRel(<, Nat)
  BY DEF OpToRel
<1> QED
  BY <1>1, NatLessThanWellFounded

\* A set of stories has a first one, which is its Min.
LEMMA FirstStory ==
    ASSUME NEW S \in SUBSET Nat, S # {}
    PROVE  Min(S) \in S /\ \A t \in S : Min(S) <= t
<1> DEFINE Less == {p \in Nat \X Nat : p[1] < p[2]}
<1>1. PICK a \in S : \A i \in S : <<i, a>> \notin Less
  BY LessWF, WFMin
<1>2. \A i \in S : <<i, a>> \in Nat \X Nat /\ <<i, a>>[1] = i /\ <<i, a>>[2] = a
  OBVIOUS
<1>3. \A i \in S : ~(i < a)
  BY <1>1, <1>2
<1>4. \A i \in S : a <= i
  BY <1>3
<1> QED
  BY <1>4 DEF Min

LEMMA LastAgent ==
    ASSUME NEW n \in Nat, NEW S \in SUBSET (1 .. n), S # {}
    PROVE  Max(S) \in S
<1> DEFINE T == {n - i : i \in S}
           Less == {p \in Nat \X Nat : p[1] < p[2]}
<1>1. T \in SUBSET Nat /\ T # {}
  <2>1. PICK i \in S : TRUE
    OBVIOUS
  <2>2. n - i \in T /\ \A k \in S : n - k \in Nat
    BY <2>1
  <2> QED
    BY <2>2
<1> HIDE DEF T
<1>2. PICK a \in T : \A i \in T : Min(T) \in T /\ Min(T) <= i
  BY <1>1, FirstStory
<1>3. PICK b \in S : Min(T) = n - b
  BY <1>2 DEF T
<1>4. \A i \in S : n - i \in T
  BY DEF T
<1>5. \A i \in S : n - b <= n - i
  BY <1>2, <1>3, <1>4
<1>6. \A i \in S : b >= i
  BY <1>5
<1> QED
  BY <1>6 DEF Max

LEMMA TaskInvInit == Init => TaskInv
<1> SUFFICES ASSUME Init PROVE Good
  BY DEF Init, TaskInv
<1>1. StoreTypes
  BY DEF Init, StoreTypes, Rows, Issues, NoSession
<1>2. AgentTypes /\ DOMAIN agents = {}
  BY ConductorAssumption DEF Init, AgentTypes
<1>3. LoopTypes
  BY DEF Init, LoopTypes, IdleDisp, Dispatches, NoSession
<1>4. PassTypes /\ sync.pc = "idle"
  BY DEF Init, PassTypes, Idle
<1>5. \A d \in Dispatchers : disp[d].pc = "idle"
  BY DEF Init, IdleDisp
<1> QED
  BY <1>1, <1>2, <1>3, <1>4, <1>5 DEF Good, OneAtATime, DispatchSound, Anchored, PassSees, WorksOn


-----------------------------------------------------------------------------
\* Agents keep their kind and their work; they may stop, never start again.
Wanes ==
    /\ AgentTypes'
    /\ \A s \in Stories, k \in Agents : WorksOn(k, s)' => WorksOn(k, s)

LEMMA WaneKeeps ==
    ASSUME Good, Wanes, UNCHANGED <<story, disp>>
    PROVE  DispatchSound' /\ Anchored'
<1>1. \A s \in Stories, d \in Dispatchers : Marks(d, s)' = Marks(d, s)
  BY DEF Marks
<1>2. DispatchSound'
  BY <1>1 DEF Good, DispatchSound, Wanes
<1>3. Anchored'
  BY <1>1 DEF Good, Anchored, Wanes
<1> QED
  BY <1>2, <1>3

LEMMA IdlePasses ==
    ASSUME \A d \in Dispatchers : disp'[d].pc = "idle"
    PROVE  OneAtATime'
  BY DEF OneAtATime

LEMMA SameList ==
    ASSUME AgentTypes, NEW f, f = [k \in DOMAIN agents |-> f[k]],
           \A k \in DOMAIN agents : f[k] \in AgentTasks
    PROVE  f \in Seq(AgentTasks) /\ Len(f) = Len(agents) /\ DOMAIN f = DOMAIN agents
<1> DEFINE n == Len(agents)
<1>1. DOMAIN agents = 1..n /\ n \in Nat
  BY DEF AgentTypes
<1>2. f \in [1..n -> AgentTasks]
  BY <1>1
<1>3. f \in Seq(AgentTasks) /\ DOMAIN f = 1..n
  BY <1>1, <1>2
<1>4. Len(f) = n
  BY <1>1, <1>3
<1> QED
  BY <1>1, <1>3, <1>4

\* A step of one agent.
LEMMA AgentWanes ==
    ASSUME AgentTypes, NEW k \in DOMAIN agents, NEW st, NEW pr,
           agents' = [agents EXCEPT ![k].state = st, ![k].pr = pr],
           st \in {"starting", "working", "ended", "failed", "purged"},
           pr \in {"none", "draft", "ready", "merged", "closed"},
           st \in {"starting", "working"} => Live(k)
    PROVE  Wanes
<1>0. \A j \in DOMAIN agents : agents[j] \in AgentTasks
  BY DEF AgentTypes
<1>1. agents' \in Seq(AgentTasks) /\ Len(agents') = Len(agents) /\ DOMAIN agents' = DOMAIN agents
  <2>1. \A j \in DOMAIN agents : agents'[j] \in AgentTasks
    BY <1>0 DEF AgentTasks
  <2> QED
    BY <2>1, SameList
<1>2. AgentTypes'
  BY <1>1 DEF AgentTypes
<1>3. \A j \in DOMAIN agents : agents'[j] = IF j = k THEN [agents[k] EXCEPT !.state = st, !.pr = pr]
                                           ELSE agents[j]
  BY DEF AgentTypes
<1>4. agents[k] \in AgentTasks
  BY DEF AgentTypes
<1>5. agents'[k].work = agents[k].work /\ agents'[k].state = st
  BY <1>3, <1>4 DEF AgentTasks
<1>6. \A s \in Stories, j \in Agents : WorksOn(j, s)' => WorksOn(j, s)
  BY <1>1, <1>3, <1>5 DEF WorksOn, Live
<1> QED
  BY <1>2, <1>6 DEF Wanes

\* A step after which the agents are as before, but for their age.
LEMMA AgeWanes ==
    ASSUME AgentTypes,
           agents' = [k \in DOMAIN agents |->
                        IF agents[k].state = "starting" /\ agents[k].age < MaterialiseTicks
                        THEN [agents[k] EXCEPT !.age = @ + 1] ELSE agents[k]]
    PROVE  Wanes
<1>0. \A j \in DOMAIN agents : agents[j] \in AgentTasks
  BY DEF AgentTypes
<1>1. agents' \in Seq(AgentTasks) /\ Len(agents') = Len(agents) /\ DOMAIN agents' = DOMAIN agents
  <2>1. \A j \in DOMAIN agents : agents'[j] \in AgentTasks
    BY <1>0 DEF AgentTasks
  <2> QED
    BY <2>1, SameList
<1>2. \A j \in DOMAIN agents : agents'[j].work = agents[j].work /\ agents'[j].state = agents[j].state
  BY DEF AgentTypes, AgentTasks
<1>3. \A s \in Stories, j \in Agents : WorksOn(j, s)' => WorksOn(j, s)
  BY <1>1, <1>2 DEF WorksOn, Live
<1> QED
  BY <1>1, <1>3 DEF Wanes, AgentTypes

LEMMA MergeWanes ==
    ASSUME AgentTypes, NEW K, agents' = [k \in DOMAIN agents |->
               IF k \in K THEN [agents[k] EXCEPT !.pr = "merged"] ELSE agents[k]]
    PROVE  Wanes
<1>0. \A j \in DOMAIN agents : agents[j] \in AgentTasks
  BY DEF AgentTypes
<1>1. agents' \in Seq(AgentTasks) /\ Len(agents') = Len(agents) /\ DOMAIN agents' = DOMAIN agents
  <2>1. \A j \in DOMAIN agents : agents'[j] \in AgentTasks
    BY <1>0 DEF AgentTasks
  <2> QED
    BY <2>1, SameList
<1>2. \A j \in DOMAIN agents : agents'[j].work = agents[j].work /\ agents'[j].state = agents[j].state
  BY DEF AgentTypes, AgentTasks
<1>3. \A s \in Stories, j \in Agents : WorksOn(j, s)' => WorksOn(j, s)
  BY <1>1, <1>2 DEF WorksOn, Live
<1> QED
  BY <1>1, <1>3 DEF Wanes, AgentTypes

LEMMA SameWanes ==
    ASSUME AgentTypes, UNCHANGED agents
    PROVE  Wanes
  BY DEF AgentTypes, Wanes, WorksOn, Live

-----------------------------------------------------------------------------
\* GitHub goes on.
LEMMA GitHubKeeps ==
    ASSUME Good, UNCHANGED <<story, disp, tick, sync>>, Wanes, issue' \in [Stories -> Issues]
    PROVE  Good'
<1>1. DispatchSound' /\ Anchored'
  BY WaneKeeps
<1>2. StoreTypes' /\ LoopTypes' /\ PassTypes' /\ OneAtATime'
  BY DEF Good, StoreTypes, LoopTypes, PassTypes, OneAtATime
<1>3. PassSees'
  BY DEF Good, PassSees, Wanes
<1> QED
  BY <1>1, <1>2, <1>3 DEF Good, Wanes

LEMMA GitHubSteps ==
    ASSUME Good, GitHubNext
    PROVE  Good'
<1>0. UNCHANGED <<story, disp, tick, sync>>
  BY DEF GitHubNext, AgentStarts, AgentOpensPR, AgentEnds, AgentDies, TaskIsPurged, PersonMerges,
         PersonEdits, WorldOnly
<1>1. AgentTypes /\ issue \in [Stories -> Issues]
  BY DEF Good, StoreTypes
<1>2. \A k \in DOMAIN agents : agents[k] \in AgentTasks /\ agents[k].kind = "copilot"
  <2>1. \A k \in DOMAIN agents : agents[k] \in AgentTasks
    BY <1>1 DEF AgentTypes
  <2> QED
    BY <2>1 DEF AgentTasks
<1>3. ASSUME NEW k \in DOMAIN agents, NEW v, SetLabel(k, v)
      PROVE  issue' \in [Stories -> Issues]
  BY <1>1, <1>2, <1>3 DEF SetLabel
<1>4. ASSUME NEW k \in DOMAIN agents,
             AgentStarts(k) \/ AgentEnds(k) \/ AgentDies(k) \/ TaskIsPurged(k)
      PROVE  Wanes /\ issue' \in [Stories -> Issues]
  <2>1. issue' \in [Stories -> Issues]
    BY <1>1, <1>3, <1>4 DEF AgentStarts, AgentEnds, AgentDies, TaskIsPurged
  <2>2. PICK st \in {"working", "ended", "failed", "purged"} :
          /\ agents' = [agents EXCEPT ![k].state = st]
          /\ st = "working" => Live(k)
    BY <1>4 DEF AgentStarts, AgentEnds, AgentDies, TaskIsPurged, SetState, Live
  <2>3. agents' = [agents EXCEPT ![k].state = st, ![k].pr = agents[k].pr]
    BY <1>1, <1>2, <2>2 DEF AgentTypes, AgentTasks
  <2>4. agents[k].pr \in {"none", "draft", "ready", "merged", "closed"}
    BY <1>2 DEF AgentTasks
  <2> QED
    BY <1>1, <2>1, <2>2, <2>3, <2>4, AgentWanes
<1>5. ASSUME NEW k \in DOMAIN agents, NEW pr \in {"draft", "ready", "closed"},
             agents' = [agents EXCEPT ![k].pr = pr]
      PROVE  Wanes
  <2>1. agents' = [agents EXCEPT ![k].state = agents[k].state, ![k].pr = pr]
    BY <1>1, <1>2, <1>5 DEF AgentTypes, AgentTasks
  <2>2. agents[k].state \in {"starting", "working", "ended", "failed", "purged"}
    BY <1>2 DEF AgentTasks
  <2> QED
    BY <1>1, <2>1, <2>2, AgentWanes DEF Live
<1>6. ASSUME NEW k \in DOMAIN agents, AgentOpensPR(k)
      PROVE  Wanes /\ issue' \in [Stories -> Issues]
  BY <1>1, <1>5, <1>6 DEF AgentOpensPR
<1>7. ASSUME NEW K, NEW C, Merged(K, C)
      PROVE  Wanes /\ issue' \in [Stories -> Issues]
  <2>1. Wanes
    BY <1>1, <1>7, MergeWanes DEF Merged
  <2>2. issue' \in [Stories -> Issues]
    BY <1>1, <1>7 DEF Merged, Issues
  <2> QED
    BY <2>1, <2>2
<1>8. ASSUME NEW k \in DOMAIN agents, PersonMerges(k)
      PROVE  Wanes /\ issue' \in [Stories -> Issues]
  BY <1>7, <1>8 DEF PersonMerges
<1>9. CASE PersonEdits
  <2>1. CASE \E k \in DOMAIN agents : agents' = [agents EXCEPT ![k].pr = "closed"] /\ UNCHANGED issue
    BY <1>0, <1>1, <1>5, <2>1, GitHubKeeps
  <2>2. ASSUME NEW s \in Stories, UNCHANGED agents,
               issue' = [issue EXCEPT ![s].open = ~@] \/ issue' = [issue EXCEPT ![s].assigned = ~@]
        PROVE  Good'
    <3>1. issue' \in [Stories -> Issues]
      BY <1>1, <2>2 DEF Issues
    <3> QED
      BY <1>0, <1>1, <2>2, <3>1, SameWanes, GitHubKeeps
  <2> QED
    BY <1>9, <2>1, <2>2 DEF PersonEdits
<1> QED
  BY <1>0, <1>4, <1>6, <1>8, <1>9, GitHubKeeps DEF GitHubNext

-----------------------------------------------------------------------------
\* The passes.
NoDispatch == \A d \in Dispatchers : disp[d].pc = "idle"

LEMMA PassAlone == ASSUME Good, sync.pc # "idle" PROVE NoDispatch
  BY DEF Good, OneAtATime, NoDispatch

\* Who reads leaves the stories as they are.
LEMMA ReadKeeps ==
    ASSUME Good, NoDispatch, UNCHANGED <<story, disp>>, Wanes, issue' \in [Stories -> Issues],
           LoopTypes', PassTypes', PassSees'
    PROVE  Good'
<1>1. DispatchSound' /\ Anchored'
  BY WaneKeeps
<1>2. StoreTypes' /\ OneAtATime'
  BY IdlePasses DEF Good, StoreTypes, NoDispatch
<1> QED
  BY <1>1, <1>2 DEF Good, Wanes

LEMMA PassStarts ==
    ASSUME Good, ~overlap', TickStarts \/ WebhookStarts
    PROVE  Good'
<1>1. NoDispatch
  BY DEF TickStarts, WebhookStarts, Dispatching, NoDispatch
<1>2. UNCHANGED <<story, disp, issue>> /\ AgentTypes
  BY DEF TickStarts, WebhookStarts, github, Good
<1>3. Wanes
  BY <1>2, AgeWanes, SameWanes DEF TickStarts, WebhookStarts, github
<1>4. LoopTypes'
  BY DEF Good, LoopTypes, TickStarts, WebhookStarts
<1>5. SyncBegins \/ UNCHANGED sync
  BY DEF TickStarts, WebhookStarts
<1>6. PassTypes'
  BY <1>5 DEF SyncBegins, Good, PassTypes
<1>7. PassSees'
  BY <1>3, <1>5 DEF SyncBegins, Good, PassSees, Wanes
<1>8. issue' \in [Stories -> Issues]
  BY <1>2 DEF Good, StoreTypes
<1> QED
  BY <1>1, <1>2, <1>3, <1>4, <1>6, <1>7, <1>8, ReadKeeps

LEMMA PRIsNumber ==
    ASSUME AgentTypes, NEW s \in Stories
    PROVE  PRFor(s) \in Nat
<1> DEFINE ready == {k \in OpenPRs(s) : agents[k].pr = "ready"}
<1>1. Len(agents) \in Nat /\ DOMAIN agents = 1 .. Len(agents)
  BY DEF AgentTypes
<1>2. OpenPRs(s) \subseteq 1 .. Len(agents) /\ ready \subseteq OpenPRs(s)
  BY <1>1 DEF OpenPRs, AgentsOf
<1>3. ready # {} => Max(ready) \in ready
  BY <1>1, <1>2, LastAgent
<1>4. OpenPRs(s) # {} => Min(OpenPRs(s)) \in OpenPRs(s)
  BY <1>2, FirstStory
<1> QED
  BY <1>2, <1>3, <1>4 DEF PRFor

LEMMA PassReads ==
    ASSUME Good, SyncReadsGitHub
    PROVE  Good'
<1>1. NoDispatch
  BY PassAlone DEF SyncReadsGitHub
<1>2. UNCHANGED <<story, disp, issue, agents>> /\ AgentTypes /\ issue \in [Stories -> Issues]
  BY DEF SyncReadsGitHub, github, Good, StoreTypes
<1>3. LoopTypes'
  BY DEF Good, LoopTypes, SyncReadsGitHub
<1>4. \/ sync' = Idle
      \/ /\ sync'.pc = "sweep" /\ sync'.issues = issue
         /\ \A s \in Stories : sync'.prs[s].agent = PRFor(s)
  BY DEF SyncReadsGitHub
<1>5. PassTypes' /\ PassSees'
  BY <1>2, <1>4, PRIsNumber DEF PassTypes, PassSees, Idle
<1> QED
  BY <1>1, <1>2, <1>3, <1>5, SameWanes, ReadKeeps

LEMMA PassSweeps ==
    ASSUME Good, SyncSweeps
    PROVE  Good'
<1> DEFINE sessions == [s \in Stories |-> story[s].session]
<1>1. NoDispatch
  BY PassAlone DEF SyncSweeps
<1>2. UNCHANGED <<story, disp, agents, tick>> /\ AgentTypes
  BY DEF SyncSweeps, Good
<1>3. LoopTypes'
  BY <1>2 DEF Good, LoopTypes
<1> DEFINE polled == {sessions[s] : s \in Stories} \cap Agents
           streak(read) == [k \in Agents |->
               IF k \notin polled THEN notFound[k]
               ELSE IF k \notin read \/ agents[k].state # "purged" THEN 0
               ELSE IF notFound[k] < notFoundDeathThreshold THEN notFound[k] + 1 ELSE notFound[k]]
           closes == {s \in Stories :
               /\ sync.issues[s].open /\ sync.prs[s].agent = 0
               /\ sync.rows[s].pr # 0 /\ agents[sync.rows[s].pr].pr = "merged"}
           Swept(read, live) ==
               /\ sync' = [pc |-> "write", rows |-> sync.rows, prs |-> sync.prs,
                       issues |-> [s \in Stories |->
                           IF s \in closes THEN [sync.issues[s] EXCEPT !.open = FALSE]
                                           ELSE sync.issues[s]],
                       sessions |-> sessions, live |-> live, left |-> Stories,
                       dead |-> {s \in Stories :
                           /\ sessions[s] \in read
                           /\ TaskReadDead(sessions[s], streak(read)[sessions[s]])}]
               /\ issue' = [s \in Stories |-> IF s \in closes
                                              THEN [issue[s] EXCEPT !.open = FALSE] ELSE issue[s]]
<1>4. PICK read, live : Swept(read, live)
  <2> DEFINE listed == \E k \in DOMAIN agents :
                           agents[k].kind = "claude_action" /\ agents[k].state = "working"
  <2>1. Swept(polled, listed) \/ Swept({}, listed) \/ Swept(polled, TRUE)
    BY DEF SyncSweeps
  <2> HIDE DEF Swept, polled, listed
  <2> QED
    BY <2>1
<1>5. issue' \in [Stories -> Issues]
  BY <1>4 DEF Good, StoreTypes, Issues
<1>6. sync.issues \in [Stories -> Issues]
  BY DEF Good, PassTypes, SyncSweeps
<1>7. /\ sync'.pc = "write" /\ sync'.issues \in [Stories -> Issues]
      /\ \A s \in Stories : sync'.prs[s].agent \in Nat
  <2>1. sync'.issues \in [Stories -> Issues]
    BY <1>4, <1>6 DEF Issues
  <2>2. sync'.pc = "write" /\ sync'.prs = sync.prs
    BY <1>4
  <2>3. \A s \in Stories : sync.prs[s].agent \in Nat
    BY DEF Good, PassTypes, SyncSweeps
  <2> QED
    BY <2>1, <2>2, <2>3
<1>8. PassTypes'
  BY <1>4, <1>7 DEF PassTypes
<1>9. PassSees'
  <2> SUFFICES ASSUME NEW s \in Stories, NEW k \in Agents, WorksOn(k, s)'
               PROVE  sync'.sessions[s] = k /\ s \notin sync'.dead
    BY DEF PassSees
  <2>1. WorksOn(k, s) /\ \A d \in Dispatchers : ~Marks(d, s)
    BY <1>1, <1>2 DEF WorksOn, Live, NoDispatch, Marks
  <2>2. sessions[s] = k
    BY <2>1 DEF Good, Anchored
  <2>3. agents[k].state \notin {"failed", "purged"}
    BY <2>1 DEF WorksOn, Live
  <2>4. ~TaskReadDead(sessions[s], streak(read)[sessions[s]])
    BY <2>2, <2>3 DEF TaskReadDead
  <2> QED
    BY <1>4, <2>2, <2>4
<1> QED
  BY <1>1, <1>2, <1>3, <1>5, <1>8, <1>9, SameWanes, ReadKeeps

\* A store operation makes a row of a row, and takes the session with the
\* return to the backlog only.
LEMMA Synced ==
    ASSUME NEW row \in Rows, NEW st \in {"backlog", "running", "in_review", "done"}, NEW pr \in Nat
    PROVE  /\ SyncExternalStatus(row, st, pr) \in Rows
           /\ SyncExternalStatus(row, st, pr).status = st
  BY DEF SyncExternalStatus, Rows, NoSession

LEMMA SessionStays ==
    ASSUME NEW row \in Rows, NEW st \in {"running", "in_review", "done"}, NEW pr \in Nat
    PROVE  SyncExternalStatus(row, st, pr).session = row.session
  BY DEF SyncExternalStatus, Rows

LEMMA SessionSet ==
    ASSUME NEW row \in Rows, NEW url \in Nat
    PROVE  /\ SetStorySession(row, url) \in Rows
           /\ SetStorySession(row, url).status = row.status
           /\ SetStorySession(row, url).session = url
  BY DEF SetStorySession, Rows

LEMMA Dropped ==
    ASSUME NEW row \in Rows
    PROVE  /\ [row EXCEPT !.session = NoSession] \in Rows
           /\ [row EXCEPT !.session = NoSession].status = row.status
           /\ [row EXCEPT !.lost = TRUE] \in Rows
           /\ [row EXCEPT !.lost = TRUE].session = row.session
  BY DEF Rows, NoSession

LEMMA PassWrites ==
    ASSUME Good, NEW s \in Stories, SyncWrites(s)
    PROVE  Good'
<1>1. NoDispatch /\ sync.pc = "write"
  BY PassAlone DEF SyncWrites
<1>2. UNCHANGED <<disp, agents, tick>> /\ AgentTypes /\ LoopTypes'
  BY DEF SyncWrites, Good, LoopTypes
<1>3. /\ sync.issues[s] \in Issues
      /\ story[s] \in Rows /\ DOMAIN story = Stories /\ issue \in [Stories -> Issues]
  BY <1>1 DEF Good, PassTypes, StoreTypes
<1>4. sync.issues[s].open \in BOOLEAN /\ sync.issues[s].label = FALSE /\ sync.issues[s].assigned \in BOOLEAN
  BY <1>3 DEF Issues
<1>5. sync' = [sync EXCEPT !.left = @ \ {s}]
  BY DEF SyncWrites
<1>6. /\ sync'.pc = "write" /\ sync'.prs = sync.prs /\ sync'.issues = sync.issues /\ sync'.sessions = sync.sessions
      /\ sync'.dead = sync.dead
      /\ sync' = [pc |-> "write", rows |-> sync'.rows, prs |-> sync'.prs, issues |-> sync'.issues,
                  sessions |-> sync'.sessions, live |-> sync'.live, left |-> sync'.left,
                  dead |-> sync'.dead]
  BY <1>1, <1>5 DEF Good, PassTypes
<1>7. PassTypes'
  BY <1>1, <1>6 DEF Good, PassTypes
<1>8. issue' \in [Stories -> Issues]
  <2>1. issue' = issue \/ issue' = [issue EXCEPT ![s].label = FALSE]
    BY <1>3, <1>4 DEF SyncWrites, Issues
  <2> QED
    BY <1>3, <2>1 DEF Issues
<1>9. \A k \in Agents, t \in Stories : WorksOn(k, t)' = WorksOn(k, t)
  BY <1>2 DEF WorksOn, Live
<1>10. PassSees'
  BY <1>1, <1>6, <1>9 DEF Good, PassSees
<1> DEFINE asked == isTaskSession(sync.sessions[s])
<1>11. PICK row, target, pr :
         /\ story' = [story EXCEPT ![s] = SyncExternalStatus(row, target, pr)]
         /\ \/ row = [story[s] EXCEPT !.lost = TRUE]
            \/ row = story[s]
         /\ target \in {"backlog", "running", "in_review", "done"} /\ pr \in Nat
         /\ asked /\ s \notin sync.dead => target # "backlog"
  <2> DEFINE iss == sync.issues[s]
             prs == sync.prs[s]
             bare == iss.open /\ prs.agent = 0 /\ ~iss.assigned
             lostTask == [story[s] EXCEPT !.lost = TRUE]
             dying == /\ bare /\ isTaskSession(sync.sessions[s])
                      /\ s \in sync.dead /\ sync.rows[s].status = "running"
                      /\ ~sync.rows[s].lost
             goal == CASE ~iss.open -> "done"
                       [] iss.open /\ prs.agent # 0 -> IF prs.draft THEN "running" ELSE "in_review"
                       [] iss.open /\ prs.agent = 0 /\ iss.assigned -> "running"
                       [] bare -> IF isTaskSession(sync.sessions[s]) /\ s \notin sync.dead
                                  THEN "running" ELSE "backlog"
             nr == IF iss.open THEN prs.agent ELSE 0
             base == IF dying THEN lostTask ELSE story[s]
  <2>1. (bare /\ iss.label) = FALSE
    BY <1>4
  <2>2. story' = [story EXCEPT ![s] = SyncExternalStatus(base, goal, nr)]
    BY <1>4, <2>1 DEF SyncWrites
  <2>3. /\ asked /\ s \notin sync.dead => goal # "backlog"
        /\ goal \in {"backlog", "running", "in_review", "done"}
    BY <1>4
  <2>5. nr \in Nat
    BY <1>1 DEF Good, PassTypes
  <2>4. base = lostTask \/ base = story[s]
    OBVIOUS
  <2> HIDE DEF base, goal, nr, lostTask, asked
  <2> SUFFICES \E row, target, pr :
         /\ story' = [story EXCEPT ![s] = SyncExternalStatus(row, target, pr)]
         /\ row = lostTask \/ row = story[s]
         /\ target \in {"backlog", "running", "in_review", "done"} /\ pr \in Nat
         /\ asked /\ s \notin sync.dead => target # "backlog"
    BY DEF lostTask
  <2> WITNESS base, goal, nr
  <2> QED
    BY <2>2, <2>3, <2>4, <2>5
<1>12. row \in Rows /\ row.session = story[s].session
  BY <1>3, <1>11, Dropped
<1>13. \A t \in Stories : story'[t] = IF t = s THEN SyncExternalStatus(row, target, pr) ELSE story[t]
  BY <1>3, <1>11
<1>14. StoreTypes'
  BY <1>3, <1>8, <1>11, <1>12, <1>13, Synced DEF Good, StoreTypes
<1>15. Anchored'
  <2> SUFFICES ASSUME NEW t \in Stories, NEW k \in Agents, WorksOn(k, t)
               PROVE  story'[t].session = k /\ story'[t].status # "backlog"
    BY <1>9 DEF Anchored
  <2>1. story[t].session = k /\ story[t].status # "backlog"
    BY <1>1 DEF Good, Anchored, NoDispatch, Marks
  <2>2. sync.sessions[t] = k /\ t \notin sync.dead
    BY <1>1 DEF Good, PassSees
  <2>3. t = s => target # "backlog"
    BY <1>11, <2>2 DEF isTaskSession
  <2>4. ASSUME t = s
        PROVE  story'[t].session = k /\ story'[t].status # "backlog"
    <3>1. story'[t] = SyncExternalStatus(row, target, pr)
      BY <1>13, <2>4
    <3>2. row \in Rows /\ target \in {"backlog", "running", "in_review", "done"} /\ pr \in Nat
      BY <1>11, <1>12
    <3>3. SyncExternalStatus(row, target, pr).status = target
      BY <3>2, Synced
    <3>4. SyncExternalStatus(row, target, pr).session = row.session
      BY <2>3, <2>4, <3>2, SessionStays
    <3> QED
      BY <1>12, <2>1, <2>3, <2>4, <3>1, <3>3, <3>4
  <2>5. CASE t # s
    BY <1>13, <2>1, <2>5
  <2> QED
    BY <2>4, <2>5
<1>16. DispatchSound' /\ OneAtATime'
  BY <1>1, <1>2 DEF NoDispatch, DispatchSound, OneAtATime, Marks
<1>17. AgentTypes'
  BY <1>2 DEF AgentTypes
<1> QED
  BY <1>2, <1>7, <1>10, <1>14, <1>15, <1>16, <1>17 DEF Good

LEMMA PassEnds ==
    ASSUME Good, SyncEnds
    PROVE  Good'
<1>1. NoDispatch /\ sync.pc = "write"
  BY PassAlone DEF SyncEnds
<1>2. UNCHANGED <<disp, agents, issue>> /\ AgentTypes' /\ sync'.pc = "idle" /\ LoopTypes'
  BY DEF SyncEnds, Good, LoopTypes, AgentTypes, github, Idle
<1>3. PassTypes' /\ PassSees'
  BY <1>2 DEF PassTypes, PassSees
<1>4. \A t \in Stories : story'[t] = IF t \in sync.dead
                                   THEN [story[t] EXCEPT !.session = NoSession] ELSE story[t]
  BY DEF SyncEnds
<1>5. StoreTypes'
  BY <1>2, <1>4, Dropped DEF Good, StoreTypes, SyncEnds
<1>6. Anchored'
  <2> SUFFICES ASSUME NEW t \in Stories, NEW k \in Agents, WorksOn(k, t)
               PROVE  story'[t].session = k /\ story'[t].status # "backlog"
    BY <1>2 DEF Anchored, WorksOn, Live
  <2>1. story[t].session = k /\ story[t].status # "backlog"
    BY <1>1 DEF Good, Anchored, NoDispatch, Marks
  <2>2. t \notin sync.dead
    BY <1>1 DEF Good, PassSees
  <2> QED
    BY <1>4, <2>1, <2>2
<1>7. DispatchSound' /\ OneAtATime'
  BY <1>1, <1>2 DEF NoDispatch, DispatchSound, OneAtATime, Marks
<1> QED
  BY <1>2, <1>3, <1>5, <1>6, <1>7 DEF Good

-----------------------------------------------------------------------------
\* The dispatches.
Resting == tick' = [pc |-> tick'.pc, cands |-> tick'.cands] /\ tick'.cands \subseteq {u \in Units : u # {}}

LEMMA Begins ==
    ASSUME Good, NEW d \in Dispatchers, NEW u \in Units, DispatchBegins(d, u), ~overlap',
           UNCHANGED <<story, issue, agents, sync>>, Resting
    PROVE  Good'
<1>1. NoDispatch /\ sync.pc = "idle"
  BY DEF DispatchBegins, NoDispatch, Dispatching
<1> DEFINE unit == {s \in u : story[s].status = "backlog"}
<1>2. unit # {} /\ unit \subseteq Stories
  BY ConductorAssumption DEF DispatchBegins, UnitReady
<1>3. disp' = [disp EXCEPT ![d] = [pc |-> "fire", session |-> NoSession, left |-> {}, unit |-> unit]]
  BY DEF DispatchBegins
<1>4. disp \in [Dispatchers -> Dispatches]
  BY DEF Good, LoopTypes
<1>5. /\ disp' \in [Dispatchers -> Dispatches]
      /\ disp'[d].pc = "fire" /\ disp'[d].unit = unit
      /\ \A e \in Dispatchers \ {d} : disp'[e].pc = "idle"
  <2> HIDE DEF unit
  <2> QED
    BY <1>1, <1>2, <1>3, <1>4 DEF Dispatches, NoSession, NoDispatch
<1>6. StoreTypes' /\ AgentTypes' /\ LoopTypes' /\ PassTypes' /\ PassSees'
  BY <1>1, <1>5 DEF Good, StoreTypes, AgentTypes, LoopTypes, PassTypes, PassSees, Resting
<1>7. OneAtATime'
  BY <1>1, <1>5 DEF OneAtATime
<1>8. DispatchSound'
  BY <1>2, <1>5 DEF DispatchSound, Marks
<1>9. Anchored'
  BY <1>1 DEF Good, Anchored, NoDispatch, Marks, WorksOn, Live
<1> QED
  BY <1>6, <1>7, <1>8, <1>9 DEF Good

\* Of units that are not empty one has the first story.
LEMMA FirstUnit ==
    ASSUME NEW cands \in SUBSET {u \in Units : u # {}}, cands # {}
    PROVE  (CHOOSE v \in cands : \A w \in cands : Min(v) <= Min(w)) \in cands
<1>1. \A u \in cands : u \in SUBSET Nat /\ u # {}
  BY ConductorAssumption, StoriesAreNumbers
<1>2. \A u \in cands : Min(u) \in Nat
  BY <1>1, FirstStory
<1> DEFINE firsts == {Min(u) : u \in cands}
<1>3. firsts \in SUBSET Nat /\ firsts # {}
  BY <1>2
<1>4. Min(firsts) \in firsts /\ \A i \in firsts : Min(firsts) <= i
  BY <1>3, FirstStory
<1>5. PICK v \in cands : Min(v) = Min(firsts)
  BY <1>4
<1>6. \A w \in cands : Min(v) <= Min(w)
  BY <1>4, <1>5
<1> QED
  BY <1>6

LEMMA TickSteps ==
    ASSUME Good, ~overlap', TickMerges \/ TickDispatches \/ ButtonDispatches
    PROVE  Good'
<1>1. CASE TickMerges
  <2>1. UNCHANGED <<story, disp, sync>> /\ AgentTypes /\ issue \in [Stories -> Issues]
    BY <1>1 DEF TickMerges, Good, StoreTypes
  <2>2. PICK K, C : Merged(K, C)
    BY <1>1 DEF TickMerges
  <2>3. Wanes
    BY <2>1, <2>2, MergeWanes DEF Merged
  <2>4. issue' \in [Stories -> Issues]
    BY <2>1, <2>2 DEF Merged, Issues
  <2>5. \A u \in Candidates : u \in Units /\ u # {}
    BY DEF Candidates, UnitReady
  <2>6. LoopTypes'
    BY <1>1, <2>1, <2>5 DEF TickMerges, Good, LoopTypes
  <2>7. StoreTypes' /\ PassTypes' /\ OneAtATime' /\ PassSees'
    BY <2>1, <2>3, <2>4 DEF Good, StoreTypes, PassTypes, OneAtATime, PassSees, Wanes
  <2>8. DispatchSound' /\ Anchored'
    BY <2>1, <2>3, WaneKeeps
  <2> QED
    BY <2>3, <2>6, <2>7, <2>8 DEF Good, Wanes
<1>2. CASE TickDispatches
  <2> DEFINE u == CHOOSE v \in tick.cands : \A w \in tick.cands : Min(v) <= Min(w)
  <2>0. UNCHANGED <<story, issue, agents, sync>> /\ "loop" \in Dispatchers
    BY <1>2 DEF TickDispatches, github, Dispatchers
  <2>1. /\ tick.cands \subseteq {v \in Units : v # {}}
        /\ tick = [pc |-> tick.pc, cands |-> tick.cands]
    BY DEF Good, LoopTypes
  <2>2. CASE UNCHANGED <<disp, overlap>>
    <3>1. tick' = [tick EXCEPT !.pc = "idle"] \/ tick' = [tick EXCEPT !.cands = @ \ {u}]
      BY <1>2 DEF TickDispatches
    <3>2. tick' = [pc |-> tick'.pc, cands |-> tick'.cands] /\ tick'.cands \subseteq tick.cands
      BY <2>1, <3>1
    <3>3. LoopTypes'
      BY <2>1, <2>2, <3>2 DEF Good, LoopTypes
    <3> QED
      BY <2>0, <2>2, <3>3 DEF Good, StoreTypes, AgentTypes, PassTypes, OneAtATime, DispatchSound,
          Anchored, PassSees, WorksOn, Live, Marks
  <2>3. CASE /\ tick.cands # {} /\ tick' = [tick EXCEPT !.cands = @ \ {u}]
             /\ DispatchBegins("loop", u)
    <3>1. u \in tick.cands
      BY <2>1, <2>3, FirstUnit
    <3> HIDE DEF u
    <3>2. Resting
      BY <2>1, <2>3 DEF Resting
    <3> QED
      BY <2>0, <2>1, <2>3, <3>1, <3>2, Begins
  <2> QED
    BY <1>2, <2>2, <2>3 DEF TickDispatches
<1>3. CASE ButtonDispatches
  <2>1. UNCHANGED <<story, issue, agents, sync, tick>> /\ "button" \in Dispatchers
    BY <1>3 DEF ButtonDispatches, github
  <2>2. Resting
    BY <2>1 DEF Good, LoopTypes, Resting
  <2> QED
    BY <1>3, <2>1, <2>2, Begins DEF ButtonDispatches
<1> QED
  BY <1>1, <1>2, <1>3

\* A dispatch in progress is the only thing in progress.
LEMMA DispatchAlone ==
    ASSUME Good, NEW d \in Dispatchers, disp[d].pc # "idle"
    PROVE  sync.pc = "idle" /\ \A e \in Dispatchers \ {d} : disp[e].pc = "idle"
  BY DEF Good, OneAtATime

LEMMA Fires ==
    ASSUME TaskSessions, Good, ~overlap', NEW d \in Dispatchers, DispatchFires(d)
    PROVE  Good'
<1> DEFINE n == Len(agents)
           unit == disp[d].unit
<1>1. /\ sync.pc = "idle" /\ disp[d].pc = "fire"
      /\ \A e \in Dispatchers \ {d} : disp[e].pc = "idle"
  BY DispatchAlone DEF DispatchFires
<1>2. /\ disp \in [Dispatchers -> Dispatches] /\ unit \in SUBSET Stories /\ n \in Nat
      /\ agents \in Seq(AgentTasks) /\ n <= MaxAgents /\ DOMAIN agents = 1 .. n
  BY DEF Good, LoopTypes, AgentTypes, Dispatches
<1>3. UNCHANGED <<story, issue, sync, tick>>
  BY DEF DispatchFires
<1>4. CASE UNCHANGED agents /\ disp' = [disp EXCEPT ![d] = IdleDisp]
  <2>1. disp' \in [Dispatchers -> Dispatches] /\ \A e \in Dispatchers : disp'[e].pc = "idle"
    BY <1>1, <1>2, <1>4 DEF IdleDisp, Dispatches, NoSession
  <2>2. StoreTypes' /\ AgentTypes' /\ LoopTypes' /\ PassTypes' /\ PassSees' /\ OneAtATime'
    BY <1>1, <1>3, <1>4, <2>1 DEF Good, StoreTypes, AgentTypes, LoopTypes, PassTypes, PassSees, OneAtATime
  <2>3. DispatchSound'
    BY <2>1 DEF DispatchSound, Marks
  <2>4. Anchored'
    BY <1>1, <1>3, <1>4 DEF Good, Anchored, Marks, WorksOn, Live
  <2> QED
    BY <2>2, <2>3, <2>4 DEF Good
<1>5. CASE Fired(d, <<Executor>>, SessionOf(Executor, n + 1))
  <2>1. /\ n + 1 <= MaxAgents
        /\ agents' = Append(agents, NewAgent("copilot", unit))
        /\ disp' = [disp EXCEPT ![d].session = n + 1, ![d].left = unit, ![d].pc = "mark"]
    <3>1. /\ Len(<<Executor>>) = 1 /\ DOMAIN <<Executor>> = 1 .. 1 /\ <<Executor>>[1] = "copilot"
          /\ SessionOf(Executor, n + 1) = n + 1
      BY DEF TaskSessions, SessionOf
    <3>2. [i \in DOMAIN <<Executor>> |-> NewAgent(<<Executor>>[i], unit)] = <<NewAgent("copilot", unit)>>
      BY <3>1
    <3>3. agents \o <<NewAgent("copilot", unit)>> = Append(agents, NewAgent("copilot", unit))
      BY <1>2
    <3> QED
      BY <1>5, <3>1, <3>2, <3>3 DEF Fired
  <2>2. NewAgent("copilot", unit) \in AgentTasks /\ NewAgent("copilot", unit).work = unit
    BY <1>2 DEF NewAgent, AgentTasks
  <2>3. /\ agents' \in Seq(AgentTasks) /\ Len(agents') = n + 1
        /\ \A k \in 1 .. n : agents'[k] = agents[k]
        /\ agents'[n + 1].work = unit
    BY <1>2, <2>1, <2>2
  <2>4. /\ disp' \in [Dispatchers -> Dispatches]
        /\ disp'[d].pc = "mark" /\ disp'[d].left = unit /\ disp'[d].session = n + 1
        /\ \A e \in Dispatchers \ {d} : disp'[e].pc = "idle"
    <3>1. disp[d] \in Dispatches
      BY <1>2
    <3>2. disp' = [disp EXCEPT ![d] = [disp[d] EXCEPT !.session = n + 1, !.left = unit, !.pc = "mark"]]
      BY <1>2, <2>1
    <3> DEFINE x == [disp[d] EXCEPT !.session = n + 1, !.left = unit, !.pc = "mark"]
    <3>3. x \in Dispatches /\ x.pc = "mark" /\ x.left = unit /\ x.session = n + 1
      <4>1. n + 1 \in Nat
        BY <1>2
      <4>2. unit \in SUBSET Stories
        BY <1>2
      <4> HIDE DEF unit, n
      <4> QED
        BY <3>1, <4>1, <4>2 DEF Dispatches
    <3> HIDE DEF x
    <3>4. disp' = [disp EXCEPT ![d] = x]
      BY <3>2 DEF x
    <3> QED
      BY <1>1, <1>2, <3>3, <3>4
  <2>5. StoreTypes' /\ AgentTypes' /\ LoopTypes' /\ PassTypes' /\ PassSees' /\ OneAtATime'
    BY <1>1, <1>3, <2>1, <2>3, <2>4
    DEF Good, StoreTypes, AgentTypes, LoopTypes, PassTypes, PassSees, OneAtATime
  <2>6. \A s \in Stories, k \in Agents : WorksOn(k, s)' /\ k # n + 1 => WorksOn(k, s)
    BY <1>2, <2>3 DEF WorksOn, Live
  <2>7. \A s \in Stories, e \in Dispatchers : ~Marks(e, s)
    BY <1>1 DEF Marks
  <2>8. \A s \in unit, k \in Agents : ~WorksOn(k, s)
    BY <1>1, <1>2, <2>7 DEF Good, DispatchSound, Anchored
  <2>9. unit # {}
    BY <1>1 DEF Good, DispatchSound
  <2>10. DispatchSound'
    <3>1. \A s \in Stories, k \in Agents : Marks(d, s)' /\ WorksOn(k, s)' => k = n + 1
      BY <2>4, <2>6, <2>8 DEF Marks
    <3> QED
      BY <2>4, <2>9, <3>1 DEF DispatchSound, Marks
  <2>11. Anchored'
    <3> SUFFICES ASSUME NEW s \in Stories, NEW k \in Agents, WorksOn(k, s)', ~Marks(d, s)'
                 PROVE  story[s].session = k /\ story[s].status # "backlog"
      BY <1>3 DEF Anchored
    <3>1. s \notin unit
      BY <2>4 DEF Marks
    <3>2. WorksOn(k, s)
      BY <2>3, <2>6, <3>1 DEF WorksOn
    <3> QED
      BY <2>7, <3>2 DEF Good, Anchored
  <2> QED
    BY <2>5, <2>10, <2>11 DEF Good
<1> QED
  BY <1>4, <1>5 DEF DispatchFires, Fails, TaskSessions

LEMMA MarkSteps ==
    ASSUME Good, NEW d \in Dispatchers, DispatchMarks(d) \/ DispatchRecords(d)
    PROVE  Good'
<1> DEFINE s == Min(disp[d].left)
<1>1. /\ sync.pc = "idle" /\ disp[d].pc \in {"mark", "session"}
      /\ \A e \in Dispatchers \ {d} : disp[e].pc = "idle"
  BY DispatchAlone DEF DispatchMarks, DispatchRecords
<1>2. /\ disp \in [Dispatchers -> Dispatches] /\ disp[d] \in Dispatches
      /\ disp[d].left \in SUBSET Stories /\ disp[d].session \in Nat
      /\ story \in [Stories -> Rows] /\ issue \in [Stories -> Issues]
  BY DEF Good, LoopTypes, Dispatches, StoreTypes
<1>3. s \in disp[d].left /\ s \in Stories
  BY <1>1, <1>2, StoriesAreNumbers, FirstStory DEF Good, DispatchSound
<1> HIDE DEF s
<1>4. UNCHANGED <<issue, agents, sync, tick>> /\ AgentTypes' /\ PassTypes' /\ PassSees'
  BY <1>1 DEF DispatchMarks, DispatchRecords, github, Good, AgentTypes, PassTypes, PassSees
<1>5. \A k \in Agents, t \in Stories : WorksOn(k, t)' = WorksOn(k, t)
  BY <1>4 DEF WorksOn, Live
<1>6. \A t \in Stories, e \in Dispatchers : Marks(e, t) <=> e = d /\ t \in disp[d].left
  BY <1>1 DEF Marks
<1>7. CASE DispatchMarks(d)
  <2>1. /\ story' = [story EXCEPT ![s] = SyncExternalStatus(story[s], "running", 0)]
        /\ disp' = [disp EXCEPT ![d].pc = "session"]
    BY <1>2, <1>3, <1>7 DEF DispatchMarks, s
  <2>2. /\ story' \in [Stories -> Rows] /\ story'[s].status = "running"
        /\ \A t \in Stories \ {s} : story'[t] = story[t]
    <3> DEFINE x == SyncExternalStatus(story[s], "running", 0)
    <3>1. story[s] \in Rows
      BY <1>2, <1>3
    <3>2. x \in Rows /\ x.status = "running"
      BY <3>1, Synced
    <3> HIDE DEF x
    <3>3. story' = [story EXCEPT ![s] = x]
      BY <2>1 DEF x
    <3> QED
      BY <1>2, <1>3, <3>2, <3>3
  <2>3. /\ disp' \in [Dispatchers -> Dispatches] /\ disp'[d].pc = "session"
        /\ disp'[d].left = disp[d].left /\ disp'[d].session = disp[d].session
        /\ \A e \in Dispatchers \ {d} : disp'[e].pc = "idle"
    BY <1>1, <1>2, <2>1 DEF Dispatches
  <2>4. StoreTypes' /\ LoopTypes' /\ OneAtATime'
    BY <1>1, <1>2, <1>4, <2>2, <2>3 DEF Good, StoreTypes, LoopTypes, OneAtATime
  <2>5. \A t \in Stories, e \in Dispatchers : Marks(e, t)' = Marks(e, t)
    BY <1>1, <1>6, <2>3 DEF Marks
  <2>6. DispatchSound'
    <3>1. \A t \in Stories, k \in Agents : Marks(d, t)' /\ WorksOn(k, t)' => k = disp'[d].session
      BY <1>5, <2>3, <2>5 DEF Good, DispatchSound
    <3>2. disp'[d].left # {} /\ story'[Min(disp'[d].left)].status = "running"
      BY <1>3, <2>2, <2>3 DEF s
    <3> QED
      BY <2>3, <3>1, <3>2 DEF DispatchSound, Marks
  <2>7. Anchored'
    BY <1>3, <1>5, <1>6, <2>2, <2>5 DEF Good, Anchored
  <2> QED
    BY <1>4, <2>4, <2>6, <2>7 DEF Good
<1>8. CASE DispatchRecords(d)
  <2>1. /\ story' = [story EXCEPT ![s] = SetStorySession(story[s], disp[d].session)]
        /\ disp' = [disp EXCEPT ![d] = IF disp[d].left = {s} THEN IdleDisp
                                       ELSE [disp[d] EXCEPT !.pc = "mark", !.left = @ \ {s}]]
    <3>1. story' = [story EXCEPT ![s] = SetStorySession(story[s], disp[d].session)]
      BY <1>2, <1>3, <1>8 DEF DispatchRecords, s
    <3>2. CASE disp[d].left = {s}
      BY <1>2, <1>8, <3>1, <3>2 DEF DispatchRecords, s
    <3>3. CASE disp[d].left # {s}
      <4>0. disp' = [disp EXCEPT ![d] =
                       IF disp[d].left = {s} THEN IdleDisp
                       ELSE [disp[d] EXCEPT !.pc = "mark", !.left = disp[d].left \ {s}]]
        BY <1>8 DEF DispatchRecords, s
      <4>1. disp' = [disp EXCEPT ![d] = [disp[d] EXCEPT !.pc = "mark", !.left = disp[d].left \ {s}]]
        BY <3>3, <4>0, Zenon
      <4> QED
        BY <3>1, <3>3, <4>1
    <3> QED
      BY <3>2, <3>3
  <2>2. /\ story' \in [Stories -> Rows] /\ story'[s].session = disp[d].session
        /\ story'[s].status = story[s].status
        /\ \A t \in Stories \ {s} : story'[t] = story[t]
    BY <1>2, <1>3, <2>1, SessionSet
  <2>3. story[s].status = "running"
    BY <1>8 DEF Good, DispatchSound, DispatchRecords, s
  <2>4. /\ disp' \in [Dispatchers -> Dispatches]
        /\ \A e \in Dispatchers \ {d} : disp'[e].pc = "idle"
        /\ \/ disp[d].left = {s} /\ disp'[d].pc = "idle"
           \/ /\ disp[d].left # {s} /\ disp'[d].pc = "mark" /\ disp'[d].left = disp[d].left \ {s}
              /\ disp'[d].session = disp[d].session
    <3>1. IdleDisp \in Dispatches /\ IdleDisp.pc = "idle"
      BY DEF IdleDisp, Dispatches, NoSession
    <3>2. LET x == [disp[d] EXCEPT !.pc = "mark", !.left = @ \ {s}] IN
          x \in Dispatches /\ x.pc = "mark" /\ x.left = disp[d].left \ {s} /\ x.session = disp[d].session
      BY <1>2 DEF Dispatches
    <3> QED
      BY <1>1, <1>2, <2>1, <3>1, <3>2
  <2>5. StoreTypes' /\ LoopTypes' /\ OneAtATime'
    BY <1>1, <1>2, <1>4, <2>2, <2>4 DEF Good, StoreTypes, LoopTypes, OneAtATime
  <2>6. \A t \in Stories, e \in Dispatchers : Marks(e, t)' <=> Marks(e, t) /\ t # s
    BY <1>1, <1>3, <1>6, <2>4 DEF Marks
  <2>7. DispatchSound'
    <3>1. \A t \in Stories, k \in Agents : Marks(d, t)' /\ WorksOn(k, t)' => k = disp'[d].session
      BY <1>5, <2>4, <2>6 DEF Good, DispatchSound, Marks
    <3>2. disp'[d].pc \in {"idle", "mark"} /\ (disp'[d].pc = "mark" => disp'[d].left # {})
      BY <1>3, <2>4
    <3> QED
      BY <2>4, <3>1, <3>2 DEF DispatchSound, Marks
  <2>8. Anchored'
    <3> SUFFICES ASSUME NEW t \in Stories, NEW k \in Agents, WorksOn(k, t),
                        \A e \in Dispatchers : ~Marks(e, t)'
                 PROVE  story'[t].session = k /\ story'[t].status # "backlog"
      BY <1>5 DEF Anchored
    <3>1. CASE t = s
      <4>1. Marks(d, t)
        BY <1>3, <1>6, <3>1
      <4>2. k = disp[d].session
        BY <4>1 DEF Good, DispatchSound
      <4> QED
        BY <2>2, <2>3, <3>1, <4>2
    <3>2. CASE t # s
      BY <2>2, <2>6, <3>2 DEF Good, Anchored
    <3> QED
      BY <3>1, <3>2
  <2> QED
    BY <1>4, <2>5, <2>7, <2>8 DEF Good
<1> QED
  BY <1>7, <1>8

-----------------------------------------------------------------------------
LEMMA TaskInvNext == ASSUME TaskSessions, TaskInv, [Next]_vars PROVE TaskInv'
<1>1. overlap' \in BOOLEAN /\ (overlap => overlap')
  BY DEF TaskInv, Next, ProjectionNext, DispatchNext, DispatchGoesOn, GitHubNext, vars, TickStarts,
      WebhookStarts, SyncReadsGitHub, SyncSweeps, SyncWrites, SyncEnds, TickMerges, TickDispatches,
      ButtonDispatches, DispatchBegins, DispatchFires, DispatchLabels, DispatchMarks,
      DispatchRecords, AgentStarts, AgentOpensPR, AgentEnds, AgentDies, TaskIsPurged,
      PersonMerges, PersonEdits, WorldOnly
<1> SUFFICES ASSUME Good, ~overlap' PROVE Good'
  BY <1>1 DEF TaskInv
<1>2. CASE UNCHANGED vars
  BY <1>2 DEF vars, github, counters, Good, StoreTypes, AgentTypes, LoopTypes, PassTypes, OneAtATime,
      DispatchSound, Anchored, PassSees, WorksOn, Live, Marks
<1>3. CASE ProjectionNext
  BY <1>3, PassStarts, PassReads, PassSweeps, PassWrites, PassEnds DEF ProjectionNext
<1>4. ASSUME NEW d \in Dispatchers, DispatchGoesOn(d) PROVE Good'
  <2>1. ~DispatchLabels(d)
    BY DEF DispatchLabels, Good, LoopTypes, Dispatches
  <2> QED
    BY <1>4, <2>1, Fires, MarkSteps DEF DispatchGoesOn
<1>5. CASE DispatchNext
  BY <1>4, <1>5, TickSteps DEF DispatchNext
<1>6. CASE GitHubNext
  BY <1>6, GitHubSteps
<1> QED
  BY <1>2, <1>3, <1>5, <1>6 DEF Next

\* A story never has two agents at work, however many stories, agents, passes,
\* webhooks, buttons, hand edits and failing reads there are, when agents are
\* Copilot tasks, no pass overlaps a dispatch and GitHub answers the calls that
\* start them.
THEOREM OneTaskPerStory ==
    ASSUME TaskSessions
    PROVE  Spec => []OneAgentPerStory
<1>1. TaskInv => OneAgentPerStory
  <2> SUFFICES ASSUME Good, NEW s \in Stories
               PROVE  Cardinality({k \in AgentsOf(s) : Live(k)}) <= 1
    BY DEF TaskInv, OneAgentPerStory
  <2> DEFINE S == {k \in AgentsOf(s) : Live(k)}
  <2>1. \A k \in S : k \in Agents /\ WorksOn(k, s)
    <3>1. Len(agents) \in Nat /\ DOMAIN agents = 1 .. Len(agents) /\ Len(agents) <= MaxAgents
      BY DEF Good, AgentTypes
    <3>2. MaxAgents \in Nat
      BY ConductorAssumption
    <3>3. \A k \in DOMAIN agents : k \in Agents
      BY <3>1, <3>2 DEF Agents
    <3> QED
      BY <3>3 DEF AgentsOf, WorksOn
  <2>2. \A k, j \in S : k = j
    BY <2>1 DEF Good, DispatchSound, Anchored
  <2> HIDE DEF S
  <2>3. S = {} \/ \E k \in S : S = {k}
    BY <2>2
  <2>4. Cardinality(S) <= 1
    <3>1. CASE S = {}
      BY <3>1, FS_EmptySet
    <3>2. ASSUME NEW k \in S, S = {k} PROVE Cardinality(S) <= 1
      <4>1. Cardinality({k}) = 1
        BY FS_Singleton
      <4> QED
        BY <3>2, <4>1
    <3> QED
      BY <2>3, <3>1, <3>2
  <2> QED
    BY <2>4 DEF S
<1> QED
  BY <1>1, TaskInvInit, TaskInvNext, PTL DEF Spec


-----------------------------------------------------------------------------

(***************************************************************************)
(* The backlog's editors.  An edit is accepted by one step and written by  *)
(* a later one, so its guards are of two kinds: those its own statement    *)
(* repeats (CanWrite), and those it trusts (Trusted).  WellWritten says    *)
(* which of the latter still hold at the write: of a split that it has two *)
(* parts, and, when one editor is at work, that the dependencies are still *)
(* those that were read: a new one closes no cycle, nobody waits for a     *)
(* story that is deleted, and a split knows all that wait for its story.   *)
(***************************************************************************)
OneEditor == \A c, e \in Editors : c = e

\* A story's edges are written with it or after it, and deleted with it.
EdgesHaveStories == \A e \in deps : storyExists(e[1])
StartsWhole == \A e \in FirstDeps : FirstStories[e[1]].status # "absent"

ReadOps ==
  {o \in Ops : o.op # "split"}
  \cup [op : {"split"}, id : Ids, parts : SUBSET Ids, deps : SUBSET Ids,
        dependents : SUBSET Ids, sprint : Sprints \cup {0}]

AnyOp == Ops \cup ReadOps
Steps == {"check", "write"}

Calls ==
  {AtRest, [at |-> "failed"]}
  \cup [kind : {"request", "publish"}, at : Steps, ops : Seq(AnyOp)]
  \cup [kind : {"plan"}, at : Steps, ops : Seq(AnyOp), plan : Plans]

BoardTypes ==
  /\ stories \in [Ids -> Story]
  /\ deps \subseteq Ids \X Ids
  /\ calls \in [Editors -> Calls]

\* Only the first op of a list can have been read.
Pending(c) ==
  /\ c.at = "check" => c.ops \in Seq(Ops)
  /\ c.at = "write" => c.ops # <<>> /\ Head(c.ops) \in ReadOps /\ Tail(c.ops) \in Seq(Ops)
  /\ c.at \in Steps /\ c.kind = "publish" =>
       \A i \in 1 .. Len(c.ops) : c.ops[i].op \in {"create", "sprint"}

Trusted(o) ==
  /\ o.op = "split" => Cardinality(o.parts) >= 2
  /\ OneEditor =>
       /\ o.op = "delete" => StoryDependents(o.id) = {}
       /\ o.op \in {"create", "add_dep", "edit"} => ~closesCycle(o.id, o.deps)
       /\ o.op \in {"add_dep", "edit"} => storyExists(o.id)
       /\ o.op = "split" => o.deps = DepsOf(o.id) /\ o.dependents = StoryDependents(o.id)

WellWritten == \A e \in Editors : Pending(calls[e]) /\ (calls[e].at = "write" => Trusted(Op(e)))

BoardInv == BoardTypes /\ WellWritten /\ (OneEditor /\ StartsWhole => EdgesHaveStories)

LEMMA OpKinds ==
  /\ \A o \in ReadOps :
       /\ o.op = "create" => o.id \in Ids /\ o.sprint \in Sprints \cup {0} /\ o.deps \subseteq Ids
       /\ o.op \in {"add_dep", "edit"} => o.id \in Ids /\ o.deps \subseteq Ids
       /\ o.op = "move" => o.id \in Ids /\ o.sprint \in Sprints \cup {0}
       /\ o.op \in {"cancel", "delete"} => o.id \in Ids
       /\ o.op = "split" => /\ o.id \in Ids /\ o.parts \subseteq Ids /\ o.deps \subseteq Ids
                            /\ o.dependents \subseteq Ids /\ o.sprint \in Sprints \cup {0}
  /\ \A o \in Ops : o.op \in {"create", "add_dep", "edit", "move", "defer", "cancel", "delete",
                              "split", "sprint"}
  /\ \A o \in Ops : o.op = "split" => o.id \in Ids /\ o.parts \subseteq Ids
  /\ \A o \in ReadOps : o.op # "split" => o \in Ops
  /\ \A o \in Ops : o.op # "split" => o \in ReadOps
BY DEF Ops, ReadOps

\* What an accepted edit keeps for its write.
LEMMA ReadsAreTrusted ==
  ASSUME BoardTypes, NEW o \in Ops, Accepts(o)
  PROVE  Read(o) \in ReadOps /\ Trusted(Read(o)) /\ Read(o).op = o.op
<1>1. CASE o.op = "split"
  <2> DEFINE r == [op |-> "split", id |-> o.id, parts |-> o.parts, deps |-> DepsOf(o.id),
                   dependents |-> StoryDependents(o.id), sprint |-> stories[o.id].sprint]
  <2>1. Read(o) = r
    BY <1>1 DEF Read
  <2>2. o.id \in Ids /\ o.parts \subseteq Ids /\ stories[o.id] \in Story
    BY <1>1, OpKinds DEF BoardTypes
  <2>3. DepsOf(o.id) \subseteq Ids /\ StoryDependents(o.id) \subseteq Ids
    BY DEF DepsOf, StoryDependents
  <2>4. r \in ReadOps
    BY <2>2, <2>3 DEF ReadOps, Story
  <2>5. Cardinality(o.parts) >= 2
    BY <1>1 DEF Accepts, AcceptsCreate, AcceptsAddDep, AcceptsEdit, AcceptsMove, AcceptsDefer,
                AcceptsSplit, AcceptsCancel, AcceptsDelete, AcceptsSprint
  <2> QED
    BY <1>1, <2>1, <2>4, <2>5 DEF Trusted
<1>2. CASE o.op # "split"
  <2>1. Read(o) = o /\ o \in ReadOps
    BY <1>2, OpKinds DEF Read
  <2>2. /\ o.op = "delete" => StoryDependents(o.id) = {}
        /\ o.op \in {"create", "add_dep", "edit"} => ~closesCycle(o.id, o.deps)
        /\ o.op \in {"add_dep", "edit"} => storyExists(o.id)
    BY DEF Accepts, AcceptsCreate, AcceptsAddDep, AcceptsEdit, AcceptsMove, AcceptsDefer,
           AcceptsSplit, AcceptsCancel, AcceptsDelete, AcceptsSprint, DepsAreValid,
           storyExists, editable
  <2> QED
    BY <1>2, <2>1, <2>2 DEF Trusted
<1> QED
  BY <1>1, <1>2

-----------------------------------------------------------------------------
(* Dependencies as a graph. *)

\* What x waits for, itself included.
Reach(E, x) == {y \in Ids : reaches(E, x, y)}
IsAcyclic(E) == \A e \in E : ~reaches(E, e[2], e[1])

LEMMA ReachIsClosed ==
  ASSUME NEW E, E \subseteq Ids \X Ids, NEW x \in Ids
  PROVE  x \in Reach(E, x) /\ Closed(Reach(E, x), E)
BY DEF Reach, reaches, Closed

LEMMA ReachIsLeast ==
  ASSUME NEW E, NEW x \in Ids, NEW S \in SUBSET Ids, x \in S, Closed(S, E)
  PROVE  Reach(E, x) \subseteq S
BY DEF Reach, reaches

\* A set that shows that nothing leads from the end of an edge to its start.
LEMMA Separated ==
  ASSUME NEW E, NEW e \in E, NEW S \in SUBSET Ids, e[2] \in S, e[1] \notin S, Closed(S, E)
  PROVE  ~reaches(E, e[2], e[1])
BY DEF reaches

LEMMA FewerEdges ==
  ASSUME NEW E, NEW F, F \subseteq E, E \subseteq Ids \X Ids, IsAcyclic(E)
  PROVE  IsAcyclic(F)
BY DEF IsAcyclic, reaches, Closed

\* checkNoCycle: edges from s to stories from which s is not reached close no cycle.
LEMMA NewEdges ==
  ASSUME NEW E, E \subseteq Ids \X Ids, IsAcyclic(E),
         NEW s \in Ids, NEW D \in SUBSET Ids, \A d \in D : ~reaches(E, d, s)
  PROVE  IsAcyclic(E \cup Edges(s, D))
<1> DEFINE F == E \cup Edges(s, D)
           U == UNION {Reach(E, d) : d \in D}
<1>1. U \in SUBSET Ids /\ D \subseteq U /\ Closed(U, E) /\ s \notin U
  <2>1. \A d \in D : d \in Reach(E, d) /\ Closed(Reach(E, d), E) /\ s \notin Reach(E, d)
    BY ReachIsClosed DEF Reach
  <2> QED
    BY <2>1 DEF Reach, Closed
<1>2. SUFFICES ASSUME NEW e \in F  PROVE ~reaches(F, e[2], e[1])
  BY DEF IsAcyclic
<1>3. CASE e \in Edges(s, D)
  <2>1. e[1] = s /\ e[2] \in U
    BY <1>1, <1>3 DEF Edges
  <2>2. Closed(U, F)
    BY <1>1 DEF Closed, Edges
  <2> QED
    BY <1>1, <2>1, <2>2, Separated
<1>4. CASE e \in E
  <2>1. e[1] \in Ids /\ e[2] \in Ids /\ e[1] \notin Reach(E, e[2])
    BY <1>4 DEF IsAcyclic, Reach
  <2>2. e[2] \in Reach(E, e[2]) /\ Closed(Reach(E, e[2]), E) /\ Reach(E, e[2]) \in SUBSET Ids
    BY <2>1, ReachIsClosed DEF Reach
  <2>3. CASE s \notin Reach(E, e[2])
    <3>1. Closed(Reach(E, e[2]), F)
      BY <2>2, <2>3 DEF Closed, Edges
    <3> QED
      BY <2>1, <2>2, <3>1, Separated
  <2>4. CASE s \in Reach(E, e[2])
    <3>1. \A d \in D : e[1] \notin Reach(E, d)
      <4> SUFFICES ASSUME NEW d \in D, e[1] \in Reach(E, d)  PROVE FALSE
        OBVIOUS
      <4>1. e[2] \in Reach(E, d) /\ Closed(Reach(E, d), E) /\ Reach(E, d) \in SUBSET Ids
        BY <1>4, ReachIsClosed DEF Closed, Reach
      <4>2. s \in Reach(E, d)
        BY <2>1, <2>4, <4>1, ReachIsLeast
      <4> QED
        BY <4>2 DEF Reach
    <3> DEFINE S == Reach(E, e[2]) \cup U
    <3>2. S \in SUBSET Ids /\ e[2] \in S /\ e[1] \notin S
      BY <1>1, <2>1, <2>2, <3>1
    <3>3. Closed(S, F)
      BY <1>1, <2>2 DEF Closed, Edges
    <3> QED
      BY <3>2, <3>3, Separated
  <2> QED
    BY <2>3, <2>4
<1> QED
  BY <1>3, <1>4

\* SplitStory: "the rewrite is acyclic by construction".  With every part read as
\* the story that was split, each new edge is an old one.
LEMMA SplitEdges ==
  ASSUME NEW E, E \subseteq Ids \X Ids, IsAcyclic(E), NEW s \in Ids, NEW P \in SUBSET Ids,
         \A e \in E : e[1] \notin P /\ e[2] \notin P,
         NEW C \in SUBSET Ids, \A c \in C : <<c, s>> \in E,
         NEW D \in SUBSET Ids, \A d \in D : <<s, d>> \in E
  PROVE  IsAcyclic((E \ (C \X {s})) \cup (P \X D) \cup (C \X P))
<1> DEFINE F == (E \ (C \X {s})) \cup (P \X D) \cup (C \X P)
           was(x) == IF x \in P THEN s ELSE x
<1>1. \A e \in F : e[1] \in Ids /\ e[2] \in Ids /\ <<was(e[1]), was(e[2])>> \in E
  <2> SUFFICES ASSUME NEW e \in F  PROVE e[1] \in Ids /\ e[2] \in Ids /\ <<was(e[1]), was(e[2])>> \in E
    OBVIOUS
  <2>1. CASE e \in E
    BY <2>1
  <2>2. CASE e \in P \X D
    BY <2>2
  <2>3. CASE e \in C \X P
    BY <2>3
  <2> QED
    BY <2>1, <2>2, <2>3
<1>2. SUFFICES ASSUME NEW e \in F  PROVE ~reaches(F, e[2], e[1])
  BY DEF IsAcyclic
<1> DEFINE a == was(e[1])
           b == was(e[2])
           S == {y \in Ids : was(y) \in Reach(E, b)}
<1>3. <<a, b>> \in E /\ a \in Ids /\ b \in Ids /\ e[1] \in Ids /\ e[2] \in Ids
  BY <1>1, <1>2
<1>4. b \in Reach(E, b) /\ Closed(Reach(E, b), E) /\ a \notin Reach(E, b)
  <2>1. ~reaches(E, b, a)
    BY <1>3 DEF IsAcyclic
  <2> QED
    BY <1>3, <2>1, ReachIsClosed DEF Reach
<1> HIDE DEF F
<1>5. S \in SUBSET Ids /\ e[2] \in S /\ e[1] \notin S
  BY <1>3, <1>4
<1>6. Closed(S, F)
  <2> SUFFICES ASSUME NEW w \in F, w[1] \in S  PROVE w[2] \in S
    BY DEF Closed
  <2>1. <<was(w[1]), was(w[2])>> \in E /\ w[2] \in Ids
    BY <1>1
  <2>2. was(w[2]) \in Reach(E, b)
    BY <1>4, <2>1 DEF Closed
  <2> QED
    BY <2>1, <2>2
<1>7. ~reaches(F, e[2], e[1])
  BY <1>2, <1>5, <1>6, Separated
<1> QED
  BY <1>7 DEF F

-----------------------------------------------------------------------------
\* What the write of one edit does to the stories and the dependencies.
LEMMA WriteTypes ==
  ASSUME BoardTypes, NEW o \in ReadOps, Write(o)
  PROVE  stories' \in [Ids -> Story] /\ deps' \subseteq Ids \X Ids
<1>1. CASE CreateStory(o)
  <2>1. [status |-> "backlog", sprint |-> o.sprint] \in Story
    BY <1>1, OpKinds DEF CreateStory, Story, Statuses
  <2> QED
    BY <1>1, <2>1, OpKinds DEF CreateStory, BoardTypes, Edges
<1>2. CASE AddDep(o)
  BY <1>2, OpKinds DEF AddDep, BoardTypes, Edges
<1>3. CASE EditStory(o)
  BY <1>3, OpKinds DEF EditStory, BoardTypes, Edges
<1>4. CASE MoveStory(o)
  BY <1>4, OpKinds DEF MoveStory, BoardTypes, Story
<1>5. CASE SplitStory(o)
  <2>1. /\ o.id \in Ids /\ o.parts \subseteq Ids /\ o.deps \subseteq Ids
        /\ o.dependents \subseteq Ids /\ o.sprint \in Sprints \cup {0}
    BY <1>5, OpKinds DEF SplitStory
  <2>2. \A s \in Ids : /\ [stories[s] EXCEPT !.status = "cancelled"] \in Story
                       /\ [status |-> "backlog", sprint |-> o.sprint] \in Story
                       /\ stories[s] \in Story
    BY <2>1 DEF BoardTypes, Story, Statuses
  <2>3. stories' \in [Ids -> Story]
    BY <1>5, <2>2 DEF SplitStory
  <2> QED
    BY <1>5, <2>1, <2>3 DEF SplitStory, BoardTypes
<1>6. CASE CancelStory(o)
  BY <1>6, OpKinds DEF CancelStory, BoardTypes, Story, Statuses
<1>7. CASE DeleteStory(o)
  <2>1. Absent \in Story
    BY DEF Absent, Story
  <2> QED
    BY <1>7, <2>1, OpKinds DEF DeleteStory, BoardTypes
<1>8. CASE CreateSprint(o)
  BY <1>8 DEF CreateSprint, BoardTypes
<1> QED
  BY <1>1, <1>2, <1>3, <1>4, <1>5, <1>6, <1>7, <1>8 DEF Write

\* The status guard of a move is part of its own statement.
LEMMA WriteKeepsSprints ==
  ASSUME BoardTypes, NEW o \in ReadOps, CanWrite(o), Write(o), NEW s \in Ids,
         stories[s].status \in Statuses \ Movable, stories'[s].status # "absent"
  PROVE  stories'[s].sprint = stories[s].sprint
<1>0. stories[s] \in Story /\ storyExists(s)
  BY DEF BoardTypes, storyExists, Statuses
<1>1. CASE CreateStory(o)
  BY <1>0, <1>1 DEF CreateStory, CanWrite, BoardTypes
<1>2. CASE AddDep(o) \/ EditStory(o) \/ CreateSprint(o)
  BY <1>2 DEF AddDep, EditStory, CreateSprint
<1>3. CASE MoveStory(o)
  BY <1>0, <1>3 DEF MoveStory, CanWrite, BoardTypes
<1>4. CASE SplitStory(o)
  BY <1>0, <1>4 DEF SplitStory, CanWrite, BoardTypes, Story
<1>5. CASE CancelStory(o)
  BY <1>0, <1>5 DEF CancelStory, BoardTypes, Story
<1>6. CASE DeleteStory(o)
  BY <1>0, <1>6 DEF DeleteStory, BoardTypes, Absent
<1> QED
  BY <1>1, <1>2, <1>3, <1>4, <1>5, <1>6 DEF Write

\* A wait that a write removes.
LEMMA WriteKeepsWaits ==
  ASSUME BoardTypes, NEW o \in ReadOps, CanWrite(o), Write(o), Trusted(o),
         OneEditor, NEW d \in deps \ deps'
  PROVE  \/ o.op \in {"edit", "delete"} /\ o.id = d[1]
         \/ /\ stories[d[2]].status # "cancelled" /\ stories'[d[2]].status = "cancelled"
            /\ \E P \in SUBSET {p \in Ids : ~storyExists(p) /\ stories'[p].status = "backlog"} :
                 Cardinality(P) >= 2 /\ {d[1]} \X P \subseteq deps'
            /\ \A p \in Ids : ~storyExists(p) /\ stories'[p].status = "backlog" => <<d[1], p>> \in deps'
<1>0. d = <<d[1], d[2]>> /\ d[1] \in Ids /\ d[2] \in Ids
  BY DEF BoardTypes
<1>1. CASE CreateStory(o) \/ AddDep(o) \/ MoveStory(o) \/ CancelStory(o) \/ CreateSprint(o)
  BY <1>1 DEF CreateStory, AddDep, MoveStory, CancelStory, CreateSprint
<1>2. CASE EditStory(o)
  BY <1>0, <1>2 DEF EditStory, Edges
<1>3. CASE DeleteStory(o)
  <2>1. StoryDependents(o.id) = {}
    BY <1>3 DEF Trusted, DeleteStory
  <2>2. d[2] # o.id
    BY <1>0, <2>1 DEF StoryDependents
  <2> QED
    BY <1>3, <2>2 DEF DeleteStory
<1>4. CASE SplitStory(o)
  <2>1. /\ stories[o.id].status \in Movable /\ \A p \in o.parts : ~storyExists(p)
        /\ o.id \in Ids /\ o.parts \subseteq Ids /\ Cardinality(o.parts) >= 2
    BY <1>4, OpKinds DEF SplitStory, CanWrite, Trusted
  <2>2. o.id \notin o.parts /\ stories[o.id].status # "cancelled"
    BY <2>1 DEF storyExists, Movable
  <2>3. /\ stories' = [s \in Ids |->
                         IF s = o.id THEN [stories[s] EXCEPT !.status = "cancelled"]
                         ELSE IF s \in o.parts THEN [status |-> "backlog", sprint |-> o.sprint]
                         ELSE stories[s]]
        /\ d[1] \in o.dependents /\ d[2] = o.id
        /\ {d[1]} \X o.parts \subseteq deps'
    BY <1>0, <1>4 DEF SplitStory
  <2>4. stories'[o.id].status = "cancelled" /\ \A p \in o.parts : stories'[p].status = "backlog"
    BY <2>1, <2>2, <2>3 DEF BoardTypes, Story
  <2>5. \A p \in Ids : ~storyExists(p) /\ stories'[p].status = "backlog" => p \in o.parts
    BY <2>1, <2>3 DEF storyExists, Movable
  <2>6. o.parts \in SUBSET {p \in Ids : ~storyExists(p) /\ stories'[p].status = "backlog"}
    BY <2>1, <2>4
  <2>7. \A p \in Ids : ~storyExists(p) /\ stories'[p].status = "backlog" => <<d[1], p>> \in deps'
    BY <2>3, <2>5
  <2> QED
    BY <2>1, <2>2, <2>3, <2>4, <2>6, <2>7
<1> QED
  BY <1>1, <1>2, <1>3, <1>4 DEF Write

LEMMA WriteKeepsEdges ==
  ASSUME BoardTypes, NEW o \in ReadOps, CanWrite(o), Write(o), Trusted(o), OneEditor,
         EdgesHaveStories
  PROVE  EdgesHaveStories'
<1>1. CASE CreateStory(o)
  <2>1. storyExists(o.id)' /\ \A x \in Ids : storyExists(x) => storyExists(x)'
    BY <1>1, OpKinds DEF CreateStory, storyExists, BoardTypes
  <2> QED
    BY <1>1, <2>1 DEF CreateStory, Edges, EdgesHaveStories, BoardTypes
<1>2. CASE AddDep(o) \/ EditStory(o)
  <2>1. storyExists(o.id) /\ stories' = stories /\ deps' \subseteq deps \cup Edges(o.id, o.deps)
    BY <1>2 DEF AddDep, EditStory, Trusted
  <2> QED
    BY <2>1 DEF Edges, EdgesHaveStories, storyExists
<1>3. CASE MoveStory(o) \/ CancelStory(o) \/ CreateSprint(o)
  <2>1. deps' = deps /\ \A x \in Ids : storyExists(x) => storyExists(x)'
    BY <1>3, OpKinds DEF MoveStory, CancelStory, CreateSprint, storyExists, BoardTypes, Story
  <2> QED
    BY <2>1 DEF EdgesHaveStories, BoardTypes
<1>4. CASE DeleteStory(o)
  <2>1. /\ deps' = {d \in deps : o.id \notin {d[1], d[2]}}
        /\ \A x \in Ids \ {o.id} : storyExists(x) => storyExists(x)'
    BY <1>4, OpKinds DEF DeleteStory, storyExists, BoardTypes
  <2> QED
    BY <2>1 DEF EdgesHaveStories, BoardTypes
<1>5. CASE SplitStory(o)
  <2>1. o.id \in Ids /\ o.parts \subseteq Ids /\ o.dependents = StoryDependents(o.id)
    BY <1>5, OpKinds DEF SplitStory, Trusted
  <2>2. \A x \in Ids : storyExists(x) \/ x \in o.parts => storyExists(x)'
    BY <1>5, <2>1 DEF SplitStory, storyExists, BoardTypes, Story
  <2>3. \A d \in deps' : d \in deps \/ d[1] \in o.parts \/ <<d[1], o.id>> \in deps
    BY <1>5, <2>1 DEF SplitStory, StoryDependents
  <2> QED
    BY <2>1, <2>2, <2>3 DEF EdgesHaveStories, BoardTypes
<1> QED
  BY <1>1, <1>2, <1>3, <1>4, <1>5 DEF Write

LEMMA WriteKeepsAcyclic ==
  ASSUME BoardTypes, NEW o \in ReadOps, CanWrite(o), Write(o), Trusted(o), OneEditor,
         EdgesHaveStories, ValidateDeps
  PROVE  IsAcyclic(deps')
<1>0. IsAcyclic(deps) /\ deps \subseteq Ids \X Ids /\ \A e \in deps : storyExists(e[1]) /\ storyExists(e[2])
  BY DEF ValidateDeps, Acyclic, IsAcyclic, NoDanglingDep, EdgesHaveStories, BoardTypes
<1>1. CASE CreateStory(o) \/ AddDep(o) \/ EditStory(o)
  <2>1. /\ o.id \in Ids /\ o.deps \subseteq Ids /\ \A d \in o.deps : ~reaches(deps, d, o.id)
        /\ deps' \subseteq deps \cup Edges(o.id, o.deps)
    BY <1>1, OpKinds DEF CreateStory, AddDep, EditStory, Trusted, closesCycle
  <2>2. IsAcyclic(deps \cup Edges(o.id, o.deps))
    BY <1>0, <2>1, NewEdges
  <2>3. deps \cup Edges(o.id, o.deps) \subseteq Ids \X Ids
    BY <1>0, <2>1 DEF Edges
  <2> QED
    BY <2>1, <2>2, <2>3, FewerEdges
<1>2. CASE MoveStory(o) \/ CancelStory(o) \/ CreateSprint(o)
  BY <1>0, <1>2 DEF MoveStory, CancelStory, CreateSprint
<1>3. CASE DeleteStory(o)
  <2>1. deps' \subseteq deps
    BY <1>3 DEF DeleteStory
  <2> QED
    BY <1>0, <2>1, FewerEdges
<1>4. CASE SplitStory(o)
  <2>1. /\ o.id \in Ids /\ o.parts \in SUBSET Ids /\ \A p \in o.parts : ~storyExists(p)
        /\ o.dependents \in SUBSET Ids /\ \A c \in o.dependents : <<c, o.id>> \in deps
        /\ o.deps \in SUBSET Ids /\ \A d \in o.deps : <<o.id, d>> \in deps
    BY <1>4, OpKinds DEF SplitStory, CanWrite, Trusted, StoryDependents, DepsOf
  <2>2. \A e \in deps : e[1] \notin o.parts /\ e[2] \notin o.parts
    BY <1>0, <2>1
  <2>3. IsAcyclic((deps \ (o.dependents \X {o.id})) \cup (o.parts \X o.deps)
                  \cup (o.dependents \X o.parts))
    BY <1>0, <2>1, <2>2, SplitEdges
  <2> QED
    BY <1>4, <2>3 DEF SplitStory
<1> QED
  BY <1>1, <1>2, <1>3, <1>4 DEF Write

-----------------------------------------------------------------------------
(* The list of edits an editor works off.                                  *)

LEMMA CallParts ==
  ASSUME NEW c \in Calls, c.at \in Steps
  PROVE  /\ c.ops \in Seq(AnyOp) /\ c.kind \in {"request", "publish", "plan"}
         /\ \A k \in Steps, s \in Seq(AnyOp) : [c EXCEPT !.at = k, !.ops = s] \in Calls
<1>1. c # AtRest /\ c # [at |-> "failed"]
  BY DEF AtRest, Steps
<1> QED
  BY <1>1 DEF Calls

\* The op at hand is done with.
LEMMA NextOp ==
  ASSUME NEW c \in Calls, c.at = "write", Pending(c)
  PROVE  /\ [c EXCEPT !.at = "check", !.ops = Tail(@)] \in Calls
         /\ Pending([c EXCEPT !.at = "check", !.ops = Tail(@)])
         /\ [c EXCEPT !.at = "check", !.ops = Tail(@)].at = "check"
<1> DEFINE t == Tail(c.ops)
           d == [c EXCEPT !.at = "check", !.ops = t]
<1>1. c.ops \in Seq(AnyOp) /\ c.ops # <<>> /\ t \in Seq(Ops) /\ c.at \in Steps
  BY CallParts DEF Pending, Steps
<1>2. t \in Seq(AnyOp) /\ Len(t) = Len(c.ops) - 1 /\ \A i \in 1 .. Len(t) : t[i] = c.ops[i + 1]
  BY <1>1, HeadTailProperties
<1>3. d \in Calls
  BY <1>1, <1>2, CallParts DEF Steps
<1>4. "at" \in DOMAIN c /\ "ops" \in DOMAIN c /\ "kind" \in DOMAIN c
  BY <1>1 DEF Calls, AtRest, Steps
<1> HIDE DEF t
<1>5. d.at = "check" /\ d.ops = t /\ d.kind = c.kind
  BY <1>4
<1>6. c.kind = "publish" => \A i \in 1 .. Len(t) : t[i].op \in {"create", "sprint"}
  <2> SUFFICES ASSUME c.kind = "publish", NEW i \in 1 .. Len(t)
               PROVE  t[i].op \in {"create", "sprint"}
    OBVIOUS
  <2>1. Len(c.ops) \in Nat /\ i + 1 \in 1 .. Len(c.ops)
    BY <1>1, <1>2, LenProperties
  <2> QED
    BY <1>1, <1>2, <2>1 DEF Pending
<1>7. Pending(d)
  BY <1>1, <1>5, <1>6 DEF Pending
<1> QED
  BY <1>3, <1>5, <1>7 DEF t

\* The op at hand goes on to its write, as it was read.
LEMMA ReadOp ==
  ASSUME NEW c \in Calls, c.at = "check", c.kind = "plan", c.ops # <<>>, Pending(c),
         NEW r \in ReadOps
  PROVE  /\ [c EXCEPT !.at = "write", !.ops[1] = r] \in Calls
         /\ Pending([c EXCEPT !.at = "write", !.ops[1] = r])
         /\ [c EXCEPT !.at = "write", !.ops[1] = r].at = "write"
         /\ Head([c EXCEPT !.at = "write", !.ops[1] = r].ops) = r
<1> DEFINE t == [c.ops EXCEPT ![1] = r]
           d == [c EXCEPT !.at = "write", !.ops = t]
<1>1. c.ops \in Seq(Ops) /\ c.ops \in Seq(AnyOp) /\ c.at \in Steps
  BY CallParts DEF Pending, Steps
<1>2. 1 \in 1 .. Len(c.ops) /\ Len(c.ops) \in Nat
  BY <1>1, LenProperties, EmptySeq
<1>3. t \in Seq(AnyOp) /\ Len(t) = Len(c.ops)
      /\ \A i \in 1 .. Len(c.ops) : t[i] = IF i = 1 THEN r ELSE c.ops[i]
  BY <1>1, <1>2, ExceptSeq DEF AnyOp
<1>4. Tail(t) = Tail(c.ops) /\ Tail(c.ops) \in Seq(Ops) /\ t # <<>> /\ Head(t) = r
  <2> HIDE DEF t
  <2>1. t # <<>> /\ c.ops # <<>> /\ Head(t) = r
    BY <1>2, <1>3, EmptySeq
  <2>2. /\ Tail(t) \in Seq(AnyOp) /\ Len(Tail(t)) = Len(t) - 1
        /\ \A i \in 1 .. Len(Tail(t)) : Tail(t)[i] = t[i + 1]
    BY <1>3, <2>1, HeadTailProperties
  <2>3. /\ Tail(c.ops) \in Seq(AnyOp) /\ Len(Tail(c.ops)) = Len(c.ops) - 1
        /\ \A i \in 1 .. Len(Tail(c.ops)) : Tail(c.ops)[i] = c.ops[i + 1]
    BY <1>1, HeadTailProperties
  <2>4. \A i \in 1 .. Len(Tail(t)) : Tail(t)[i] = Tail(c.ops)[i]
    BY <1>2, <1>3, <2>2, <2>3
  <2>5. Tail(t) = Tail(c.ops)
    BY <1>3, <2>2, <2>3, <2>4, SeqEqual
  <2>6. Tail(c.ops) \in Seq(Ops)
    BY <1>1, HeadTailProperties
  <2> QED
    BY <2>1, <2>5, <2>6
<1> HIDE DEF t
<1>5. d \in Calls
  BY <1>1, <1>3, CallParts DEF Steps
<1>6. "at" \in DOMAIN c /\ "ops" \in DOMAIN c /\ "kind" \in DOMAIN c
  BY <1>1 DEF Calls, AtRest, Steps
<1>7. d.at = "write" /\ d.ops = t /\ d.kind = "plan"
  BY <1>6
<1>8. Pending(d)
  BY <1>4, <1>7 DEF Pending
<1> QED
  BY <1>4, <1>5, <1>7, <1>8 DEF t

\* A defer becomes a move.
LEMMA DeferOp ==
  ASSUME NEW c \in Calls, c.at = "check", c.kind = "plan", c.ops # <<>>, Pending(c), NEW m \in Ops
  PROVE  /\ [c EXCEPT !.ops[1] = m] \in Calls
         /\ Pending([c EXCEPT !.ops[1] = m])
         /\ [c EXCEPT !.ops[1] = m].at = "check"
<1> DEFINE t == [c.ops EXCEPT ![1] = m]
           d == [c EXCEPT !.ops = t]
<1>1. c.ops \in Seq(Ops) /\ c.ops \in Seq(AnyOp) /\ c.at \in Steps
  BY CallParts DEF Pending, Steps
<1>2. 1 \in 1 .. Len(c.ops)
  BY <1>1, LenProperties, EmptySeq
<1>3. t \in Seq(Ops) /\ t \in Seq(AnyOp)
  BY <1>1, <1>2, ExceptSeq DEF AnyOp
<1>4. "at" \in DOMAIN c /\ "ops" \in DOMAIN c /\ "kind" \in DOMAIN c
  BY <1>1 DEF Calls, AtRest, Steps
<1> HIDE DEF t
<1>5. [c EXCEPT !.at = "check", !.ops = t] \in Calls
  BY <1>1, <1>3, CallParts DEF Steps
<1>6. d = [c EXCEPT !.at = "check", !.ops = t]
  BY <1>4
<1>7. d.at = "check" /\ d.ops = t /\ d.kind = "plan"
  BY <1>4
<1>8. Pending(d)
  BY <1>3, <1>7 DEF Pending
<1> QED
  BY <1>5, <1>6, <1>7, <1>8 DEF t

\* A published sprint or story needs no reading.
LEMMA PublishOp ==
  ASSUME NEW c \in Calls, c.at = "check", c.kind = "publish", c.ops # <<>>, Pending(c)
  PROVE  /\ [c EXCEPT !.at = "write"] \in Calls
         /\ Pending([c EXCEPT !.at = "write"])
         /\ [c EXCEPT !.at = "write"].at = "write"
         /\ Head([c EXCEPT !.at = "write"].ops) = Head(c.ops)
         /\ Head(c.ops).op \in {"create", "sprint"}
<1> DEFINE d == [c EXCEPT !.at = "write"]
<1>1. c.ops \in Seq(Ops) /\ c.ops \in Seq(AnyOp) /\ c.at \in Steps
  BY CallParts DEF Pending, Steps
<1>2. 1 \in 1 .. Len(c.ops) /\ Head(c.ops) = c.ops[1] /\ Head(c.ops) \in Ops
      /\ Tail(c.ops) \in Seq(Ops)
  BY <1>1, LenProperties, EmptySeq, HeadTailProperties
<1>3. Head(c.ops).op \in {"create", "sprint"} /\ Head(c.ops) \in ReadOps
  BY <1>1, <1>2, OpKinds DEF Pending
<1>4. "at" \in DOMAIN c /\ "ops" \in DOMAIN c /\ "kind" \in DOMAIN c
  BY <1>1 DEF Calls, AtRest, Steps
<1>5. [c EXCEPT !.at = "write", !.ops = c.ops] \in Calls
  BY <1>1, CallParts DEF Steps
<1>6. d = [c EXCEPT !.at = "write", !.ops = c.ops]
  BY <1>4
<1>7. d.at = "write" /\ d.ops = c.ops /\ d.kind = "publish"
  BY <1>4
<1>8. Pending(d)
  BY <1>1, <1>2, <1>3, <1>7 DEF Pending
<1> QED
  BY <1>3, <1>5, <1>6, <1>7, <1>8

LEMMA RestIsPending ==
  /\ AtRest \in Calls /\ Pending(AtRest) /\ AtRest.at = "idle"
  /\ [at |-> "failed"] \in Calls /\ Pending([at |-> "failed"])
BY DEF AtRest, Calls, Pending, Steps

-----------------------------------------------------------------------------
\* The backlog changes by a write whose guards hold, and only then.
Writes(e) ==
  calls[e].at = "write" /\ Op(e) \in ReadOps /\ Trusted(Op(e)) /\ CanWrite(Op(e)) /\ Write(Op(e))

\* What a step of e leaves to be done; what it is about to write was read now.
Ready(e) ==
  /\ calls' = [calls EXCEPT ![e] = calls'[e]]
  /\ calls'[e] \in Calls /\ Pending(calls'[e])
  /\ calls'[e].at = "write" => /\ stories' = stories /\ deps' = deps
                               /\ Trusted(Head(calls'[e].ops))

LEMMA Going ==
  ASSUME BoardTypes, NEW e \in Editors, NEW c \in Calls, Pending(c), Goes(e, c),
         c.at = "write" => stories' = stories /\ deps' = deps /\ Trusted(Head(c.ops))
  PROVE  Ready(e)
<1>1. calls' = [calls EXCEPT ![e] = c] /\ calls'[e] = c
  BY DEF Goes, BoardTypes
<1> QED
  BY <1>1 DEF Ready

LEMMA RequestSteps ==
  ASSUME BoardInv, NEW e \in Editors, (\E o \in Requests : Request(e, o)) \/ RequestWrites(e)
  PROVE  Ready(e) /\ ((stories' = stories /\ deps' = deps) \/ Writes(e))
<1>1. ASSUME NEW o \in Requests, Request(e, o)
      PROVE  Ready(e) /\ stories' = stories /\ deps' = deps
  <2> DEFINE r == Read(o)
             c == [kind |-> "request", at |-> "write", ops |-> <<r>>]
  <2>1. o \in Ops /\ r \in ReadOps /\ Trusted(r)
    BY <1>1, OpsAssumption, ReadsAreTrusted DEF Request, BoardInv
  <2>2. Goes(e, c) /\ stories' = stories /\ deps' = deps
    BY <1>1 DEF Request, Stored
  <2> HIDE DEF r
  <2>3. <<r>> \in Seq(AnyOp) /\ <<r>> # <<>> /\ Head(<<r>>) = r /\ Tail(<<r>>) = <<>>
        /\ <<>> \in Seq(Ops)
    BY <2>1 DEF AnyOp
  <2>4. c \in Calls /\ Pending(c)
    BY <2>1, <2>3 DEF Calls, Pending, Steps
  <2>5. Head(c.ops) = r
    BY <2>3
  <2> HIDE DEF c
  <2> QED
    BY <2>1, <2>2, <2>4, <2>5, Going DEF BoardInv
<1>2. ASSUME RequestWrites(e)
      PROVE  Ready(e) /\ ((stories' = stories /\ deps' = deps) \/ Writes(e))
  <2>1. Goes(e, AtRest) /\ calls[e].at = "write"
    BY <1>2 DEF RequestWrites, Doing
  <2>2. Ready(e)
    BY <2>1, RestIsPending, Going DEF BoardInv
  <2>3. Op(e) \in ReadOps /\ Trusted(Op(e))
    BY <2>1 DEF BoardInv, WellWritten, Pending, Op
  <2> QED
    BY <1>2, <2>1, <2>2, <2>3 DEF RequestWrites, Writes
<1> QED
  BY <1>1, <1>2

LEMMA PlanSteps ==
  ASSUME BoardInv, NEW e \in Editors,
         \/ \E p \in Plans : ApprovePlan(e, p)
         \/ PlanChecks(e) \/ PlanDefers(e) \/ PlanWrites(e) \/ PlanIsStamped(e)
  PROVE  Ready(e) /\ ((stories' = stories /\ deps' = deps) \/ Writes(e))
<1> DEFINE c == calls[e]
<1>0. c \in Calls /\ Pending(c) /\ BoardTypes
  BY DEF BoardInv, WellWritten, BoardTypes
<1>1. ASSUME NEW p \in Plans, ApprovePlan(e, p)
      PROVE  Ready(e) /\ stories' = stories /\ deps' = deps
  <2> DEFINE d == [kind |-> "plan", at |-> "check", ops |-> p.actions, plan |-> p]
  <2>1. Goes(e, d) /\ stories' = stories /\ deps' = deps
    BY <1>1 DEF ApprovePlan, Stored
  <2>2. p.actions \in Seq(Ops) /\ p.actions \in Seq(AnyOp)
    <3>1. p.actions \in Seq(PlanOps)
      BY OpsAssumption
    <3> QED
      BY <3>1 DEF AnyOp, PlanOps
  <2>3. d \in Calls /\ Pending(d) /\ d.at = "check"
    BY <2>2 DEF Calls, Pending, Steps
  <2> HIDE DEF d
  <2> QED
    BY <1>0, <2>1, <2>3, Going
<1>2. ASSUME PlanChecks(e)
      PROVE  Ready(e) /\ stories' = stories /\ deps' = deps
  <2>1. /\ c.at = "check" /\ c.kind = "plan" /\ c.ops # <<>>
        /\ stories' = stories /\ deps' = deps
    BY <1>2 DEF PlanChecks, Doing, Stored
  <2>2. Op(e) \in Ops
    BY <1>0, <2>1, HeadTailProperties DEF Pending, Op
  <2>3. CASE Accepts(Op(e))
    <3> DEFINE r == Read(Op(e))
    <3>1. r \in ReadOps /\ Trusted(r)
      BY <1>0, <2>2, <2>3, ReadsAreTrusted
    <3>2. Goes(e, [c EXCEPT !.at = "write", !.ops[1] = r])
      BY <1>2, <2>3 DEF PlanChecks
    <3> HIDE DEF c, r
    <3> DEFINE d == [c EXCEPT !.at = "write", !.ops[1] = r]
    <3>3. d \in Calls /\ Pending(d) /\ Head(d.ops) = r
      BY <1>0, <2>1, <3>1, ReadOp
    <3> HIDE DEF d
    <3> QED
      BY <1>0, <2>1, <3>1, <3>2, <3>3, Going DEF d
  <2>4. CASE ~Accepts(Op(e))
    BY <1>0, <1>2, <2>1, <2>4, RestIsPending, Going DEF PlanChecks
  <2> QED
    BY <2>3, <2>4
<1>3. ASSUME PlanDefers(e)
      PROVE  Ready(e) /\ stories' = stories /\ deps' = deps
  <2>1. /\ c.at = "check" /\ c.kind = "plan" /\ c.ops # <<>> /\ Op(e).op = "defer"
        /\ stories' = stories /\ deps' = deps
    BY <1>3 DEF PlanDefers, Doing
  <2>2. Op(e) \in Ops
    BY <1>0, <2>1, HeadTailProperties DEF Pending, Op
  <2> DEFINE m == [op |-> "move", id |-> Op(e).id, sprint |-> deferTarget(Op(e).id)]
  <2>3. CASE deferTarget(Op(e).id) \in Sprints /\ Goes(e, [c EXCEPT !.ops[1] = m])
    <3>1. m \in Ops
      BY <2>1, <2>2, <2>3 DEF Ops
    <3> HIDE DEF c, m
    <3> DEFINE d == [c EXCEPT !.ops[1] = m]
    <3>2. d \in Calls /\ Pending(d) /\ d.at = "check"
      BY <1>0, <2>1, <3>1, DeferOp
    <3>3. Goes(e, d)
      BY <2>3
    <3> HIDE DEF d
    <3> QED
      BY <1>0, <2>1, <3>2, <3>3, Going
  <2>4. CASE Goes(e, AtRest)
    BY <1>0, <2>1, <2>4, RestIsPending, Going
  <2> QED
    BY <1>3, <2>3, <2>4 DEF PlanDefers
<1>4. ASSUME PlanWrites(e)
      PROVE  Ready(e) /\ ((stories' = stories /\ deps' = deps) \/ Writes(e))
  <2>1. c.at = "write" /\ Op(e) \in ReadOps /\ Trusted(Op(e))
    BY <1>4 DEF PlanWrites, Doing, BoardInv, WellWritten, Pending, Op
  <2>2. CASE CanWrite(Op(e))
    <3>1. Write(Op(e)) /\ Goes(e, [c EXCEPT !.at = "check", !.ops = Tail(@)])
      BY <1>4, <2>2 DEF PlanWrites
    <3>2. Writes(e)
      BY <2>1, <2>2, <3>1 DEF Writes
    <3> HIDE DEF c
    <3> DEFINE d == [c EXCEPT !.at = "check", !.ops = Tail(@)]
    <3>3. d \in Calls /\ Pending(d) /\ d.at = "check"
      BY <1>0, <2>1, NextOp
    <3>4. Goes(e, d)
      BY <3>1
    <3> HIDE DEF d
    <3> QED
      BY <1>0, <3>2, <3>3, <3>4, Going
  <2>3. CASE ~CanWrite(Op(e))
    BY <1>0, <1>4, <2>3, RestIsPending, Going DEF PlanWrites
  <2> QED
    BY <2>2, <2>3
<1>5. ASSUME PlanIsStamped(e)
      PROVE  Ready(e) /\ stories' = stories /\ deps' = deps
  <2>1. Goes(e, AtRest) /\ stories' = stories /\ deps' = deps
    BY <1>5 DEF PlanIsStamped
  <2> QED
    BY <1>0, <2>1, RestIsPending, Going
<1> QED
  BY <1>1, <1>2, <1>3, <1>4, <1>5

LEMMA PublishSteps ==
  ASSUME BoardInv, NEW e \in Editors,
         \/ \E p \in Publications : Publish(e, p)
         \/ PublishChecks(e) \/ PublishWrites(e) \/ PublishEnds(e) \/ Acknowledge(e)
  PROVE  Ready(e) /\ ((stories' = stories /\ deps' = deps) \/ Writes(e))
<1> DEFINE c == calls[e]
<1>0. c \in Calls /\ Pending(c) /\ BoardTypes
  BY DEF BoardInv, WellWritten, BoardTypes
<1>1. ASSUME NEW p \in Publications, Publish(e, p)
      PROVE  Ready(e) /\ stories' = stories /\ deps' = deps
  <2> DEFINE d == [kind |-> "publish", at |-> "check", ops |-> p]
             Published == {o \in Ops : o.op \in {"create", "sprint"}}
  <2>1. Goes(e, d) /\ stories' = stories /\ deps' = deps
    BY <1>1 DEF Publish, Stored
  <2>2. p \in Seq(Published)
    BY OpsAssumption
  <2>3. p \in Seq(Ops) /\ p \in Seq(AnyOp)
    BY <2>2 DEF AnyOp
  <2>4. \A i \in 1 .. Len(p) : p[i].op \in {"create", "sprint"}
    BY <2>2, LenProperties
  <2>5. d \in Calls /\ Pending(d) /\ d.at = "check"
    BY <2>3, <2>4 DEF Calls, Pending, Steps
  <2> HIDE DEF d
  <2> QED
    BY <1>0, <2>1, <2>5, Going
<1>2. ASSUME PublishChecks(e)
      PROVE  Ready(e) /\ stories' = stories /\ deps' = deps
  <2>1. /\ c.at = "check" /\ c.kind = "publish" /\ c.ops # <<>>
        /\ stories' = stories /\ deps' = deps
    BY <1>2 DEF PublishChecks, Doing, Stored
  <2>2. CASE Accepts(Op(e)) /\ Goes(e, [c EXCEPT !.at = "write"])
    <3> HIDE DEF c
    <3> DEFINE d == [c EXCEPT !.at = "write"]
    <3>1. d \in Calls /\ Pending(d) /\ Head(d.ops).op \in {"create", "sprint"}
      BY <1>0, <2>1, PublishOp
    <3>2. Goes(e, d)
      BY <2>2
    <3>3. Trusted(Head(d.ops))
      <4>1. Head(d.ops) = Op(e) /\ Op(e) \in Ops
        BY <1>0, <2>1, PublishOp, HeadTailProperties DEF Pending, Op, c
      <4>2. Read(Op(e)) = Op(e)
        BY <3>1, <4>1 DEF Read
      <4> QED
        BY <1>0, <2>2, <4>1, <4>2, ReadsAreTrusted
    <3> HIDE DEF d
    <3> QED
      BY <1>0, <2>1, <3>1, <3>2, <3>3, Going
  <2>3. CASE Goes(e, AtRest)
    BY <1>0, <2>1, <2>3, RestIsPending, Going
  <2> QED
    BY <1>2, <2>2, <2>3 DEF PublishChecks
<1>3. ASSUME PublishWrites(e)
      PROVE  Ready(e) /\ ((stories' = stories /\ deps' = deps) \/ Writes(e))
  <2>1. c.at = "write" /\ Op(e) \in ReadOps /\ Trusted(Op(e))
    BY <1>3 DEF PublishWrites, Doing, BoardInv, WellWritten, Pending, Op
  <2>2. Goes(e, [c EXCEPT !.at = "check", !.ops = Tail(@)])
    BY <1>3 DEF PublishWrites
  <2>3. Ready(e)
    <3> HIDE DEF c
    <3> DEFINE d == [c EXCEPT !.at = "check", !.ops = Tail(@)]
    <3>1. d \in Calls /\ Pending(d) /\ d.at = "check"
      BY <1>0, <2>1, NextOp
    <3>2. Goes(e, d)
      BY <2>2
    <3> HIDE DEF d
    <3> QED
      BY <1>0, <3>1, <3>2, Going
  <2> QED
    BY <1>3, <2>1, <2>3 DEF PublishWrites, Writes
<1>4. ASSUME PublishEnds(e) \/ Acknowledge(e)
      PROVE  Ready(e) /\ stories' = stories /\ deps' = deps
  <2>1. \E d \in {AtRest, [at |-> "failed"]} : Goes(e, d)
    BY <1>4 DEF PublishEnds, Acknowledge
  <2>2. stories' = stories /\ deps' = deps
    BY <1>4 DEF PublishEnds, Acknowledge, Stored
  <2> QED
    BY <1>0, <2>1, <2>2, RestIsPending, Going
<1> QED
  BY <1>1, <1>2, <1>3, <1>4

LEMMA EditEffect ==
  ASSUME BoardInv, NEW e \in Editors, Edit(e)
  PROVE  Ready(e) /\ ((stories' = stories /\ deps' = deps) \/ Writes(e))
BY RequestSteps, PlanSteps, PublishSteps DEF Edit

\* The scheduler and the operators.
LEMMA WorkEffect ==
  ASSUME BoardTypes, NEW s \in Ids, Work(s)
  PROVE  /\ calls' = calls /\ deps' = deps /\ stories' \in [Ids -> Story]
         /\ \A x \in Ids : storyExists(x) => storyExists(x)'
         /\ \A x \in Ids : stories'[x].sprint = stories[x].sprint
<1>1. PICK to \in Statuses : stories' = [stories EXCEPT ![s].status = to]
  BY DEF Work, Progress, Requeue, Statuses
<1>2. calls' = calls /\ deps' = deps
  BY DEF Work, Progress, Requeue
<1> QED
  BY <1>1, <1>2 DEF BoardTypes, Story, storyExists, Statuses

LEMMA BoardInitInvariant == BacklogInit => BoardInv
<1> SUFFICES ASSUME BacklogInit PROVE BoardInv
  OBVIOUS
<1>1. BoardTypes
  BY BacklogAssumption, RestIsPending DEF BacklogInit, BoardTypes
<1>2. \A e \in Editors : calls[e] = AtRest
  BY DEF BacklogInit
<1>3. StartsWhole => EdgesHaveStories
  BY DEF BacklogInit, StartsWhole, EdgesHaveStories, storyExists
<1> QED
  BY <1>1, <1>2, <1>3, RestIsPending DEF BoardInv, WellWritten

LEMMA BoardNextInvariant == BoardInv /\ [BacklogNext]_backlogVars => BoardInv'
<1> SUFFICES ASSUME BoardInv, [BacklogNext]_backlogVars PROVE BoardInv'
  OBVIOUS
<1>0. BoardTypes /\ \A e \in Editors : calls[e] \in Calls
  BY DEF BoardInv, BoardTypes
<1>1. ASSUME calls' = calls, deps' = deps, stories' \in [Ids -> Story],
             \A x \in Ids : storyExists(x) => storyExists(x)'
      PROVE  BoardInv'
  <2>1. \A c \in Editors : calls[c].at = "write" => Op(c) \in ReadOps
    BY DEF BoardInv, WellWritten, Pending, Op
  <2>2. ASSUME NEW o \in ReadOps, Trusted(o) PROVE Trusted(o)'
    BY <1>1, <2>2, OpKinds DEF Trusted, StoryDependents, DepsOf, closesCycle
  <2>3. WellWritten'
    BY <1>1, <2>1, <2>2 DEF BoardInv, WellWritten, Op
  <2>4. EdgesHaveStories => EdgesHaveStories'
    BY <1>0, <1>1 DEF EdgesHaveStories, BoardTypes
  <2> QED
    BY <1>0, <1>1, <2>3, <2>4 DEF BoardInv, BoardTypes
<1>2. CASE UNCHANGED backlogVars
  BY <1>0, <1>1, <1>2 DEF backlogVars, BoardTypes, storyExists
<1>3. ASSUME NEW s \in Ids, Work(s) PROVE BoardInv'
  BY <1>0, <1>1, <1>3, WorkEffect
<1>4. ASSUME NEW e \in Editors, Edit(e) PROVE BoardInv'
  <2>1. Ready(e) /\ ((stories' = stories /\ deps' = deps) \/ Writes(e))
    BY <1>4, EditEffect
  <2>2. stories' \in [Ids -> Story] /\ deps' \subseteq Ids \X Ids
    BY <1>0, <2>1, WriteTypes DEF Writes, BoardTypes
  <2>3. /\ calls' = [calls EXCEPT ![e] = calls'[e]] /\ calls'[e] \in Calls
        /\ Pending(calls'[e])
    BY <2>1 DEF Ready
  <2>4. calls' \in [Editors -> Calls] /\ \A c \in Editors \ {e} : calls'[c] = calls[c]
    BY <1>0, <2>3 DEF BoardTypes
  <2>5. BoardTypes'
    BY <2>2, <2>4 DEF BoardTypes
  <2>6. ASSUME NEW c \in Editors PROVE Pending(calls'[c])
    BY <2>3, <2>4 DEF BoardInv, WellWritten
  <2>7. ASSUME NEW c \in Editors, calls'[c].at = "write" PROVE Trusted(Op(c))'
    <3>1. CASE c = e
      BY <2>1, <2>7, <3>1
      DEF Ready, Trusted, StoryDependents, DepsOf, closesCycle, storyExists, Op
    <3>2. CASE c # e
      <4>1. calls'[c] = calls[c] /\ Trusted(Op(c)) /\ ~OneEditor
        BY <2>4, <2>7, <3>2 DEF BoardInv, WellWritten, OneEditor
      <4> QED
        BY <4>1 DEF Trusted, Op
    <3> QED
      BY <3>1, <3>2
  <2>8. WellWritten'
    BY <2>6, <2>7 DEF WellWritten
  <2>9. OneEditor /\ StartsWhole => EdgesHaveStories'
    <3>1. CASE stories' = stories /\ deps' = deps
      BY <3>1 DEF BoardInv, EdgesHaveStories, storyExists
    <3>2. CASE Writes(e)
      BY <1>0, <3>2, WriteKeepsEdges DEF Writes, BoardInv
    <3> QED
      BY <2>1, <3>1, <3>2
  <2> QED
    BY <2>5, <2>8, <2>9 DEF BoardInv
<1> QED
  BY <1>2, <1>3, <1>4 DEF BacklogNext

LEMMA BoardInvariant == BacklogSpec => []BoardInv
BY BoardInitInvariant, BoardNextInvariant, PTL DEF BacklogSpec

\* Whoever edits and whatever the scheduler does between the reads of an edit
\* and its write, a story that is being worked on or is over keeps its sprint.
THEOREM WorkKeepsItsSprint == BacklogSpec => WorkStaysInItsSprint
<1>1. BoardInv /\ [BacklogNext]_backlogVars =>
        [\A s \in Ids :
           stories[s].status \in Statuses \ Movable /\ stories'[s].status # "absent"
             => stories'[s].sprint = stories[s].sprint]_backlogVars
  <2> SUFFICES ASSUME BoardInv, BacklogNext, NEW s \in Ids,
                      stories[s].status \in Statuses \ Movable, stories'[s].status # "absent"
               PROVE  stories'[s].sprint = stories[s].sprint
    OBVIOUS
  <2>0. BoardTypes
    BY DEF BoardInv
  <2>1. CASE \E t \in Ids : Work(t)
    BY <2>0, <2>1, WorkEffect
  <2>2. ASSUME NEW e \in Editors, Edit(e) PROVE stories'[s].sprint = stories[s].sprint
    <3>1. stories' = stories \/ Writes(e)
      BY <2>2, EditEffect
    <3> QED
      BY <2>0, <3>1, WriteKeepsSprints DEF Writes
  <2> QED
    BY <2>1, <2>2 DEF BacklogNext
<1> QED
  BY <1>1, BoardInvariant, PTL DEF BacklogSpec, WorkStaysInItsSprint

\* With one editor at a time, a story goes on waiting for what it waits for until
\* its own edit or deletion says otherwise, or for every part of what was split.
THEOREM WaitsAreKept ==
  ASSUME OneEditor
  PROVE  BacklogSpec => WaitIsKept
<1>1. BoardInv /\ [BacklogNext]_backlogVars =>
        [\A e \in deps \ deps' :
           \/ \E c \in Editors :
                /\ calls[c].at = "write"
                /\ Op(c).op \in {"edit", "delete"}
                /\ Op(c).id = e[1]
           \/ /\ stories[e[2]].status # "cancelled" /\ stories'[e[2]].status = "cancelled"
              /\ \E P \in SUBSET {p \in Ids : ~storyExists(p) /\ stories'[p].status = "backlog"} :
                   Cardinality(P) >= 2 /\ {e[1]} \X P \subseteq deps'
              /\ \A p \in Ids : ~storyExists(p) /\ stories'[p].status = "backlog"
                                  => <<e[1], p>> \in deps']_backlogVars
  <2> SUFFICES ASSUME BoardInv, BacklogNext, NEW e \in deps \ deps'
               PROVE  \/ \E c \in Editors :
                           /\ calls[c].at = "write"
                           /\ Op(c).op \in {"edit", "delete"}
                           /\ Op(c).id = e[1]
                      \/ /\ stories[e[2]].status # "cancelled" /\ stories'[e[2]].status = "cancelled"
                         /\ \E P \in SUBSET {p \in Ids : /\ ~storyExists(p)
                                                         /\ stories'[p].status = "backlog"} :
                              Cardinality(P) >= 2 /\ {e[1]} \X P \subseteq deps'
                         /\ \A p \in Ids : ~storyExists(p) /\ stories'[p].status = "backlog"
                                             => <<e[1], p>> \in deps'
    OBVIOUS
  <2>0. BoardTypes
    BY DEF BoardInv
  <2>1. ~\E s \in Ids : Work(s)
    BY <2>0, WorkEffect
  <2>2. PICK c \in Editors : Edit(c)
    BY <2>1 DEF BacklogNext
  <2>3. Writes(c)
    BY <2>2, EditEffect
  <2> QED
    BY <2>0, <2>3, WriteKeepsWaits DEF Writes
<1> QED
  BY <1>1, BoardInvariant, PTL DEF BacklogSpec, WaitIsKept

\* With one editor at a time, no edit closes a cycle in a whole backlog: the
\* dependencies an edit was checked against are those it is written into, and a
\* split puts its parts where the story was.
THEOREM NoEditClosesACycle ==
  ASSUME OneEditor, StartsWhole
  PROVE  BacklogSpec => NoNewCycle
<1>1. BoardInv /\ [BacklogNext]_backlogVars => [ValidateDeps => Acyclic']_backlogVars
  <2> SUFFICES ASSUME BoardInv, BacklogNext, ValidateDeps PROVE Acyclic'
    OBVIOUS
  <2>0. BoardTypes /\ EdgesHaveStories
    BY DEF BoardInv
  <2>1. CASE deps' = deps
    BY <2>1 DEF ValidateDeps, Acyclic
  <2>2. ASSUME NEW e \in Editors, Writes(e) PROVE Acyclic'
    BY <2>0, <2>2, WriteKeepsAcyclic DEF Writes, Acyclic, IsAcyclic
  <2>3. deps' = deps \/ \E e \in Editors : Writes(e)
    BY <2>0, WorkEffect, EditEffect DEF BacklogNext
  <2> QED
    BY <2>1, <2>2, <2>3
<1> QED
  BY <1>1, BoardInvariant, PTL DEF BacklogSpec, NoNewCycle

-----------------------------------------------------------------------------
(***************************************************************************)
(* A plan in force.  With one editor at a time, what remains of a call is  *)
(* the rest of its plan (Lined), and what is behind it stands (Kept): the  *)
(* scheduler cannot undo it, and a later action of the plan only replaces  *)
(* it if it is on the same story.                                          *)
(***************************************************************************)
Superseded(A, i) == \E j \in DOMAIN A : j > i /\ A[j].id = A[i].id

\* No action splits a story that an earlier one has made another wait for: the
\* link would go to the parts, as it should, and be in force no more.
CoherentPlans ==
  \A p \in Plans : \A i, j \in DOMAIN p.actions :
    /\ i < j /\ p.actions[i].op = "edit" /\ p.actions[j].op = "split"
    /\ p.actions[j].id \in p.actions[i].deps
    => Superseded(p.actions, i)

\* What is checked and written for an action of the plan.
Renders(o, a) ==
  /\ o.id = a.id
  /\ \/ o = a
     \/ a.op = "defer" /\ o.op = "move" /\ o.sprint \in Sprints
     \/ a.op = "split" /\ o.op = "split" /\ o.parts = a.parts

Behind(c) == Len(c.plan.actions) - Len(c.ops)

Lined(c) ==
  /\ Behind(c) \in 0 .. Len(c.plan.actions)
  /\ \A i \in 2 .. Len(c.ops) : c.ops[i] = c.plan.actions[Behind(c) + i]
  /\ c.ops # <<>> => Renders(c.ops[1], c.plan.actions[Behind(c) + 1])

Stands(a) == storyExists(a.id) /\ InForce(a)
Kept(c) ==
  \A i \in 1 .. Behind(c) : Superseded(c.plan.actions, i) \/ Stands(c.plan.actions[i])

Planning(c) == c.at \in Steps /\ c.kind = "plan"
PlanInv == \A e \in Editors : Planning(calls[e]) => Lined(calls[e]) /\ Kept(calls[e])

LEMMA PlanParts ==
  ASSUME NEW c \in Calls, Planning(c)
  PROVE  /\ c.plan \in Plans /\ c.plan.actions \in Seq(PlanOps) /\ c.plan.actions \in Seq(Ops)
         /\ c.ops \in Seq(AnyOp) /\ Len(c.ops) \in Nat /\ Len(c.plan.actions) \in Nat
<1>1. c \in [kind : {"plan"}, at : Steps, ops : Seq(AnyOp), plan : Plans]
  BY DEF Calls, Planning, AtRest, Steps
<1>2. c.plan \in Plans /\ c.plan.actions \in Seq(PlanOps) /\ c.ops \in Seq(AnyOp)
  BY <1>1, OpsAssumption
<1> QED
  BY <1>2, LenProperties DEF PlanOps

LEMMA PlanOpKinds ==
  \A a \in PlanOps : /\ a.op \in {"move", "defer", "cancel", "edit", "split"} /\ a.id \in Ids
                     /\ a.op = "move" => a.sprint \in Sprints \cup {0}
                     /\ a.op = "edit" => a.deps \subseteq Ids
                     /\ a.op = "split" => a.parts \subseteq Ids
BY DEF PlanOps, Ops

-----------------------------------------------------------------------------
\* The scheduler moves no story to another sprint, and ends or revives no
\* cancelled one.
LEMMA WorkKeepsPlan ==
  ASSUME BoardTypes, NEW s \in Ids, Work(s), NEW a \in PlanOps, Stands(a)
  PROVE  Stands(a)'
<1>1. deps' = deps /\ \A x \in Ids : stories'[x].sprint = stories[x].sprint
                                     /\ (storyExists(x) => storyExists(x)')
  BY WorkEffect
<1>2. \A x \in Ids : stories[x].status = "cancelled" => stories'[x].status = "cancelled"
  BY DEF Work, Progress, Requeue, LegalSources, BoardTypes, Story
<1> QED
  BY <1>1, <1>2, PlanOpKinds DEF Stands, InForce

\* A write for another story leaves what stands, unless it splits what the
\* story was made to wait for.
LEMMA WriteKeepsPlan ==
  ASSUME BoardTypes, NEW o \in ReadOps, o.op \in {"move", "edit", "split", "cancel"},
         CanWrite(o), Write(o), NEW a \in PlanOps, Stands(a), a.id # o.id,
         a.op = "edit" /\ o.op = "split" => o.id \notin a.deps
  PROVE  Stands(a)'
<1>0. a.id \in Ids /\ o.id \in Ids /\ stories[a.id].status # "absent"
  BY PlanOpKinds, OpKinds DEF Stands, storyExists
<1>1. CASE MoveStory(o) \/ CancelStory(o)
  <2>1. /\ deps' = deps /\ stories'[a.id] = stories[a.id]
        /\ \A x \in Ids : storyExists(x) => storyExists(x)'
    BY <1>0, <1>1 DEF MoveStory, CancelStory, BoardTypes, storyExists, Story
  <2> QED
    BY <1>0, <2>1, PlanOpKinds DEF Stands, InForce, storyExists
<1>2. CASE EditStory(o)
  <2>1. stories' = stories /\ \A d \in Ids : <<a.id, d>> \in deps => <<a.id, d>> \in deps'
    BY <1>0, <1>2 DEF EditStory, Edges
  <2> QED
    BY <1>0, <2>1, PlanOpKinds DEF Stands, InForce, storyExists
<1>3. CASE SplitStory(o)
  <2>1. a.id \notin o.parts /\ o.parts \subseteq Ids
    BY <1>0, <1>3, OpKinds DEF SplitStory, CanWrite, storyExists
  <2>2. /\ stories'[a.id] = stories[a.id]
        /\ \A x \in Ids : storyExists(x) => storyExists(x)'
    BY <1>0, <1>3, <2>1 DEF SplitStory, BoardTypes, storyExists, Story
  <2>3. \A d \in Ids \ {o.id} : <<a.id, d>> \in deps => <<a.id, d>> \in deps'
    BY <1>3 DEF SplitStory
  <2>4. a.op = "edit" => \A d \in a.deps : <<a.id, d>> \in deps'
    BY <1>3, <2>3, PlanOpKinds DEF Stands, InForce, SplitStory
  <2> QED
    BY <1>0, <2>2, <2>4, PlanOpKinds DEF Stands, InForce, storyExists
<1> QED
  BY <1>1, <1>2, <1>3 DEF Write, CreateStory, AddDep, DeleteStory, CreateSprint

\* A write puts its action in force.
LEMMA WriteApplies ==
  ASSUME BoardTypes, NEW o \in ReadOps, CanWrite(o), Write(o), Trusted(o), OneEditor,
         NEW a \in PlanOps, Renders(o, a)
  PROVE  Stands(a)' /\ o.op \in {"move", "edit", "split", "cancel"}
<1>0. a.id \in Ids /\ o.id = a.id /\ o.op # "defer"
  BY PlanOpKinds DEF Renders, CanWrite
<1>1. o.op \in {"move", "edit", "split", "cancel"}
  BY <1>0, PlanOpKinds DEF Renders
<1>2. CASE MoveStory(o)
  <2>1. /\ a.op \in {"move", "defer"}
        /\ a.op = "move" => o.sprint = a.sprint
        /\ a.op = "defer" => o.sprint \in Sprints
    BY <1>0, <1>2, PlanOpKinds DEF Renders, MoveStory
  <2>2. storyExists(a.id)' /\ stories'[a.id].sprint = o.sprint
    BY <1>0, <1>2 DEF MoveStory, CanWrite, storyExists, Movable, BoardTypes, Story
  <2> QED
    BY <1>1, <2>1, <2>2 DEF Stands, InForce
<1>3. CASE EditStory(o)
  <2>1. o = a /\ o.op = "edit" /\ storyExists(a.id) /\ stories' = stories
    BY <1>0, <1>3 DEF Renders, EditStory, Trusted
  <2>2. \A d \in a.deps : <<a.id, d>> \in deps'
    BY <1>3, <2>1 DEF EditStory, Edges
  <2> QED
    BY <1>1, <2>1, <2>2 DEF Stands, InForce, storyExists
<1>4. CASE CancelStory(o)
  <2>1. o = a /\ o.op = "cancel" /\ stories'[a.id].status = "cancelled"
    BY <1>0, <1>4 DEF Renders, CancelStory, BoardTypes, Story
  <2> QED
    BY <1>1, <2>1 DEF Stands, InForce, storyExists
<1>5. CASE SplitStory(o)
  <2>1. a.op = "split" /\ o.op = "split" /\ o.parts = a.parts /\ o.parts \subseteq Ids
    BY <1>0, <1>5, OpKinds DEF Renders, SplitStory
  <2>2. \A x \in o.parts \cup {a.id} : storyExists(x)'
    BY <1>0, <1>5, <2>1 DEF SplitStory, storyExists, BoardTypes, Story
  <2> QED
    BY <1>1, <2>1, <2>2 DEF Stands, InForce
<1> QED
  BY <1>1, <1>2, <1>3, <1>4, <1>5 DEF Write, CreateStory, AddDep, DeleteStory, CreateSprint

-----------------------------------------------------------------------------
LEMMA HeadReplaced ==
  ASSUME NEW c \in Calls, Planning(c), c.ops # <<>>, Lined(c), NEW k \in Steps,
         NEW r \in AnyOp, Renders(r, c.plan.actions[Behind(c) + 1])
  PROVE  LET d == [c EXCEPT !.at = k, !.ops[1] = r]
         IN  Lined(d) /\ (Kept(c) => Kept(d))
<1> DEFINE t == [c.ops EXCEPT ![1] = r]
           d == [c EXCEPT !.at = k, !.ops = t]
<1>1. c.ops \in Seq(AnyOp) /\ Len(c.ops) \in Nat /\ 1 \in 1 .. Len(c.ops)
  BY PlanParts, LenProperties, EmptySeq
<1>2. t \in Seq(AnyOp) /\ Len(t) = Len(c.ops)
      /\ \A i \in 1 .. Len(c.ops) : t[i] = IF i = 1 THEN r ELSE c.ops[i]
  BY <1>1, ExceptSeq
<1>3. "at" \in DOMAIN c /\ "ops" \in DOMAIN c /\ "kind" \in DOMAIN c /\ "plan" \in DOMAIN c
  BY DEF Calls, AtRest, Steps, Planning
<1> HIDE DEF t
<1>4. d.ops = t /\ d.plan = c.plan
  BY <1>3
<1> HIDE DEF d
<1>5. Behind(d) = Behind(c)
  BY <1>2, <1>4 DEF Behind
<1>6. Lined(d)
  BY <1>1, <1>2, <1>4, <1>5 DEF Lined
<1>7. Kept(c) => Kept(d)
  BY <1>4, <1>5 DEF Kept
<1> QED
  BY <1>6, <1>7 DEF d, t

LEMMA HeadDone ==
  ASSUME NEW c \in Calls, Planning(c), c.ops # <<>>, Lined(c)
  PROVE  LET d == [c EXCEPT !.at = "check", !.ops = Tail(@)]
         IN  /\ Lined(d) /\ d.plan = c.plan /\ Behind(d) = Behind(c) + 1
             /\ Behind(c) \in Nat /\ Behind(c) + 1 \in DOMAIN c.plan.actions
             /\ Head(c.ops) = c.ops[1]
<1> DEFINE t == Tail(c.ops)
           d == [c EXCEPT !.at = "check", !.ops = t]
           A == c.plan.actions
<1>1. /\ c.ops \in Seq(AnyOp) /\ Len(c.ops) \in Nat /\ 1 \in 1 .. Len(c.ops)
      /\ A \in Seq(Ops) /\ Len(A) \in Nat
  BY PlanParts, LenProperties, EmptySeq
<1>2. /\ t \in Seq(AnyOp) /\ Len(t) = Len(c.ops) - 1 /\ Head(c.ops) = c.ops[1]
      /\ \A i \in 1 .. Len(t) : t[i] = c.ops[i + 1]
  BY <1>1, HeadTailProperties
<1>3. "at" \in DOMAIN c /\ "ops" \in DOMAIN c /\ "kind" \in DOMAIN c /\ "plan" \in DOMAIN c
  BY DEF Calls, AtRest, Steps, Planning
<1> HIDE DEF t
<1>4. d.ops = t /\ d.plan = c.plan
  BY <1>3
<1> HIDE DEF d
<1>5. Behind(d) = Behind(c) + 1 /\ Behind(c) \in Nat /\ Behind(c) + Len(c.ops) = Len(A)
  <2>1. Behind(c) = Len(A) - Len(c.ops) /\ Behind(d) = Len(A) - Len(t)
    BY <1>4 DEF Behind
  <2>2. Behind(c) \in Nat
    BY DEF Lined
  <2> QED
    BY <1>1, <1>2, <2>1, <2>2
<1>6. Behind(c) + 1 \in DOMAIN A
  BY <1>1, <1>5, LenProperties
<1>7. \A i \in 1 .. Len(t) : t[i] = A[Behind(d) + i]
  <2> SUFFICES ASSUME NEW i \in 1 .. Len(t)  PROVE t[i] = A[Behind(d) + i]
    OBVIOUS
  <2>1. i + 1 \in 2 .. Len(c.ops) /\ Behind(c) + (i + 1) = Behind(d) + i
    <3>1. Len(c.ops) \in Nat /\ Len(t) = Len(c.ops) - 1 /\ i \in Nat /\ 1 <= i /\ i <= Len(t)
      BY <1>1, <1>2
    <3>2. Behind(d) = Behind(c) + 1 /\ Behind(c) \in Nat
      BY <1>5
    <3> HIDE DEF A
    <3> QED
      BY <3>1, <3>2
  <2> QED
    BY <1>2, <2>1 DEF Lined
<1>8. t # <<>> => Renders(t[1], A[Behind(d) + 1])
  <2> SUFFICES ASSUME t # <<>>  PROVE Renders(t[1], A[Behind(d) + 1])
    OBVIOUS
  <2>1. 1 \in 1 .. Len(t)
    BY <1>2, LenProperties, EmptySeq
  <2> QED
    BY <1>7, <2>1 DEF Renders
<1>9. Lined(d)
  <2>1. Behind(d) \in 0 .. Len(A)
    BY <1>1, <1>5
  <2>2. \A i \in 2 .. Len(t) : t[i] = A[Behind(d) + i]
    BY <1>1, <1>2, <1>7
  <2> QED
    BY <1>4, <1>8, <2>1, <2>2 DEF Lined
<1> QED
  BY <1>2, <1>4, <1>5, <1>6, <1>9 DEF d, t

\* The next action is written: it stands, and with it what stood before.
LEMMA PlanGoesOn ==
  ASSUME BoardTypes, OneEditor, CoherentPlans, NEW c \in Calls, Planning(c), c.ops # <<>>,
         Lined(c), Kept(c), Head(c.ops) \in ReadOps, Trusted(Head(c.ops)),
         CanWrite(Head(c.ops)), Write(Head(c.ops))
  PROVE  LET d == [c EXCEPT !.at = "check", !.ops = Tail(@)]
         IN  Lined(d) /\ Kept(d)'
<1> DEFINE d == [c EXCEPT !.at = "check", !.ops = Tail(@)]
           A == c.plan.actions
           k == Behind(c) + 1
           o == Head(c.ops)
<1>1. /\ Lined(d) /\ d.plan = c.plan /\ Behind(d) = k /\ Behind(c) \in Nat
      /\ k \in DOMAIN A /\ o = c.ops[1]
  BY HeadDone
<1>2. c.plan \in Plans /\ A \in Seq(PlanOps) /\ Len(A) \in Nat /\ DOMAIN A = 1 .. Len(A)
  BY PlanParts, LenProperties
<1>3. \A i \in 1 .. k : i \in DOMAIN A /\ A[i] \in PlanOps
  BY <1>1, <1>2, ElementOfSeq
<1>4. Renders(o, A[k])
  BY <1>1 DEF Lined
<1>5. Stands(A[k])' /\ o.op \in {"move", "edit", "split", "cancel"}
  BY <1>1, <1>3, <1>4, WriteApplies
<1>6. ASSUME NEW i \in 1 .. k, ~Superseded(A, i)  PROVE Stands(A[i])'
  <2>1. CASE i = k
    BY <1>5, <2>1
  <2>2. CASE i # k
    <3>1. i \in 1 .. Behind(c) /\ i < k /\ Stands(A[i])
      BY <1>1, <1>6, <2>2 DEF Kept
    <3>2. A[i].id # o.id
      BY <1>1, <1>4, <1>6, <3>1 DEF Superseded, Renders
    <3>3. A[i].op = "edit" /\ o.op = "split" => o.id \notin A[i].deps
      <4>1. o.op = "split" => A[k].op = "split" /\ A[k].id = o.id
        BY <1>4 DEF Renders
      <4> QED
        BY <1>1, <1>2, <1>3, <1>6, <3>1, <4>1 DEF CoherentPlans
    <3> QED
      BY <1>3, <1>5, <3>1, <3>2, <3>3, WriteKeepsPlan
  <2> QED
    BY <2>1, <2>2
<1> HIDE DEF d
<1>7. Kept(d)'
  BY <1>1, <1>6 DEF Kept, Superseded
<1> QED
  BY <1>1, <1>7 DEF d

\* While nothing is written what stands stays.
LEMMA NothingWritten ==
  ASSUME stories' = stories, deps' = deps, NEW c, Kept(c)
  PROVE  Kept(c)'
BY DEF Kept, Superseded, Behind, Stands, InForce, storyExists

LEMMA PlanApproved ==
  ASSUME NEW p \in Plans
  PROVE  LET d == [kind |-> "plan", at |-> "check", ops |-> p.actions, plan |-> p]
         IN  Lined(d) /\ Kept(d)
<1> DEFINE d == [kind |-> "plan", at |-> "check", ops |-> p.actions, plan |-> p]
<1>1. p.actions \in Seq(PlanOps) /\ Len(p.actions) \in Nat
  BY OpsAssumption, LenProperties
<1>2. d.ops = p.actions /\ d.plan.actions = p.actions
  OBVIOUS
<1> HIDE DEF d
<1>3. Behind(d) = 0
  BY <1>1, <1>2 DEF Behind
<1>4. Lined(d)
  BY <1>1, <1>2, <1>3 DEF Lined, Renders
<1>5. Kept(d)
  BY <1>3 DEF Kept
<1> QED
  BY <1>4, <1>5 DEF d

\* A step of the editor: c is its call before it, d after it.
LEMMA PlanEdit ==
  ASSUME BoardInv, PlanInv, OneEditor, CoherentPlans, NEW e \in Editors, Edit(e),
         NEW c \in Calls, c = calls[e], NEW d, d = calls'[e], Planning(d)
  PROVE  Lined(d) /\ Kept(d)'
<1>0. /\ BoardTypes /\ Pending(c) /\ (c.at = "write" => Head(c.ops) \in ReadOps /\ Trusted(Head(c.ops)))
      /\ Planning(c) => Lined(c) /\ Kept(c)
      /\ Op(e) = Head(c.ops)
      /\ \A x : Goes(e, x) => d = x
  BY DEF BoardInv, BoardTypes, WellWritten, PlanInv, Op, Goes, Pending
<1>1. ~Goes(e, AtRest) /\ ~Goes(e, [at |-> "failed"])
  BY <1>0 DEF AtRest, Planning, Steps
<1>2. ASSUME NEW p \in Plans, ApprovePlan(e, p)  PROVE Lined(d) /\ Kept(d)'
  <2>1. stories' = stories /\ deps' = deps
        /\ d = [kind |-> "plan", at |-> "check", ops |-> p.actions, plan |-> p]
    BY <1>0, <1>2 DEF ApprovePlan, Stored
  <2>2. Lined(d) /\ Kept(d)
    BY <2>1, PlanApproved
  <2> QED
    BY <2>1, <2>2, NothingWritten
<1>3. ASSUME PlanChecks(e) \/ PlanDefers(e)  PROVE Lined(d) /\ Kept(d)'
  <2>1. Planning(c) /\ c.at = "check" /\ c.kind = "plan" /\ c.ops # <<>>
        /\ stories' = stories /\ deps' = deps
    BY <1>3 DEF PlanChecks, PlanDefers, Doing, Stored, Planning, Steps
  <2>2. Op(e) = c.ops[1] /\ Op(e) \in Ops /\ Renders(Op(e), c.plan.actions[Behind(c) + 1])
    <3>1. c.ops \in Seq(Ops)
      BY <1>0, <2>1 DEF Pending
    <3> QED
      BY <1>0, <2>1, <3>1, HeadTailProperties DEF Lined
  <2>3. CASE PlanChecks(e)
    <3>1. Accepts(Op(e)) /\ Goes(e, [calls[e] EXCEPT !.at = "write", !.ops[1] = Read(Op(e))])
      BY <1>1, <2>3 DEF PlanChecks
    <3>2. PICK r \in ReadOps : r = Read(Op(e))
      BY <1>0, <2>2, <3>1, ReadsAreTrusted
    <3>3. d = [c EXCEPT !.at = "write", !.ops[1] = r]
      BY <1>0, <3>1, <3>2
    <3>4. Renders(r, c.plan.actions[Behind(c) + 1])
      BY <2>2, <3>2 DEF Renders, Read
    <3>5. r \in AnyOp /\ "write" \in Steps
      BY DEF AnyOp, Steps
    <3>6. Lined(c) /\ Kept(c)
      BY <1>0, <2>1
    <3>7. /\ Lined([c EXCEPT !.at = "write", !.ops[1] = r])
          /\ Kept([c EXCEPT !.at = "write", !.ops[1] = r])
      BY <2>1, <3>4, <3>5, <3>6, HeadReplaced
    <3>8. Lined(d) /\ Kept(d)
      BY <3>3, <3>7, Zenon
    <3> QED
      BY <2>1, <3>8, NothingWritten
  <2>4. CASE PlanDefers(e)
    <3>1. /\ Op(e).op = "defer" /\ deferTarget(Op(e).id) \in Sprints
          /\ Goes(e, [calls[e] EXCEPT !.ops[1] = [op |-> "move", id |-> Op(e).id,
                                                 sprint |-> deferTarget(Op(e).id)]])
      BY <1>1, <2>4 DEF PlanDefers
    <3>2. PICK r : r = [op |-> "move", id |-> Op(e).id, sprint |-> deferTarget(Op(e).id)]
      OBVIOUS
    <3>3. d = [c EXCEPT !.ops[1] = r]
      BY <1>0, <3>1, <3>2
    <3>4. r \in Ops /\ Renders(r, c.plan.actions[Behind(c) + 1])
      BY <2>2, <3>1, <3>2 DEF Renders, Ops
    <3>5. r \in AnyOp /\ "check" \in Steps
      BY <3>4 DEF AnyOp, Steps
    <3>6. d = [c EXCEPT !.at = "check", !.ops[1] = r]
      BY <2>1, <3>3 DEF Calls, AtRest, Steps
    <3>7. Lined(c) /\ Kept(c)
      BY <1>0, <2>1
    <3>8. /\ Lined([c EXCEPT !.at = "check", !.ops[1] = r])
          /\ Kept([c EXCEPT !.at = "check", !.ops[1] = r])
      BY <2>1, <3>4, <3>5, <3>7, HeadReplaced
    <3>9. Lined(d) /\ Kept(d)
      BY <3>6, <3>8, Zenon
    <3> QED
      BY <2>1, <3>9, NothingWritten
  <2> QED
    BY <1>3, <2>3, <2>4
<1>4. ASSUME PlanWrites(e)  PROVE Lined(d) /\ Kept(d)'
  <2>1. Planning(c) /\ c.at = "write" /\ CanWrite(Op(e)) /\ Write(Op(e))
        /\ d = [c EXCEPT !.at = "check", !.ops = Tail(@)]
    BY <1>0, <1>1, <1>4 DEF PlanWrites, Doing, Planning, Steps
  <2>2. c.ops # <<>>
    BY <1>0, <2>1 DEF Pending
  <2> QED
    BY <1>0, <2>1, <2>2, PlanGoesOn
<1>5. ~\E o \in Requests : Request(e, o)
  <2> SUFFICES ASSUME NEW o \in Requests, Request(e, o)  PROVE FALSE
    OBVIOUS
  <2>1. PICK x : x = <<Read(o)>>
    OBVIOUS
  <2>2. d = [kind |-> "request", at |-> "write", ops |-> x]
    BY <1>0, <2>1 DEF Request
  <2> QED
    BY <2>2 DEF Planning
<1>6. ~\E p \in Publications : Publish(e, p)
  <2> SUFFICES ASSUME NEW p \in Publications, Publish(e, p)  PROVE FALSE
    OBVIOUS
  <2>1. d = [kind |-> "publish", at |-> "check", ops |-> p]
    BY <1>0 DEF Publish
  <2> QED
    BY <2>1 DEF Planning
<1>7. ~PublishChecks(e) /\ ~PublishWrites(e)
  <2> SUFFICES ASSUME PublishChecks(e) \/ PublishWrites(e)  PROVE FALSE
    OBVIOUS
  <2>1. /\ c.kind = "publish" /\ c.at \in Steps
        /\ d = [c EXCEPT !.at = "write"] \/ d = [c EXCEPT !.at = "check", !.ops = Tail(@)]
    BY <1>0, <1>1 DEF PublishChecks, PublishWrites, Doing, Steps
  <2>2. "kind" \in DOMAIN c
    BY <2>1 DEF Calls, AtRest, Steps
  <2> QED
    BY <2>1, <2>2 DEF Planning
<1>8. ~RequestWrites(e) /\ ~PlanIsStamped(e) /\ ~PublishEnds(e) /\ ~Acknowledge(e)
  BY <1>1 DEF RequestWrites, PlanIsStamped, PublishEnds, Acknowledge
<1> QED
  BY <1>2, <1>3, <1>4, <1>5, <1>6, <1>7, <1>8 DEF Edit

LEMMA PlanNextInvariant ==
  ASSUME OneEditor, CoherentPlans, BoardInv, PlanInv, [BacklogNext]_backlogVars
  PROVE  PlanInv'
<1>0. BoardTypes /\ \A e \in Editors : calls[e] \in Calls
  BY DEF BoardInv, BoardTypes
<1>1. SUFFICES ASSUME NEW e \in Editors, NEW d, d = calls'[e], Planning(d)
               PROVE  Lined(d) /\ Kept(d)'
  BY DEF PlanInv, Lined, Kept, Planning, Superseded, Behind, Stands, InForce, storyExists
<1>2. CASE \E f \in Editors : Edit(f)
  <2>1. Edit(e)
    BY <1>2 DEF OneEditor
  <2>2. PICK c \in Calls : c = calls[e]
    BY <1>0
  <2> QED
    BY <1>1, <2>1, <2>2, PlanEdit
<1>3. CASE UNCHANGED backlogVars
  BY <1>1, <1>3, NothingWritten DEF backlogVars, PlanInv
<1>4. ASSUME NEW s \in Ids, Work(s)  PROVE Lined(d) /\ Kept(d)'
  <2>1. d = calls[e] /\ d \in Calls /\ Lined(d) /\ Kept(d)
    BY <1>0, <1>1, <1>4, WorkEffect DEF PlanInv
  <2>2. d.plan.actions \in Seq(PlanOps) /\ Behind(d) \in 0 .. Len(d.plan.actions)
        /\ Len(d.plan.actions) \in Nat
    BY <1>1, <2>1, PlanParts DEF Lined
  <2>3. \A i \in 1 .. Behind(d) : d.plan.actions[i] \in PlanOps
    BY <2>2, ElementOfSeq
  <2>4. \A i \in 1 .. Behind(d) : Stands(d.plan.actions[i]) => Stands(d.plan.actions[i])'
    BY <1>0, <1>4, <2>3, WorkKeepsPlan
  <2> QED
    BY <2>1, <2>4 DEF Kept, Superseded, Behind
<1> QED
  BY <1>2, <1>3, <1>4 DEF BacklogNext

\* A sprint is planned only when every action of the approved plan is in force,
\* whatever the scheduler takes meanwhile: with one editor, and plans that do not
\* split what they have just made a story wait for.
THEOREM PlansAreApplied ==
  ASSUME OneEditor, CoherentPlans
  PROVE  BacklogSpec => PlannedMeansApplied
<1>1. BacklogInit => PlanInv
  BY DEF BacklogInit, PlanInv, Planning, AtRest, Steps
<1>2. BoardInv /\ PlanInv /\ [BacklogNext]_backlogVars => PlanInv'
  BY PlanNextInvariant
<1>3. BoardInv /\ PlanInv /\ [BacklogNext]_backlogVars =>
        [\A e \in Editors :
           planned' # planned /\ calls'[e] # calls[e] =>
             LET A == calls[e].plan.actions
             IN  \A i \in DOMAIN A :
                   InForce(A[i]) \/ \E j \in DOMAIN A : j > i /\ A[j].id = A[i].id]_backlogVars
  <2> SUFFICES ASSUME BoardInv, PlanInv, BacklogNext, NEW e \in Editors, planned' # planned,
                      NEW i \in DOMAIN calls[e].plan.actions
               PROVE  InForce(calls[e].plan.actions[i]) \/ Superseded(calls[e].plan.actions, i)
    BY DEF Superseded
  <2>1. PlanIsStamped(e)
    <3>1. \E f \in Editors : PlanIsStamped(f)
      BY DEF BacklogNext, Edit, Work, Progress, Requeue, Request, RequestWrites, ApprovePlan,
             PlanChecks, PlanDefers, PlanWrites, Publish, PublishChecks, PublishWrites,
             PublishEnds, Acknowledge, Stored
    <3> QED
      BY <3>1 DEF OneEditor
  <2>2. PICK c \in Calls : c = calls[e]
    BY DEF BoardInv, BoardTypes
  <2>3. Planning(c) /\ c.ops = <<>> /\ Lined(c) /\ Kept(c)
    BY <2>1, <2>2 DEF PlanIsStamped, Doing, Planning, Steps, PlanInv
  <2>4. DOMAIN c.plan.actions = 1 .. Len(c.plan.actions) /\ Len(c.plan.actions) \in Nat
    BY <2>3, PlanParts, LenProperties
  <2>5. Behind(c) = Len(c.plan.actions)
    BY <2>3, <2>4, EmptySeq DEF Behind
  <2> QED
    BY <2>2, <2>3, <2>4, <2>5 DEF Kept, Stands
<1> QED
  BY <1>1, <1>2, <1>3, BoardInvariant, PTL DEF BacklogSpec, PlannedMeansApplied
=============================================================================
